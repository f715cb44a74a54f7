--------------------------- MODULE InRegionProbe ---------------------------
(***************************************************************************)
(* The in-region probe of `run --campaign`.  The control plane launches an *)
(* instance, the carrier, whose only process polls a prefix of a blob      *)
(* store for probe jobs; the control plane writes the jobs there, waits    *)
(* for their results, and ends with a stop sentinel and the deletion of    *)
(* the instance.  The two never talk to each other but through the store.  *)
(*                                                                         *)
(* Campaigns follow one another.  One with a run_id has a prefix of its    *)
(* own; the others share the prefix "adhoc", here 0.  Instance c is the    *)
(* carrier of campaign c.  There is no clock: a deadline may pass at any   *)
(* moment it is looked at.                                                 *)
(***************************************************************************)
EXTENDS Naturals, FiniteSets

CONSTANTS NCampaigns,   \* campaigns, one after the other
          Named,        \* the campaigns that have a run_id
          FirstJobs,    \* data-plane jobs of the first campaign
          LaterJobs,    \* and of every later one
          MaxFaults     \* bound: cloud calls and store operations that raise

ASSUME NCampaignsAssumption == NCampaigns \in Nat \ {0}
ASSUME NamedAssumption == Named \subseteq 1 .. NCampaigns
ASSUME JobsAssumption == FirstJobs \in Nat /\ LaterJobs \in Nat
ASSUME MaxFaultsAssumption == MaxFaults \in Nat

Campaigns == 1 .. NCampaigns
JobsOf(c) == IF c = 1 THEN FirstJobs ELSE LaterJobs
Jobs == UNION {{c} \X (1 .. JobsOf(c)) : c \in Campaigns}
NoJob == <<0, 0>>

VARIABLES
    \* the control plane: campaign, its step, job waited for, carrier, keys reset still has to delete
    camp, pc, k, carrier, listed,
    \* the objects of the store
    store,
    \* the instances: in the cloud, the loop, its snapshot of pending jobs, the job at hand,
    \* and the jobs given up
    cloud, loop, pending, job, gaveUp,
    \* the runner's thread of each job in each instance
    probe,
    \* history: the job run_job has just returned a bundle for, runs of each job, faults,
    \* campaigns whose carrier a fault kept from being deleted
    told, runs, faults, excused

control == <<camp, pc, k, carrier, listed>>
hosts   == <<cloud, loop, pending, job, gaveUp, probe>>
history == <<told, runs, faults, excused>>
vars    == <<control, store, hosts, history>>

Kinds == {"ready", "stop", "spec", "claim", "completed", "failed"}
Prefix(c) == IF c \in Named THEN c ELSE 0
Key(p, kind, j) == <<p, kind, j>>
Has(c, kind, j) == Key(Prefix(c), kind, j) \in store
Terminal == {"completed", "failed"}
Alive(c) == cloud[c] \in {"booting", "running"}
Active == {"poll", "list", "next", "claim", "run"}

Init ==
    /\ camp = 1 /\ pc = "idle" /\ k = 0 /\ carrier = 0 /\ listed = {}
    /\ store = {}
    /\ cloud = [c \in Campaigns |-> "none"] /\ loop = [c \in Campaigns |-> "off"]
    /\ pending = [c \in Campaigns |-> {}] /\ job = [c \in Campaigns |-> NoJob]
    /\ probe = [c \in Campaigns |-> [j \in Jobs |-> "none"]]
    /\ told = NoJob /\ runs = [j \in Jobs |-> 0]
    /\ gaveUp = {} /\ faults = 0 /\ excused = {}

Fault == faults < MaxFaults /\ faults' = faults + 1
Goto(where) == pc' = where

----------------------------------------------------------------------------
(* The control plane: start_campaign_probe.                                *)

\* BlobChannel.reset lists the prefix, then deletes what it listed.
StartCampaign ==
    /\ pc = "idle" /\ camp <= NCampaigns
    /\ \/ listed' = {o \in store : o[1] = Prefix(camp)} /\ Goto("reset") /\ UNCHANGED faults
       \/ Goto("stop") /\ Fault /\ UNCHANGED listed
    /\ UNCHANGED <<camp, k, carrier, store, hosts, told, runs, excused>>

\* The listing is sorted: jobs/<id>.claimed, .json, .result.json, then ready.json, stop.
RankResultsFirst(kind) == CASE kind \in Terminal -> 1 [] kind = "claim" -> 2
                            [] kind = "spec" -> 3 [] kind = "ready" -> 4 [] kind = "stop" -> 5
Rank(kind) == CASE kind = "claim" -> 1 [] kind = "spec" -> 2 [] kind \in Terminal -> 3
                [] kind = "ready" -> 4 [] kind = "stop" -> 5
ListedBefore(o, q) == IF o[3] = q[3] \/ NoJob \in {o[3], q[3]}
                      THEN Rank(o[2]) < Rank(q[2])
                      ELSE o[3][1] < q[3][1] \/ (o[3][1] = q[3][1] /\ o[3][2] < q[3][2])
\* A reset that forgets the readiness marker.
ResetButReady ==
    /\ pc = "reset" /\ listed # {}
    /\ LET o == CHOOSE o \in listed : TRUE IN
         listed' = listed \ {o} /\ store' = IF o[2] = "ready" THEN store ELSE store \ {o}
    /\ UNCHANGED <<camp, pc, k, carrier, hosts, history>>
Reset ==
    /\ pc = "reset" /\ listed # {}
    /\ \E o \in listed :
         /\ \A q \in listed \ {o} : ListedBefore(o, q)
         /\ listed' = listed \ {o} /\ store' = store \ {o}
    /\ UNCHANGED <<camp, pc, k, carrier, hosts, history>>

\* provision: run_instance.  A call that raises may have created the instance.
Launch ==
    /\ pc = "reset" /\ listed = {}
    /\ \/ /\ cloud' = [cloud EXCEPT ![camp] = "booting"] /\ carrier' = camp
          /\ Goto("boot") /\ UNCHANGED <<faults, excused>>
       \/ /\ Fault /\ Goto("stop") /\ UNCHANGED carrier
          /\ \/ UNCHANGED <<cloud, excused>>
             \/ /\ cloud' = [cloud EXCEPT ![camp] = "booting"]
                /\ excused' = excused \cup {camp}
    /\ UNCHANGED <<camp, k, listed, store, loop, pending, job, gaveUp,
                   probe, told, runs>>

\* The instance runs and the readiness marker is there, whoever wrote it.
Ready ==
    /\ pc = "boot" /\ cloud[camp] = "running" /\ Has(camp, "ready", NoJob)
    /\ Goto("task")
    /\ UNCHANGED <<camp, k, carrier, listed, store, hosts, history>>

\* BaseProbeCarrier.teardown: best effort, the id is forgotten first.  Deleting an
\* instance ends its loop and the threads in it.
Stopped(c, how) ==
    /\ loop' = [loop EXCEPT ![c] = how]
    /\ pending' = [pending EXCEPT ![c] = {}] /\ job' = [job EXCEPT ![c] = NoJob]
    /\ gaveUp' = {g \in gaveUp : g[1] # c}
    /\ probe' = [probe EXCEPT ![c] = [j \in Jobs |-> IF @[j] = "running" THEN "failed" ELSE @[j]]]
TeardownKeepsId ==
    /\ UNCHANGED carrier
    /\ \/ /\ cloud' = [cloud EXCEPT ![camp] = "gone"]
          /\ Stopped(camp, "deleted") /\ UNCHANGED <<faults, excused>>
       \/ /\ Fault /\ excused' = excused \cup {camp}
          /\ UNCHANGED <<cloud, loop, pending, job, gaveUp, probe>>
Teardown ==
    /\ carrier' = 0
    /\ IF carrier = 0 THEN UNCHANGED <<cloud, loop, pending, job, gaveUp, probe, faults,
                                    excused>>
       ELSE \/ /\ cloud' = [cloud EXCEPT ![carrier] = "gone"]
               /\ Stopped(carrier, "deleted") /\ UNCHANGED <<faults, excused>>
            \/ /\ Fault /\ excused' = excused \cup {carrier}
               /\ UNCHANGED <<cloud, loop, pending, job, gaveUp, probe>>

NotReady ==
    /\ pc = "boot"
    /\ Teardown
    /\ Goto("stop")
    /\ UNCHANGED <<camp, k, listed, store, told, runs>>

\* describe_instance or the readiness check raises: the carrier keeps the id.
NotReadyRaised ==
    /\ pc = "boot" /\ Fault /\ Goto("stop")
    /\ UNCHANGED <<camp, k, carrier, listed, store, hosts, told, runs,
                   excused>>

----------------------------------------------------------------------------
(* The control plane: BlobProbeClient.run_job, and the end of the campaign. *)

This == <<camp, k>>

\* write_job.  Nothing here looks at the endpoints that JobSpec.from_dict refuses.
Ask ==
    /\ pc = "task" /\ k < JobsOf(camp)
    /\ k' = k + 1
    /\ LET j == <<camp, k + 1>> IN
         \/ /\ store' = store \cup {Key(Prefix(camp), "spec", j)}
            /\ Goto("answer") /\ UNCHANGED faults
         \/ Fault /\ UNCHANGED <<pc, store>>
    /\ told' = NoJob
    /\ UNCHANGED <<camp, carrier, listed, hosts, runs, excused>>

Answered == /\ Goto("task")
            /\ UNCHANGED <<camp, k, carrier, listed, store, hosts, runs,
                           excused>>

\* A bundle, or ProbeJobFailed into the task.
ReadResult ==
    /\ pc = "answer" /\ Answered /\ UNCHANGED faults
    /\ \/ Has(camp, "completed", This) /\ told' = This
       \/ Has(camp, "failed", This) /\ UNCHANGED told
\* The deadline of run_job.
GiveUpAnswer == pc = "answer" /\ Answered /\ UNCHANGED <<told, faults>>
\* read_progress or read_result raises into the task.
AnswerRaised == pc = "answer" /\ Answered /\ Fault /\ UNCHANGED told

\* The tasks are over, or the process is interrupted: the finally of the run command.
TasksOver ==
    /\ pc = "task" /\ k = JobsOf(camp) /\ Goto("stop")
    /\ UNCHANGED <<camp, k, carrier, listed, store, hosts, history>>
\* A start that raises outside the try: nothing is stopped.
InterruptedUnstopped ==
    /\ pc \in {"reset", "boot", "task", "answer"} /\ Fault /\ Goto("idle")
    /\ camp' = camp + 1 /\ k' = 0 /\ carrier' = 0 /\ listed' = {}
    /\ UNCHANGED <<store, hosts, told, runs, excused>>
Interrupted ==
    /\ pc \in {"reset", "boot", "task", "answer"} /\ Fault /\ Goto("stop")
    /\ UNCHANGED <<camp, k, carrier, listed, store, hosts, told, runs, excused>>

\* stop_campaign_probe: the sentinel first, then the carrier; both suppress what is raised.
SignalStop ==
    /\ pc = "stop" /\ Goto("kill") /\ told' = NoJob
    /\ \/ store' = store \cup {Key(Prefix(camp), "stop", NoJob)} /\ UNCHANGED faults
       \/ Fault /\ UNCHANGED store
    /\ UNCHANGED <<camp, k, carrier, listed, hosts, runs, excused>>

Over == camp' = camp + 1 /\ k' = 0 /\ listed' = {} /\ Goto("idle")

StopCarrier ==
    /\ pc = "kill" /\ Teardown /\ Over
    /\ UNCHANGED <<store, told, runs>>

\* The control plane is killed: no finally.
ControlDies ==
    /\ pc # "idle" /\ Fault /\ Over
    /\ carrier' = 0 /\ told' = NoJob
    /\ excused' = IF Alive(camp) THEN excused \cup {camp} ELSE excused
    /\ UNCHANGED <<store, hosts, runs>>

----------------------------------------------------------------------------
(* The instance: cloud-init, then run_agent_loop.                          *)

At(c, where) == loop[c] = where /\ cloud[c] = "running"
To(c, where) == loop' = [loop EXCEPT ![c] = where]
AsIs == UNCHANGED <<control, cloud, told, excused>>

Boot(c) ==
    /\ cloud[c] = "booting"
    /\ cloud' = [cloud EXCEPT ![c] = "running"]
    /\ UNCHANGED <<control, store, loop, pending, job, gaveUp, probe, history>>

WriteReady(c) ==
    /\ At(c, "off") /\ To(c, "poll")
    /\ store' = store \cup {Key(Prefix(c), "ready", NoJob)}
    /\ AsIs /\ UNCHANGED <<pending, job, probe, runs, gaveUp, faults>>

\* Every way the process ends takes its daemon threads with it; the instance stays.
SeeStop(c) ==
    /\ At(c, "poll") /\ Has(c, "stop", NoJob)
    /\ Stopped(c, "stopped")
    /\ AsIs /\ UNCHANGED <<store, runs, faults>>
\* An idle time counted only from the first job on.
IdleOutAfterWork(c) ==
    /\ At(c, "poll") /\ ~Has(c, "stop", NoJob) /\ \E j \in Jobs : probe[c][j] # "none"
    /\ Stopped(c, "ended")
    /\ AsIs /\ UNCHANGED <<store, runs, faults>>
IdleOut(c) ==
    /\ At(c, "poll") /\ ~Has(c, "stop", NoJob)
    /\ Stopped(c, "ended")
    /\ AsIs /\ UNCHANGED <<store, runs, faults>>
NoStop(c) ==
    /\ At(c, "poll") /\ ~Has(c, "stop", NoJob)
    /\ To(c, "list")
    /\ AsIs /\ UNCHANGED <<store, pending, job, probe, runs, gaveUp, faults>>

\* list_pending_jobs: a spec and neither a claim nor a result.
PendingJobs(c) == {j \in Jobs : Has(c, "spec", j) /\ ~Has(c, "claim", j)
                                /\ \A st \in Terminal : ~Has(c, st, j)}
List(c) ==
    /\ At(c, "list")
    /\ pending' = [pending EXCEPT ![c] = PendingJobs(c)]
    /\ To(c, "next")
    /\ AsIs /\ UNCHANGED <<store, job, probe, runs, gaveUp, faults>>

\* The snapshot is worked through before the loop looks at anything else.  A claim is a
\* look at the marker, and later a put.
NextJob(c) ==
    /\ At(c, "next")
    /\ IF pending[c] = {} THEN To(c, "poll") /\ UNCHANGED <<pending, job>>
       ELSE \E j \in pending[c] :
              /\ pending' = [pending EXCEPT ![c] = @ \ {j}]
              /\ IF Has(c, "claim", j) THEN UNCHANGED <<loop, job>>
                                       ELSE To(c, "claim") /\ job' = [job EXCEPT ![c] = j]
    /\ AsIs /\ UNCHANGED <<store, probe, runs, gaveUp, faults>>
\* Then read_job: a missing spec is skipped, one that JobSpec.from_dict refuses, for an
\* endpoint that is no http(s) address or link-local, raises out of the loop, any other is
\* submitted.
SpecsMayBe == {"accepted", "refused"}
Submit(c) == /\ probe' = [probe EXCEPT ![c][job[c]] = "running"]
             /\ runs' = [runs EXCEPT ![job[c]] = @ + 1]
Claim(c) ==
    /\ At(c, "claim")
    /\ store' = store \cup {Key(Prefix(c), "claim", job[c])}
    /\ IF ~Has(c, "spec", job[c])
         THEN To(c, "next") /\ UNCHANGED <<pending, job, gaveUp, probe, runs>>
         ELSE \E spec \in SpecsMayBe :
                IF spec = "refused" THEN Stopped(c, "ended") /\ UNCHANGED runs
                ELSE Submit(c) /\ To(c, "run") /\ UNCHANGED <<pending, job, gaveUp>>
    /\ AsIs /\ UNCHANGED faults

\* JobRunner._run: a daemon thread, which goes on when it was given up.
ProbeEnds(c, j) ==
    /\ cloud[c] = "running" /\ probe[c][j] = "running"
    /\ \E st \in Terminal : probe' = [probe EXCEPT ![c][j] = st]
    /\ AsIs /\ UNCHANGED <<store, loop, pending, job, runs, gaveUp, faults>>

\* _run_job sees a terminal status, or its deadline; write_result.
Report(c, st) ==
    /\ store' = {o \in store : ~(o[3] = job[c] /\ o[2] \in Terminal)}
                  \cup {Key(Prefix(c), st, job[c])}
    /\ To(c, "next") /\ job' = [job EXCEPT ![c] = NoJob]
    /\ AsIs /\ UNCHANGED <<pending, probe, runs, faults>>
WriteResult(c) ==
    /\ At(c, "run") /\ probe[c][job[c]] \in Terminal
    /\ Report(c, probe[c][job[c]]) /\ UNCHANGED gaveUp
\* A loop that submits and goes on to the next job without waiting.
GiveUpUnsaid(c) ==
    /\ At(c, "run") /\ probe[c][job[c]] \notin Terminal
    /\ To(c, "next")
    /\ AsIs /\ UNCHANGED <<store, pending, job, probe, runs, gaveUp, faults>>
GiveUpProbe(c) ==
    /\ At(c, "run") /\ probe[c][job[c]] \notin Terminal
    /\ Report(c, "failed") /\ gaveUp' = gaveUp \cup {<<c, job[c]>>}

\* A store operation of the loop raises and nothing catches it, or the package does not
\* install (set -e) and there never is a loop.
LoopDies(c) ==
    /\ cloud[c] = "running" /\ loop[c] \in {"off"} \cup Active /\ Fault
    /\ Stopped(c, IF loop[c] = "off" THEN "unborn" ELSE "ended")
    /\ AsIs /\ UNCHANGED <<store, runs>>

----------------------------------------------------------------------------

Finished == camp > NCampaigns /\ \A c \in Campaigns : loop[c] \notin Active
                                    /\ (cloud[c] = "running" => loop[c] # "off")
                                    /\ cloud[c] # "booting"

Control == \/ StartCampaign \/ Reset \/ Launch \/ Ready \/ NotReady \/ Ask \/ ReadResult
           \/ GiveUpAnswer \/ TasksOver \/ SignalStop \/ StopCarrier
ControlFaults == NotReadyRaised \/ AnswerRaised \/ Interrupted \/ ControlDies
Host(c) == \/ Boot(c) \/ WriteReady(c) \/ SeeStop(c) \/ NoStop(c) \/ List(c) \/ NextJob(c)
           \/ Claim(c) \/ GiveUpProbe(c) \/ WriteResult(c)

Next == \/ Control \/ ControlFaults
        \/ \E c \in Campaigns : \/ Host(c) \/ IdleOut(c) \/ LoopDies(c)
                                \/ \E j \in Jobs : ProbeEnds(c, j)
        \/ Finished /\ UNCHANGED vars

\* The processes are scheduled and the clock goes on.  Without work the idle time adds up
\* over the polls, so the loop must idle out in the end; a probe thread need never end.
Fairness == /\ WF_vars(Control)
            /\ \A c \in Campaigns : WF_vars(Host(c)) /\ SF_vars(IdleOut(c))

Spec == Init /\ [][Next]_vars /\ Fairness

----------------------------------------------------------------------------
(* Properties.                                                             *)

\* Every variable has its type, and the carrier is the instance of the campaign at hand.
TypeOK ==
    /\ camp \in 1 .. NCampaigns + 1 /\ k \in 0 .. FirstJobs + LaterJobs /\ carrier \in {0, camp}
    /\ pc \in {"idle", "reset", "boot", "task", "answer", "stop", "kill"}
    /\ store \subseteq ({0} \cup Campaigns) \X Kinds \X (Jobs \cup {NoJob})
    /\ listed \subseteq ({0} \cup Campaigns) \X Kinds \X (Jobs \cup {NoJob})
    /\ cloud \in [Campaigns -> {"none", "booting", "running", "gone"}]
    /\ loop \in [Campaigns -> Active \cup {"off", "unborn", "stopped", "ended", "deleted"}]
    /\ pending \in [Campaigns -> SUBSET Jobs] /\ job \in [Campaigns -> Jobs \cup {NoJob}]
    /\ probe \in [Campaigns -> [Jobs -> Terminal \cup {"none", "running"}]]
    /\ told \in Jobs \cup {NoJob} /\ runs \in [Jobs -> Nat] /\ gaveUp \subseteq Campaigns \X Jobs
    /\ faults \in 0 .. MaxFaults /\ excused \subseteq Campaigns

\* An instance of an earlier campaign still polls the prefix of campaign c.
Haunted(c) == \E e \in 1 .. c - 1 : Prefix(e) = Prefix(c) /\ Alive(e)

\* A job is run once at most, whatever is retried, reset or given up: only an instance that
\* outlived its campaign, on the shared prefix, can run a job a second time.  Claims are no
\* compare-and-swap (BlobChannel.claim), so with two consumers nothing else prevents it.
OneRunPerJob == \A j \in Jobs : runs[j] > 1 => Haunted(j[1])

\* run_job returns a bundle only for a probe that ended well, and two probes load the target
\* at the same time from one instance only when the loop has reported one of them as not
\* completed (job_max_wait), so a measurement taken under the load of another is known.
ReportsAreTrue ==
    /\ told # NoJob => \E c \in Campaigns : probe[c][told] = "completed"
    /\ \A c \in Campaigns : \A j, l \in Jobs :
         (j # l /\ probe[c][j] = "running" /\ probe[c][l] = "running")
            => \E g \in {j, l} : <<c, g>> \in gaveUp

\* What a campaign finds on its prefix is its own: it is ready because its own loop has
\* started, and its loop is stopped by its own sentinel, unless an instance haunts it.
MarkersAreOwn == \A c \in Campaigns :
    /\ (camp = c /\ pc \in {"task", "answer"} /\ ~Haunted(c)) => loop[c] \notin {"off", "unborn"}
    /\ loop[c] = "stopped" => camp > c \/ pc = "kill"

\* However a campaign ends, its instance is deleted, unless the deletion raised, the launch
\* raised after creating it, or the control plane was killed.
CarrierIsReaped == \A c \in Campaigns : c < camp /\ Alive(c) => c \in excused

\* Every campaign ends, and every loop ends too, whatever sentinel or deletion was lost: the
\* idle timeout is the failsafe against a crashed control plane.
LoopsEnd == <>[](camp > NCampaigns /\ \A c \in Campaigns : loop[c] \notin Active)

\* Nothing of a campaign goes on for ever: its loop ends, and its instance is deleted on every
\* path that can delete it.
EverythingEnds == []CarrierIsReaped /\ LoopsEnd

\* Over retries, faults, resets and instances of earlier campaigns on the same prefix: what
\* is run, reported and found on the prefix is what it says it is.
JobsAreKept == TypeOK /\ OneRunPerJob /\ ReportsAreTrue /\ MarkersAreOwn
=============================================================================
