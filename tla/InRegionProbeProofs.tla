----------------------- MODULE InRegionProbeProofs -----------------------
(***************************************************************************)
(* Proofs about the probe jobs of a campaign. Of InRegionProbe, for any    *)
(* number of campaigns, with or without names of their own, any number of  *)
(* jobs and of faults: the inductive invariant ProbeInv, and from it that  *)
(* a job is run once at most, that reports are true, that markers are a    *)
(* campaign's own (JobsAreKept), and that a carrier is reaped. Of what the *)
(* jobs measure (DataPlaneProbes): the fault probes' FaultInv and the      *)
(* measuring probes' LoadInv, and that the verdicts of both are earned.    *)
(***************************************************************************)
EXTENDS InRegionProbe, DataPlaneProbes, FiniteSetTheorems, TLAPS

USE NCampaignsAssumption, NamedAssumption, JobsAssumption, MaxFaultsAssumption

(***************************************************************************)
(* TypeOK in three parts.                                                  *)
(***************************************************************************)
\* Whatever a store can hold: prefix, kind and job.
Objects == ({0} \cup Campaigns) \X Kinds \X (Jobs \cup {NoJob})
ControlType ==
    /\ camp \in 1 .. NCampaigns + 1 /\ k \in 0 .. FirstJobs + LaterJobs /\ carrier \in {0, camp}
    /\ pc \in {"idle", "reset", "boot", "task", "answer", "stop", "kill"}
    /\ faults \in 0 .. MaxFaults /\ excused \subseteq Campaigns
StoreType == store \subseteq Objects /\ listed \subseteq Objects
HostType ==
    /\ cloud \in [Campaigns -> {"none", "booting", "running", "gone"}]
    /\ loop \in [Campaigns -> Active \cup {"off", "unborn", "stopped", "ended", "deleted"}]
    /\ pending \in [Campaigns -> SUBSET Jobs] /\ job \in [Campaigns -> Jobs \cup {NoJob}]
    /\ probe \in [Campaigns -> [Jobs -> Terminal \cup {"none", "running"}]]
    /\ told \in Jobs \cup {NoJob} /\ runs \in [Jobs -> Nat] /\ gaveUp \subseteq Campaigns \X Jobs

\* The carrier of campaign c was launched.
Began(c) == cloud[c] # "none"

\* The control plane has written job j, in this campaign or in an earlier one.
Asked(j) == j[1] < camp \/ (j[1] = camp /\ j[2] <= k)

\* A campaign launches its own instance only, and lets go of it only when it is gone or
\* something kept it from being deleted.
CarrierInv ==
    /\ pc # "idle" => camp \in Campaigns
    /\ camp \in Campaigns => k <= JobsOf(camp)
    /\ pc = "answer" => k >= 1
    /\ pc = "idle" => carrier = 0 /\ listed = {}
    /\ \A c \in Campaigns : Began(c) => c < camp \/ (c = camp /\ pc \notin {"idle", "reset"})
    /\ pc \in {"boot", "task", "answer"} \/ carrier # 0 => Began(camp)
    /\ \A c \in Campaigns : Alive(c) => (c = camp /\ carrier = camp) \/ c \in excused

\* Where a loop can be, and the job it has at hand.
LoopAt(c) ==
    /\ cloud[c] \in {"none", "booting"} => loop[c] = "off"
    /\ cloud[c] = "gone" => loop[c] = "deleted"
    /\ loop[c] \in {"off", "unborn"} => \A j \in Jobs : probe[c][j] = "none"
    /\ loop[c] \notin {"next", "claim", "run"} => pending[c] = {}
    /\ loop[c] \in {"claim", "run"} => job[c] \in Jobs
    /\ loop[c] = "claim" => job[c] \notin pending[c] /\ probe[c][job[c]] = "none"
    /\ loop[c] = "run" => probe[c][job[c]] # "none"
LoopInv == \A c \in Campaigns : LoopAt(c)

\* An instance handles jobs of its own prefix, not of an earlier campaign, that were asked
\* for, and each one once; what it still has running was given up or is the job at hand.
OnceAt(c, j) ==
    /\ j \in pending[c] \/ (loop[c] = "claim" /\ job[c] = j) \/ probe[c][j] # "none" =>
          Prefix(c) = Prefix(j[1]) /\ c <= j[1] /\ Asked(j)
    /\ j \in pending[c] => probe[c][j] = "none"
    /\ probe[c][j] = "running" => (loop[c] = "run" /\ job[c] = j) \/ <<c, j>> \in gaveUp
OnceInv == \A c \in Campaigns : \A j \in Jobs : OnceAt(c, j)

\* The objects of the store: where they are, and what they say of the instances.
StoreAt(o) ==
    /\ o[3] \in Jobs => o[1] = Prefix(o[3][1]) /\ Asked(o[3])
    /\ o[2] \in {"spec", "claim"} \cup Terminal => o[3] \in Jobs
    /\ o[2] = "spec" => \A c \in Campaigns : Began(c) /\ o[1] = Prefix(c) => c <= o[3][1]
    /\ o[2] = "completed" => \E c \in Campaigns : probe[c][o[3]] = "completed"
StoreInv == \A o \in store : StoreAt(o)

\* A job an instance has run looks unhandled only while it is at hand.
HandledAt(c, j) ==
    Has(c, "spec", j) /\ loop[c] \in Active /\ probe[c][j] # "none" =>
       \/ loop[c] = "run" /\ job[c] = j
       \/ \E st \in Terminal : Has(c, st, j)
HandledInv == \A c \in Campaigns : \A j \in Jobs : HandledAt(c, j)

\* What a reset still has to remove, and what the markers mean once it is done.
MarkerAt(c) ==
    /\ pc = "reset" => \A o \in store :
          o[1] = Prefix(c) /\ (o[2] \in {"spec", "stop"} \/ ~Haunted(c)) => o \in listed
    /\ pc # "kill" /\ Began(c) => ~Has(c, "stop", NoJob)
    /\ Began(c) /\ ~Haunted(c) /\ Has(c, "ready", NoJob) => loop[c] \notin {"off", "unborn"}
    /\ pc \in {"task", "answer"} /\ ~Haunted(c) => loop[c] \notin {"off", "unborn"}
MarkerInv ==
    /\ camp \in Campaigns => MarkerAt(camp)
    /\ \A o \in listed : o[1] = Prefix(camp)
    /\ \A c \in Campaigns : loop[c] = "stopped" => c < camp \/ pc = "kill"

\* Without an instance from before, a campaign's jobs are run by its own instance only.
RunInv ==
    /\ told # NoJob => \E c \in Campaigns : probe[c][told] = "completed"
    /\ \A j \in Jobs : ~Haunted(j[1]) =>
          /\ \A c \in Campaigns \ {j[1]} : probe[c][j] = "none"
          /\ runs[j] = IF probe[j[1]][j] = "none" THEN 0 ELSE 1
    /\ \A j \in Jobs : j[1] > camp => runs[j] = 0

\* The inductive invariant.
ProbeInv ==
    /\ ControlType /\ StoreType /\ HostType
    /\ CarrierInv /\ LoopInv /\ OnceInv /\ StoreInv /\ HandledInv /\ MarkerInv /\ RunInv

----------------------------------------------------------------------------
(* Types.                                                                  *)

\* A job is a pair of its campaign and its number.
LEMMA JobFacts ==
    /\ \A j \in Jobs : j = <<j[1], j[2]>> /\ j[1] \in Campaigns /\ j[2] \in 1 .. JobsOf(j[1])
    /\ \A c \in Campaigns : \A n \in 1 .. JobsOf(c) : <<c, n>> \in Jobs
    /\ NoJob \notin Jobs
    /\ \A c \in Campaigns : JobsOf(c) \in 0 .. FirstJobs + LaterJobs
       /\ Prefix(c) \in {0} \cup Campaigns
BY DEF Jobs, Campaigns, NoJob, JobsOf, Prefix

\* The keys the two sides write are objects of the store.
LEMMA KeyType ==
    ASSUME NEW c \in Campaigns, NEW kd \in Kinds, NEW j \in Jobs \cup {NoJob}
    PROVE  Key(Prefix(c), kd, j) \in Objects
BY JobFacts DEF Key, Objects

\* The job the control plane asks for.
LEMMA AskedJob ==
    ASSUME ControlType, CarrierInv, Ask
    PROVE  camp \in Campaigns /\ <<camp, k + 1>> \in Jobs /\ k + 1 <= JobsOf(camp)
<1>1. camp \in Campaigns /\ k \in Nat /\ k < JobsOf(camp)
  BY DEF Ask, ControlType, CarrierInv
<1>2. JobsOf(camp) \in Nat /\ k + 1 \in 1 .. JobsOf(camp)
  BY <1>1, JobFacts
<1> QED
  BY <1>1, <1>2, JobFacts

\* Stopping a loop.
LEMMA StoppedType ==
    ASSUME HostType, NEW c \in Campaigns, NEW how \in {"unborn", "stopped", "ended", "deleted"},
           Stopped(c, how)
    PROVE  /\ loop' \in [Campaigns -> Active \cup {"off", "unborn", "stopped", "ended", "deleted"}]
           /\ pending' \in [Campaigns -> SUBSET Jobs] /\ job' \in [Campaigns -> Jobs \cup {NoJob}]
           /\ gaveUp' \subseteq Campaigns \X Jobs
           /\ probe' \in [Campaigns -> [Jobs -> Terminal \cup {"none", "running"}]]
BY DEF HostType, Stopped, Terminal

\* The control plane keeps its types.
LEMMA ControlTypeStep ==
    ASSUME ControlType, CarrierInv, Next
    PROVE  ControlType'
<1> USE JobFacts DEF ControlType, CarrierInv, Campaigns, Fault, Goto, AsIs, control, hosts,
   history
<1>1. CASE StartCampaign \/ Reset \/ Launch \/ Ready
  BY <1>1 DEF StartCampaign, Reset, Launch, Ready
<1>2. CASE NotReady \/ NotReadyRaised
  BY <1>2 DEF NotReady, Teardown, NotReadyRaised
<1>3. CASE StopCarrier
  BY <1>3 DEF StopCarrier, Teardown, Over
<1>4. CASE ControlDies
  BY <1>4 DEF ControlDies, Over
<1>5. CASE Ask
  BY <1>5 DEF Ask
<1>6. CASE ReadResult \/ GiveUpAnswer \/ TasksOver \/ SignalStop \/ AnswerRaised \/
   Interrupted
  BY <1>6 DEF ReadResult, Answered, GiveUpAnswer, TasksOver, SignalStop, AnswerRaised,
     Interrupted
<1>7. ASSUME NEW c \in Campaigns, Boot(c) \/ WriteReady(c) \/ SeeStop(c) \/ NoStop(c) \/
   List(c) \/ NextJob(c) PROVE ControlType'
  BY <1>7 DEF Boot, WriteReady, SeeStop, NoStop, List, NextJob
<1>8. ASSUME NEW c \in Campaigns, Claim(c) \/ GiveUpProbe(c) \/ WriteResult(c) \/ IdleOut(c)
   \/ LoopDies(c) PROVE ControlType'
  BY <1>8 DEF Claim, GiveUpProbe, Report, WriteResult, IdleOut, LoopDies
<1>9. ASSUME NEW c \in Campaigns, NEW j \in Jobs, ProbeEnds(c, j) PROVE ControlType'
  BY <1>9 DEF ProbeEnds, ProbeEnds
<1>10. CASE UNCHANGED vars
  BY <1>10 DEF vars
<1> QED
  BY <1>1, <1>2, <1>3, <1>4, <1>5, <1>6, <1>7, <1>8, <1>9, <1>10 DEF Next, Control,
     ControlFaults, Host, vars

\* The store keeps its type.
LEMMA StoreTypeStep ==
    ASSUME ControlType, CarrierInv, HostType, LoopInv, StoreType, Next
    PROVE  StoreType'
<1> USE JobFacts, KeyType DEF StoreType, Kinds, Goto, At, AsIs, control, hosts, history
<1>1. CASE StartCampaign \/ Reset \/ Launch \/ Ready
  BY <1>1 DEF StartCampaign, Reset, Launch, Ready
<1>2. CASE NotReady \/ NotReadyRaised \/ StopCarrier \/ ControlDies
  BY <1>2 DEF NotReady, NotReadyRaised, StopCarrier, Over, ControlDies
<1>3. CASE Ask
  BY <1>3, AskedJob DEF Ask
<1>4. CASE SignalStop
  BY <1>4 DEF SignalStop, ControlType, CarrierInv
<1>5. CASE ReadResult \/ GiveUpAnswer \/ TasksOver \/ AnswerRaised \/ Interrupted
  BY <1>5 DEF ReadResult, Answered, GiveUpAnswer, TasksOver, AnswerRaised, Interrupted
<1>6. ASSUME NEW c \in Campaigns, Boot(c) \/ SeeStop(c) \/ NoStop(c) \/ List(c) \/
   NextJob(c) \/ IdleOut(c) \/ LoopDies(c) PROVE StoreType'
  BY <1>6 DEF Boot, SeeStop, NoStop, List, NextJob, IdleOut, LoopDies
<1>7. ASSUME NEW c \in Campaigns, WriteReady(c) PROVE StoreType'
  BY <1>7 DEF WriteReady
<1>8. ASSUME NEW c \in Campaigns, Claim(c) PROVE StoreType'
  BY <1>8 DEF Claim, HostType, LoopInv
<1>9. ASSUME NEW c \in Campaigns, WriteResult(c) \/ GiveUpProbe(c) PROVE StoreType'
  BY <1>9 DEF WriteResult, Report, GiveUpProbe, HostType, LoopInv, LoopAt, Terminal
<1>10. ASSUME NEW c \in Campaigns, NEW j \in Jobs, ProbeEnds(c, j) PROVE StoreType'
  BY <1>10 DEF ProbeEnds, ProbeEnds
<1>11. CASE UNCHANGED vars
  BY <1>11 DEF vars
<1> QED
  BY <1>1, <1>2, <1>3, <1>4, <1>5, <1>6, <1>7, <1>8, <1>9, <1>10, <1>11 DEF Next, Control,
     ControlFaults, Host, vars

\* The instances keep their types.
LEMMA HostTypeStep ==
    ASSUME ControlType, CarrierInv, HostType, LoopInv, Next
    PROVE  HostType'
<1> USE JobFacts DEF HostType, Goto, At, To, AsIs, control, hosts, history
<1>1. CASE StartCampaign \/ Reset \/ Ready \/ NotReadyRaised \/ Interrupted \/ ControlDies
  BY <1>1 DEF StartCampaign, Reset, Ready, NotReadyRaised, Interrupted, ControlDies, Over
<1>2. CASE Launch
  BY <1>2 DEF Launch
<1>3. CASE NotReady \/ StopCarrier
  BY <1>3, StoppedType DEF NotReady, Teardown, StopCarrier, Over, ControlType, CarrierInv
<1>4. CASE Ask \/ SignalStop \/ TasksOver
  BY <1>4 DEF Ask, SignalStop, TasksOver
<1>5. CASE ReadResult \/ GiveUpAnswer \/ AnswerRaised
  BY <1>5 DEF ReadResult, Answered, GiveUpAnswer, AnswerRaised, This, CarrierInv, ControlType
<1>6. ASSUME NEW c \in Campaigns, Boot(c) \/ WriteReady(c) \/ NoStop(c) PROVE HostType'
  BY <1>6 DEF Boot, WriteReady, NoStop, Active
<1>7. ASSUME NEW c \in Campaigns, List(c) PROVE HostType'
  <2>1. PendingJobs(c) \subseteq Jobs
    BY DEF PendingJobs
  <2> QED
    BY <1>7, <2>1 DEF List, Active
<1>8. ASSUME NEW c \in Campaigns, NextJob(c) PROVE HostType'
  <2> USE <1>8 DEF NextJob, Active
  <2>1. UNCHANGED <<cloud, gaveUp, probe, told, runs>>
    OBVIOUS
  <2>2. pending' \in [Campaigns -> SUBSET Jobs]
    <3>1. pending' = pending \/ \E j \in pending[c] : pending' = [pending EXCEPT ![c] = @ \ {j}]
      OBVIOUS
    <3>2. \A j \in pending[c] : pending[c] \ {j} \in SUBSET Jobs
      OBVIOUS
    <3> QED
      BY <3>1, <3>2
  <2>3. job' \in [Campaigns -> Jobs \cup {NoJob}]
    OBVIOUS
  <2>4. loop' \in [Campaigns -> Active \cup {"off", "unborn", "stopped", "ended", "deleted"}]
    OBVIOUS
  <2> QED
    BY <2>1, <2>2, <2>3, <2>4
<1>9. ASSUME NEW c \in Campaigns, SeeStop(c) \/ IdleOut(c) \/ LoopDies(c) PROVE HostType'
  BY <1>9, StoppedType DEF SeeStop, IdleOut, LoopDies
<1>10. ASSUME NEW c \in Campaigns, Claim(c) PROVE HostType'
  <2> USE DEF Claim
  <2>1. UNCHANGED <<cloud, told>> /\ job[c] \in Jobs
    BY <1>10 DEF LoopInv, LoopAt
  <2>2. CASE Stopped(c, "ended") /\ UNCHANGED runs
    BY <2>1, <2>2, StoppedType
  <2>3. CASE Submit(c) /\ To(c, "run") /\ UNCHANGED <<pending, job, gaveUp>>
    BY <2>1, <2>3 DEF Submit, Active, Terminal
  <2>4. CASE To(c, "next") /\ UNCHANGED <<pending, job, gaveUp, probe, runs>>
    BY <2>1, <2>4 DEF Active
  <2> QED
    BY <1>10, <2>2, <2>3, <2>4
<1>11. ASSUME NEW c \in Campaigns, WriteResult(c) \/ GiveUpProbe(c) PROVE HostType'
  <2>1. UNCHANGED <<cloud, pending, probe, told, runs>> /\ job[c] \in Jobs
    BY <1>11 DEF WriteResult, GiveUpProbe, Report, LoopInv, LoopAt
  <2>2. gaveUp' \subseteq Campaigns \X Jobs
    BY <1>11, <2>1 DEF WriteResult, GiveUpProbe
  <2>3. To(c, "next") /\ job' = [job EXCEPT ![c] = NoJob]
    BY <1>11 DEF WriteResult, GiveUpProbe, Report
  <2> QED
    BY <2>1, <2>2, <2>3 DEF Active
<1>12. ASSUME NEW c \in Campaigns, NEW j \in Jobs, ProbeEnds(c, j) PROVE HostType'
  BY <1>12 DEF ProbeEnds, ProbeEnds, Terminal
<1>13. CASE UNCHANGED vars
  BY <1>13 DEF vars
<1> QED
  BY <1>1, <1>2, <1>3, <1>4, <1>5, <1>6, <1>7, <1>8, <1>9, <1>10, <1>11, <1>12, <1>13 DEF
     Next, Control, ControlFaults, Host, vars

----------------------------------------------------------------------------
(* The other conjuncts, action by action.                                  *)

\* Only campaigns up to the one at hand have an instance.
LEMMA BeganBefore ==
    ASSUME ControlType, CarrierInv
    PROVE  \A c \in Campaigns : Began(c) => c < camp + 1
BY DEF ControlType, CarrierInv, Campaigns

\* CarrierInv is kept by every step.
LEMMA CarrierStep ==
    ASSUME ControlType, HostType, CarrierInv, Next
    PROVE  CarrierInv'
<1> USE JobFacts DEF ControlType, HostType, CarrierInv, Began, Alive, Campaigns, Fault,
   Goto, At, AsIs, control, hosts, history
<1>1. CASE StartCampaign \/ Reset \/ Ready \/ NotReadyRaised \/ Interrupted
  BY <1>1 DEF StartCampaign, Reset, Ready, NotReadyRaised, Interrupted
<1>2. CASE Launch
  BY <1>2 DEF Launch
<1>3. CASE NotReady
  BY <1>3 DEF NotReady, Teardown
<1>4. CASE StopCarrier
  <2> USE <1>4 DEF StopCarrier, Teardown, Over
  <2>1. /\ camp \in 1 .. NCampaigns /\ camp' = camp + 1 /\ k' = 0
        /\ pc' = "idle" /\ carrier' = 0 /\ listed' = {}
    OBVIOUS
  <2>2. camp' \in Campaigns => k' <= JobsOf(camp')
    BY <2>1, JobFacts
  <2>3. \A c \in Campaigns : cloud'[c] \in {cloud[c], "gone"} /\ (c # camp => cloud'[c] = cloud[c])
    OBVIOUS
  <2>4. ASSUME NEW c \in Campaigns, Began(c)' PROVE c < camp'
    <3>1. CASE c = camp
      BY <2>1, <3>1
    <3>2. CASE c # camp
      BY <2>1, <2>3, <2>4, <3>2
    <3> QED
      BY <3>1, <3>2
  <2>5. ASSUME NEW c \in Campaigns, Alive(c)' PROVE c \in excused'
    BY <2>3, <2>5
  <2> QED
    BY <2>1, <2>2, <2>4, <2>5
<1>5. CASE ControlDies
  <2> USE <1>5 DEF ControlDies, Over
  <2>1. /\ camp \in 1 .. NCampaigns /\ camp' = camp + 1 /\ k' = 0
        /\ pc' = "idle" /\ carrier' = 0 /\ listed' = {}
    OBVIOUS
  <2>2. camp' \in Campaigns => k' <= JobsOf(camp')
    BY <2>1, JobFacts
  <2>3. UNCHANGED cloud
    OBVIOUS
  <2>4. ASSUME NEW c \in Campaigns, Began(c)' PROVE c < camp'
    BY <2>1, <2>3, <2>4, BeganBefore
  <2>5. ASSUME NEW c \in Campaigns, Alive(c)' PROVE c \in excused'
    BY <2>3, <2>5
  <2> QED
    BY <2>1, <2>2, <2>4, <2>5
<1>6. CASE Ask
  BY <1>6, AskedJob DEF Ask
<1>7. CASE SignalStop \/ TasksOver
  BY <1>7 DEF SignalStop, TasksOver
<1>8. CASE ReadResult \/ GiveUpAnswer \/ AnswerRaised
  BY <1>8 DEF ReadResult, Answered, GiveUpAnswer, AnswerRaised
<1>9. ASSUME NEW c \in Campaigns, Boot(c) PROVE CarrierInv'
  BY <1>9 DEF Boot
<1>10. ASSUME NEW c \in Campaigns, WriteReady(c) \/ NoStop(c) \/ List(c) \/ NextJob(c) PROVE
   CarrierInv'
  BY <1>10 DEF WriteReady, NoStop, List, NextJob
<1>11. ASSUME NEW c \in Campaigns, SeeStop(c) \/ IdleOut(c) \/ LoopDies(c) PROVE CarrierInv'
  BY <1>11 DEF SeeStop, IdleOut, LoopDies
<1>12. ASSUME NEW c \in Campaigns, Claim(c) \/ WriteResult(c) \/ GiveUpProbe(c) PROVE
   CarrierInv'
  BY <1>12 DEF Claim, WriteResult, Report, GiveUpProbe
<1>13. ASSUME NEW c \in Campaigns, NEW j \in Jobs, ProbeEnds(c, j) PROVE CarrierInv'
  BY <1>13 DEF ProbeEnds, ProbeEnds
<1>14. CASE UNCHANGED vars
  BY <1>14 DEF vars
<1> QED
  BY <1>1, <1>2, <1>3, <1>4, <1>5, <1>6, <1>7, <1>8, <1>9, <1>10, <1>11, <1>12, <1>13, <1>14
     DEF Next, Control, ControlFaults, Host, vars

\* What a step does to the loops.
LEMMA StepKinds ==
    ASSUME ControlType, CarrierInv, Next
    PROVE  \/ UNCHANGED <<loop, pending, job, gaveUp, probe>>
           \/ \E c \in Campaigns :
                 \/ \E how \in {"unborn", "stopped", "ended", "deleted"} :
                       /\ Stopped(c, how)
                       /\ how = "unborn" => loop[c] = "off"
                       /\ how = "stopped" => SeeStop(c)
                 \/ WriteReady(c) \/ NoStop(c) \/ List(c) \/ NextJob(c) \/ Claim(c)
                 \/ GiveUpProbe(c) \/ WriteResult(c) \/ \E j \in Jobs : ProbeEnds(c, j)
<1> USE DEF hosts, control
<1>1. CASE NotReady \/ StopCarrier
  <2>1. carrier # 0 => carrier \in Campaigns
    BY <1>1 DEF ControlType, CarrierInv, NotReady, StopCarrier
  <2> QED
    BY <1>1, <2>1 DEF NotReady, StopCarrier, Teardown
<1>2. CASE Control /\ ~NotReady /\ ~StopCarrier
  BY <1>2 DEF Control, StartCampaign, Reset, Launch, Ready, Ask, ReadResult, Answered,
     GiveUpAnswer, TasksOver, SignalStop
<1>3. CASE ControlFaults \/ UNCHANGED vars
  BY <1>3 DEF ControlFaults, NotReadyRaised, AnswerRaised, Answered, Interrupted, ControlDies,
     vars
<1>4. ASSUME NEW c \in Campaigns, Boot(c) PROVE UNCHANGED <<loop, pending, job, gaveUp, probe>>
  BY <1>4 DEF Boot
<1>5. ASSUME NEW c \in Campaigns, SeeStop(c) \/ IdleOut(c) \/ LoopDies(c)
      PROVE  \E how \in {"unborn", "stopped", "ended", "deleted"} :
                /\ Stopped(c, how)
                /\ how = "unborn" => loop[c] = "off"
                /\ how = "stopped" => SeeStop(c)
  BY <1>5 DEF SeeStop, IdleOut, LoopDies
<1> QED
  BY <1>1, <1>2, <1>3, <1>4, <1>5 DEF Next, Host

\* What was asked for stays asked for.
LEMMA AskedStays ==
    ASSUME ControlType, CarrierInv, Next, NEW j \in Jobs, Asked(j)
    PROVE  Asked(j)'
<1> USE JobFacts DEF Asked, control
<1>1. (camp' = camp /\ k' \in {k, k + 1}) \/ camp' = camp + 1
  <2>1. CASE Control
    BY <2>1 DEF Control, StartCampaign, Reset, Launch, Ready, NotReady, Ask, ReadResult,
       Answered, GiveUpAnswer, TasksOver, SignalStop, StopCarrier, Over
  <2>2. CASE ControlFaults \/ UNCHANGED vars
    BY <2>2 DEF ControlFaults, NotReadyRaised, AnswerRaised, Answered, Interrupted,
       ControlDies, Over, vars
  <2>3. ASSUME NEW c \in Campaigns, Host(c) \/ IdleOut(c) \/ LoopDies(c)
               \/ \E l \in Jobs : ProbeEnds(c, l)
        PROVE  UNCHANGED <<camp, k>>
    BY <2>3 DEF Host, Boot, WriteReady, SeeStop, NoStop, List, NextJob, Claim, GiveUpProbe,
       WriteResult, Report, IdleOut, LoopDies, ProbeEnds, AsIs
  <2> QED
    BY <2>1, <2>2, <2>3 DEF Next
<1> QED
  BY <1>1 DEF ControlType, Campaigns

\* LoopInv is kept by every step.
LEMMA LoopStep ==
    ASSUME ControlType, HostType, CarrierInv, LoopInv, OnceInv, Next
    PROVE  LoopInv'
<1> SUFFICES ASSUME NEW d \in Campaigns PROVE LoopAt(d)'
  BY DEF LoopInv
<1>a. LoopAt(d) /\ loop[d] \in Active \cup {"off", "unborn", "stopped", "ended", "deleted"}
  BY DEF LoopInv, HostType
<1> USE DEF LoopAt, hosts, control, At, To, AsIs
<1>1. CASE NotReady \/ StopCarrier
  <2>1. \/ UNCHANGED hosts
        \/ carrier \in Campaigns /\ Stopped(carrier, "deleted")
           /\ cloud' = [cloud EXCEPT ![carrier] = "gone"]
    BY <1>1 DEF ControlType, CarrierInv, NotReady, StopCarrier, Teardown
  <2> QED
    BY <1>a, <2>1 DEF Stopped, HostType, Active
<1>2. CASE Launch
  BY <1>a, <1>2 DEF Launch, HostType, CarrierInv, ControlType, Began
<1>3. CASE UNCHANGED hosts
  BY <1>a, <1>3
<1>4. ASSUME NEW c \in Campaigns, Boot(c) PROVE LoopAt(d)'
  BY <1>a, <1>4 DEF Boot, HostType
<1>5. ASSUME NEW c \in Campaigns, NEW how \in {"unborn", "stopped", "ended"}, Stopped(c, how),
             cloud[c] = "running", UNCHANGED cloud, how = "unborn" => loop[c] = "off"
      PROVE  LoopAt(d)'
  BY <1>a, <1>5 DEF Stopped, HostType
<1>6. ASSUME NEW c \in Campaigns, WriteReady(c) \/ NoStop(c) PROVE LoopAt(d)'
  BY <1>a, <1>6 DEF WriteReady, NoStop, HostType
<1>7. ASSUME NEW c \in Campaigns, List(c) PROVE LoopAt(d)'
  BY <1>a, <1>7 DEF List, HostType
<1>8. ASSUME NEW c \in Campaigns, NextJob(c) PROVE LoopAt(d)'
  <2>1. CASE pending[c] = {}
    BY <1>a, <1>8, <2>1 DEF NextJob, HostType
  <2>2. CASE pending[c] # {}
    <3>1. PICK j \in pending[c] :
             /\ pending' = [pending EXCEPT ![c] = @ \ {j}]
             /\ (UNCHANGED <<loop, job>>) \/ (To(c, "claim") /\ job' = [job EXCEPT ![c] = j])
      BY <1>8, <2>2 DEF NextJob
    <3>2. j \in Jobs /\ probe[c][j] = "none" /\ UNCHANGED <<cloud, probe>> /\ cloud[c] = "running"
      BY <1>8 DEF NextJob, HostType, OnceInv, OnceAt
    <3> QED
      BY <1>a, <1>8, <3>1, <3>2 DEF NextJob, HostType
  <2> QED
    BY <2>1, <2>2
<1>9. ASSUME NEW c \in Campaigns, Claim(c), Submit(c) /\ To(c, "run") /\ UNCHANGED <<pending,
                                                                                     job>>
      PROVE  LoopAt(d)'
  BY <1>a, <1>9 DEF Claim, Submit, HostType
<1>10. ASSUME NEW c \in Campaigns, Claim(c), To(c, "next") /\ UNCHANGED <<pending, job, probe>>
       PROVE  LoopAt(d)'
  BY <1>a, <1>10 DEF Claim, HostType
<1>11. ASSUME NEW c \in Campaigns, GiveUpProbe(c) \/ WriteResult(c) PROVE LoopAt(d)'
  BY <1>a, <1>11 DEF GiveUpProbe, WriteResult, Report, HostType
<1>12. ASSUME NEW c \in Campaigns, NEW j \in Jobs, ProbeEnds(c, j) PROVE LoopAt(d)'
  BY <1>a, <1>12 DEF ProbeEnds, HostType, Terminal
<1>13. ASSUME NEW c \in Campaigns, SeeStop(c) \/ IdleOut(c) \/ LoopDies(c) \/ Claim(c)
              PROVE LoopAt(d)'
  BY <1>5, <1>9, <1>10, <1>13 DEF SeeStop, IdleOut, LoopDies, Claim
<1>14. CASE Control /\ ~NotReady /\ ~StopCarrier /\ ~Launch
  BY <1>3, <1>14 DEF Control, StartCampaign, Reset, Ready, Ask, ReadResult, Answered,
     GiveUpAnswer, TasksOver, SignalStop
<1>15. CASE ControlFaults \/ UNCHANGED vars
  BY <1>3, <1>15 DEF ControlFaults, NotReadyRaised, AnswerRaised, Answered, Interrupted,
     ControlDies, vars
<1> QED
  BY <1>1, <1>2, <1>4, <1>6, <1>7, <1>8, <1>11, <1>12, <1>13, <1>14, <1>15 DEF Next, Host

\* OnceInv is kept by every step.
LEMMA OnceStep ==
    ASSUME ControlType, HostType, CarrierInv, LoopInv, OnceInv, StoreInv, HandledInv, Next
    PROVE  OnceInv'
<1> SUFFICES ASSUME NEW d \in Campaigns, NEW l \in Jobs PROVE OnceAt(d, l)'
  BY DEF OnceInv
<1>a. OnceAt(d, l) /\ (Asked(l) => Asked(l)')
  BY AskedStays DEF OnceInv
<1> USE DEF OnceAt, At, To
<1>1. CASE UNCHANGED <<loop, pending, job, gaveUp, probe>>
  BY <1>a, <1>1
<1>2. ASSUME NEW c \in Campaigns, NEW how \in {"unborn", "stopped", "ended", "deleted"},
             Stopped(c, how)
      PROVE  OnceAt(d, l)'
  BY <1>a, <1>2 DEF Stopped, HostType
<1>3. ASSUME NEW c \in Campaigns, WriteReady(c) \/ NoStop(c) PROVE OnceAt(d, l)'
  BY <1>a, <1>3 DEF WriteReady, NoStop, HostType
<1>4. ASSUME NEW c \in Campaigns, List(c) PROVE OnceAt(d, l)'
  <2>1. CASE c = d /\ l \in pending'[d]
    <3>1. Has(d, "spec", l) /\ \A st \in Terminal : ~Has(d, st, l)
      BY <1>4, <2>1 DEF List, PendingJobs, HostType
    <3>2. Prefix(d) = Prefix(l[1]) /\ Asked(l)
      BY <3>1 DEF Has, Key, StoreInv, StoreAt
    <3>3. d <= l[1]
      BY <1>4, <2>1, <3>1 DEF Has, Key, StoreInv, StoreAt, List, Began
    <3>4. probe[d][l] = "none"
      BY <1>4, <2>1, <3>1 DEF HandledInv, HandledAt, List, Active
    <3> QED
      BY <1>a, <1>4, <2>1, <3>2, <3>3, <3>4 DEF List, HostType
  <2>2. CASE ~(c = d /\ l \in pending'[d])
    BY <1>a, <1>4, <2>2 DEF List, HostType
  <2> QED
    BY <2>1, <2>2
<1>5. ASSUME NEW c \in Campaigns, NextJob(c) PROVE OnceAt(d, l)'
  <2>1. CASE pending[c] = {}
    BY <1>a, <1>5, <2>1 DEF NextJob, HostType
  <2>2. CASE pending[c] # {}
    <3>1. PICK j \in pending[c] :
             /\ pending' = [pending EXCEPT ![c] = @ \ {j}]
             /\ (UNCHANGED <<loop, job>>) \/ (To(c, "claim") /\ job' = [job EXCEPT ![c] = j])
      BY <1>5, <2>2 DEF NextJob
    <3>2. UNCHANGED <<probe, gaveUp>> /\ loop[c] = "next"
      BY <1>5 DEF NextJob
    <3> QED
      BY <1>a, <3>1, <3>2 DEF HostType
  <2> QED
    BY <2>1, <2>2
<1>6. ASSUME NEW c \in Campaigns, Claim(c) PROVE OnceAt(d, l)'
  <2>1. loop[c] = "claim" /\ job[c] \in Jobs /\ job[c] \notin pending[c]
    BY <1>6 DEF Claim, LoopInv, LoopAt
  <2>2. CASE Stopped(c, "ended")
    BY <2>2, <1>2
  <2>3. CASE Submit(c) /\ To(c, "run") /\ UNCHANGED <<pending, job, gaveUp>>
    BY <1>a, <2>1, <2>3 DEF Submit, HostType
  <2>4. CASE To(c, "next") /\ UNCHANGED <<pending, job, gaveUp, probe>>
    BY <1>a, <2>1, <2>4 DEF HostType
  <2> QED
    BY <1>6, <2>2, <2>3, <2>4 DEF Claim
<1>7. ASSUME NEW c \in Campaigns, GiveUpProbe(c) \/ WriteResult(c) PROVE OnceAt(d, l)'
  BY <1>a, <1>7 DEF GiveUpProbe, WriteResult, Report, HostType, Terminal
<1>8. ASSUME NEW c \in Campaigns, NEW j \in Jobs, ProbeEnds(c, j) PROVE OnceAt(d, l)'
  BY <1>a, <1>8 DEF ProbeEnds, HostType, Terminal
<1> QED
  BY <1>1, <1>2, <1>3, <1>4, <1>5, <1>6, <1>7, <1>8, StepKinds

\* An instance probes a job when it claims it, and once; what ended well stays so.
LEMMA ProbeEffect ==
    ASSUME ControlType, HostType, CarrierInv, LoopInv, Next, NEW d \in Campaigns, NEW l \in Jobs
    PROVE  /\ probe[d][l] # "none" => probe'[d][l] # "none"
           /\ probe[d][l] = "completed" => probe'[d][l] = "completed"
           /\ probe[d][l] = "none" /\ probe'[d][l] # "none" => Claim(d) /\ Submit(d) /\ job[d] = l
<1>1. ASSUME NEW c \in Campaigns, NEW how, Stopped(c, how)
      PROVE  probe'[d][l] = probe[d][l] \/ (probe[d][l] = "running" /\ probe'[d][l] = "failed")
  BY <1>1 DEF Stopped, HostType
<1>2. ASSUME NEW c \in Campaigns, Claim(c)
      PROVE  \/ probe'[d][l] = probe[d][l] \/ (probe[d][l] = "running" /\ probe'[d][l] = "failed")
             \/ d = c /\ Submit(c) /\ job[c] = l /\ probe[c][l] = "none" /\ probe'[c][l] = "running"
  <2>1. job[c] \in Jobs /\ probe[c][job[c]] = "none"
    BY <1>2 DEF Claim, At, LoopInv, LoopAt
  <2>2. CASE Submit(c)
    BY <2>1, <2>2 DEF Submit, HostType
  <2> QED
    BY <1>1, <1>2, <2>2 DEF Claim
<1>3. ASSUME NEW c \in Campaigns, NEW j \in Jobs, ProbeEnds(c, j)
      PROVE  probe'[d][l] = probe[d][l] \/ (probe[d][l] = "running" /\ probe'[d][l] # "none")
  BY <1>3 DEF ProbeEnds, HostType, Terminal
<1>4. ASSUME NEW c \in Campaigns, WriteReady(c) \/ NoStop(c) \/ List(c) \/ NextJob(c)
             \/ GiveUpProbe(c)
                                  \/ WriteResult(c)
      PROVE  UNCHANGED probe
  BY <1>4 DEF WriteReady, NoStop, List, NextJob, GiveUpProbe, WriteResult, Report
<1> QED
  BY <1>1, <1>2, <1>3, <1>4, StepKinds

\* Who writes to the store.
LEMMA StoreEffect ==
    ASSUME Next
    PROVE  \/ UNCHANGED store
           \/ Reset \/ Ask \/ SignalStop
           \/ \E c \in Campaigns : WriteReady(c) \/ Claim(c) \/ GiveUpProbe(c) \/ WriteResult(c)
<1>1. CASE Control
  BY <1>1 DEF Control, StartCampaign, Launch, Ready, NotReady, ReadResult, Answered,
     GiveUpAnswer, TasksOver, StopCarrier
<1>2. CASE ControlFaults \/ UNCHANGED vars
  BY <1>2 DEF ControlFaults, NotReadyRaised, AnswerRaised, Answered, Interrupted, ControlDies,
     vars
<1>3. ASSUME NEW c \in Campaigns, Boot(c) \/ SeeStop(c) \/ NoStop(c) \/ List(c) \/ NextJob(c)
             \/ IdleOut(c)
                                  \/ LoopDies(c) \/ \E j \in Jobs : ProbeEnds(c, j)
      PROVE  UNCHANGED store
  BY <1>3 DEF Boot, SeeStop, NoStop, List, NextJob, IdleOut, LoopDies, ProbeEnds
<1> QED
  BY <1>1, <1>2, <1>3 DEF Next, Host

\* What becomes of the instances: one is launched by its campaign, one is deleted by its
\* campaign, one boots.
LEMMA CloudEffect ==
    ASSUME ControlType, HostType, CarrierInv, Next, NEW e \in Campaigns
    PROVE  /\ Began(e)' => Began(e) \/ (Launch /\ e = camp)
           /\ e < camp => (Alive(e) <=> Alive(e)')
           /\ e > camp => ~Began(e)'
<1> USE DEF Began, Alive
<1>0. ~(e < camp) => e = camp \/ e > camp
  BY DEF ControlType, Campaigns
<1>1. CASE UNCHANGED cloud
  BY <1>1, <1>0 DEF CarrierInv, ControlType, Campaigns
<1>2. CASE NotReady \/ StopCarrier
  <2>1. \/ UNCHANGED cloud
        \/ camp \in Campaigns /\ Began(camp) /\ cloud' = [cloud EXCEPT ![camp] = "gone"]
    BY <1>2 DEF ControlType, CarrierInv, NotReady, StopCarrier, Teardown
  <2>2. CASE camp \in Campaigns /\ Began(camp) /\ cloud' = [cloud EXCEPT ![camp] = "gone"]
    BY <2>2, <1>0 DEF CarrierInv, ControlType, Campaigns, HostType
  <2> QED
    BY <2>1, <2>2, <1>1
<1>3. CASE Launch
  <2>1. camp \in Campaigns /\ (UNCHANGED cloud \/ cloud' = [cloud EXCEPT ![camp] = "booting"])
    BY <1>3 DEF Launch, CarrierInv
  <2> QED
    BY <1>3, <2>1, <1>0 DEF CarrierInv, ControlType, Campaigns, HostType
<1>4. ASSUME NEW c \in Campaigns, Boot(c)
      PROVE  /\ Began(e)' => Began(e)
             /\ e < camp => (Alive(e) <=> Alive(e)')
             /\ e > camp => ~Began(e)'
  BY <1>4, <1>0 DEF Boot, CarrierInv, ControlType, Campaigns, HostType
<1>5. CASE Control /\ ~NotReady /\ ~StopCarrier /\ ~Launch
  <2>1. UNCHANGED cloud
    BY <1>5 DEF Control, StartCampaign, Reset, Ready, Ask, ReadResult, Answered, GiveUpAnswer,
       TasksOver, SignalStop, hosts
  <2> QED
    BY <1>1, <2>1
<1>6. CASE ControlFaults \/ UNCHANGED vars
  <2>1. UNCHANGED cloud
    BY <1>6 DEF ControlFaults, NotReadyRaised, AnswerRaised, Answered, Interrupted,
       ControlDies, vars, hosts
  <2> QED
    BY <1>1, <2>1
<1>7. ASSUME NEW c \in Campaigns, WriteReady(c) \/ SeeStop(c) \/ NoStop(c) \/ List(c)
             \/ NextJob(c) \/ Claim(c)
             \/ GiveUpProbe(c) \/ WriteResult(c) \/ IdleOut(c) \/ LoopDies(c)
                \/ \E j \in Jobs : ProbeEnds(c, j)
      PROVE  UNCHANGED cloud
  BY <1>7 DEF WriteReady, SeeStop, NoStop, List, NextJob, Claim, GiveUpProbe, WriteResult,
     Report, IdleOut, LoopDies, ProbeEnds, AsIs
<1> QED
  BY <1>1, <1>2, <1>3, <1>4, <1>5, <1>6, <1>7 DEF Next, Host

\* A campaign that has begun, or is over, is haunted or not once and for all.
LEMMA HauntedStays ==
    ASSUME ControlType, HostType, CarrierInv, Next, NEW c \in Campaigns, c <= camp
    PROVE  Haunted(c)' <=> Haunted(c)
<1>1. \A e \in 1 .. c - 1 : e \in Campaigns /\ e < camp
  BY DEF Campaigns, ControlType
<1>2. \A e \in 1 .. c - 1 : Alive(e) <=> Alive(e)'
  BY <1>1, CloudEffect
<1> QED
  BY <1>2 DEF Haunted

\* An instance that is at work on the prefix of a campaign is its own or haunts it.
LEMMA WhoElse ==
    ASSUME ControlType, HostType, CarrierInv, NEW c \in Campaigns, cloud[c] = "running",
           Prefix(c) = Prefix(camp), camp \in Campaigns
    PROVE  (c = camp /\ pc \notin {"idle", "reset"}) \/ Haunted(camp)
BY DEF ControlType, CarrierInv, Campaigns, Haunted, Alive, Began

\* The object a report leaves behind.
Reported(c, st) ==
    store' = {o \in store : ~(o[3] = job[c] /\ o[2] \in Terminal)}
             \cup {<<Prefix(c), st, job[c]>>}

\* A loop's report is one terminal object of its job, and it says completed only of a
\* probe that was.
LEMMA ReportEffect ==
    ASSUME NEW c \in Campaigns, GiveUpProbe(c) \/ WriteResult(c)
    PROVE  \E st \in Terminal : /\ Reported(c, st)
                                /\ st = "completed" => probe[c][job[c]] = "completed"
<1>1. CASE GiveUpProbe(c)
  <2>1. Reported(c, "failed") /\ "failed" \in Terminal
    BY <1>1 DEF GiveUpProbe, Report, Reported, Key, Terminal
  <2> QED
    BY <2>1
<1>2. CASE WriteResult(c)
  BY <1>2 DEF WriteResult, Report, Reported, Key
<1> QED
  BY <1>1, <1>2

\* StoreInv is kept by every step.
LEMMA StoreStep ==
    ASSUME ControlType, HostType, StoreType, CarrierInv, LoopInv, OnceInv, StoreInv, MarkerInv, Next
    PROVE  StoreInv'
<1> SUFFICES ASSUME NEW o \in store' PROVE StoreAt(o)'
  BY DEF StoreInv
<1>1. CASE o \in store
  <2> USE <1>1 DEF StoreInv, StoreAt
  <2>1. o[3] \in Jobs => o[1] = Prefix(o[3][1]) /\ Asked(o[3])'
    BY AskedStays
  <2>2. o[2] \in {"spec", "claim"} \cup Terminal => o[3] \in Jobs
    OBVIOUS
  <2>3. ASSUME o[2] = "spec", NEW c \in Campaigns, Began(c)', o[1] = Prefix(c) PROVE c <= o[3][1]
    <3>1. CASE Began(c)
      BY <2>3, <3>1
    <3>2. CASE Launch /\ c = camp
      BY <2>3, <3>2 DEF Launch, MarkerInv, MarkerAt
    <3> QED
      BY <2>3, <3>1, <3>2, CloudEffect
  <2>4. o[2] = "completed" => \E c \in Campaigns : probe'[c][o[3]] = "completed"
    BY ProbeEffect DEF Terminal
  <2> QED
    BY <2>1, <2>2, <2>3, <2>4
<1>2. CASE o \notin store
  <2> USE <1>2 DEF StoreAt, Key
  <2>1. CASE Reset
    BY <2>1 DEF Reset
  <2>2. CASE Ask
    <3>1. o = <<Prefix(camp), "spec", <<camp, k + 1>>>> /\ UNCHANGED cloud /\ camp' = camp
          /\ k' = k + 1
      BY <2>2 DEF Ask, hosts
    <3>2. PICK j \in Jobs : j = <<camp, k + 1>>
      BY <2>2, AskedJob
    <3>4. Asked(j)' /\ j[1] = camp /\ o = <<Prefix(camp), "spec", j>>
      BY <3>1, <3>2 DEF Asked
    <3>3. \A c \in Campaigns : Began(c)' => c <= camp
      BY <3>1, BeganBefore DEF Began, ControlType, Campaigns
    <3> QED
      BY <3>1, <3>2, <3>3, <3>4 DEF Terminal
  <2>3. CASE SignalStop
    BY <2>3, JobFacts DEF SignalStop, Terminal
  <2>4. ASSUME NEW c \in Campaigns, WriteReady(c) PROVE StoreAt(o)'
    BY <2>4, JobFacts DEF WriteReady, Terminal
  <2>5. ASSUME NEW c \in Campaigns, Claim(c) PROVE StoreAt(o)'
    <3>1. PICK j \in Jobs : loop[c] = "claim" /\ job[c] = j /\ o = <<Prefix(c), "claim", j>>
      BY <2>5 DEF Claim, At, LoopInv, LoopAt
    <3>2. Prefix(c) = Prefix(j[1]) /\ Asked(j)'
      BY <3>1, AskedStays DEF OnceInv, OnceAt
    <3> QED
      BY <3>1, <3>2 DEF Terminal
  <2>6. ASSUME NEW c \in Campaigns, GiveUpProbe(c) \/ WriteResult(c) PROVE StoreAt(o)'
    <3>1. PICK j \in Jobs : j = job[c] /\ probe[c][j] # "none"
      BY <2>6 DEF GiveUpProbe, WriteResult, At, LoopInv, LoopAt
    <3>2. Prefix(c) = Prefix(j[1]) /\ Asked(j)'
      BY <3>1, AskedStays DEF OnceInv, OnceAt
    <3>3. PICK st \in Terminal : Reported(c, st) /\ (st = "completed" => probe[c][j] = "completed")
      BY <2>6, <3>1, ReportEffect
    <3>4. o = <<Prefix(c), st, j>> /\ UNCHANGED probe
      BY <2>6, <3>1, <3>3 DEF Reported, GiveUpProbe, WriteResult, Report
    <3> QED
      BY <3>1, <3>2, <3>3, <3>4 DEF Terminal
  <2> QED
    BY <2>1, <2>2, <2>3, <2>4, <2>5, <2>6, StoreEffect
<1> QED
  BY <1>1, <1>2

\* A job that was run and is reported stays reported as long as its spec is there: a reset
\* takes the spec before the result.
LEMMA ReportStays ==
    ASSUME ControlType, HostType, StoreType, CarrierInv, LoopInv, OnceInv, StoreInv, MarkerInv,
           Next,
           NEW d \in Campaigns, NEW l \in Jobs, probe[d][l] # "none", Has(d, "spec", l)'
    PROVE  /\ Has(d, "spec", l)
           /\ (\E st \in Terminal : Has(d, st, l)) => (\E st \in Terminal : Has(d, st, l)')
<1> USE DEF Has, Key
<1>1. Asked(l) /\ Prefix(d) = Prefix(l[1])
  BY DEF OnceInv, OnceAt
<1>2. CASE Reset
  <2>1. PICK o \in listed : store' = store \ {o} /\ \A q \in listed \ {o} : ListedBefore(o, q)
    BY <1>2 DEF Reset
  <2>2. Has(d, "spec", l)
    BY <2>1
  <2>3. ASSUME NEW st \in Terminal, Has(d, st, l), ~Has(d, st, l)' PROVE FALSE
    <3> DEFINE q == <<Prefix(d), "spec", l>>
    <3>1. o = <<Prefix(d), st, l>> /\ Prefix(d) = Prefix(camp)
      BY <2>1, <2>3 DEF MarkerInv
    <3>2. q \in listed \ {o}
      BY <1>2, <2>1, <2>2, <3>1 DEF MarkerInv, MarkerAt, Reset, CarrierInv, Terminal
    <3>3. ListedBefore(o, q)
      BY <2>1, <3>2
    <3> QED
      BY <3>1, <3>3 DEF ListedBefore, Rank, Terminal
  <2> QED
    BY <2>2, <2>3
<1>3. CASE Ask
  <2>1. l # <<camp, k + 1>>
    BY <1>1 DEF Asked, ControlType
  <2>2. store \subseteq store'
        /\ store' \subseteq store \cup {<<Prefix(camp), "spec", <<camp, k + 1>>>>}
    BY <1>3 DEF Ask
  <2> QED
    BY <2>1, <2>2
<1>4. CASE SignalStop \/ UNCHANGED store
  BY <1>4 DEF SignalStop
<1>5. ASSUME NEW c \in Campaigns, WriteReady(c) \/ Claim(c)
      PROVE  /\ Has(d, "spec", l)
             /\ (\E st \in Terminal : Has(d, st, l)) => (\E st \in Terminal : Has(d, st, l)')
  BY <1>5 DEF WriteReady, Claim
<1>6. ASSUME NEW c \in Campaigns, GiveUpProbe(c) \/ WriteResult(c)
      PROVE  /\ Has(d, "spec", l)
             /\ (\E st \in Terminal : Has(d, st, l)) => (\E st \in Terminal : Has(d, st, l)')
  <2>1. PICK st \in Terminal : store' = {o \in store : ~(o[3] = job[c] /\ o[2] \in Terminal)}
                                           \cup {<<Prefix(c), st, job[c]>>}
    BY <1>6, ReportEffect DEF Reported
  <2>2. Has(d, "spec", l)
    BY <2>1 DEF Terminal
  <2>3. CASE job[c] = l
    <3>1. probe[c][l] # "none"
      BY <1>6, <2>3 DEF GiveUpProbe, WriteResult, At, LoopInv, LoopAt
    <3>2. Prefix(c) = Prefix(d)
      BY <1>1, <3>1 DEF OnceInv, OnceAt
    <3> QED
      BY <2>1, <2>2, <2>3, <3>2
  <2>4. CASE job[c] # l
    BY <2>1, <2>2, <2>4
  <2> QED
    BY <2>3, <2>4
<1> QED
  BY <1>2, <1>3, <1>4, <1>5, <1>6, StoreEffect

\* HandledInv is kept by every step.
LEMMA HandledStep ==
    ASSUME ControlType, HostType, StoreType, CarrierInv, LoopInv, OnceInv, StoreInv, HandledInv,
           MarkerInv,
           Next
    PROVE  HandledInv'
<1> SUFFICES ASSUME NEW d \in Campaigns, NEW l \in Jobs,
                    Has(d, "spec", l)', loop'[d] \in Active, probe'[d][l] # "none"
             PROVE  \/ loop'[d] = "run" /\ job'[d] = l
                    \/ \E st \in Terminal : Has(d, st, l)'
  BY DEF HandledInv, HandledAt
<1>1. CASE probe[d][l] = "none"
  <2>1. Claim(d) /\ Submit(d) /\ job[d] = l
    BY <1>1, ProbeEffect
  <2>2. probe'[d][l] = "running"
    BY <2>1 DEF Submit, HostType
  <2>3. ~Stopped(d, "ended")
    BY <1>1, <2>2 DEF Stopped, HostType
  <2>4. probe' # probe
    BY <1>1
  <2>5. To(d, "run") /\ UNCHANGED job
    BY <2>1, <2>3, <2>4 DEF Claim
  <2> QED
    BY <2>1, <2>5 DEF To, HostType
<1>2. CASE probe[d][l] # "none" /\ \E st \in Terminal : Has(d, st, l)
  BY <1>2, ReportStays
<1>3. CASE probe[d][l] # "none" /\ ~\E st \in Terminal : Has(d, st, l)
  <2>1. loop[d] \in Active => loop[d] = "run" /\ job[d] = l
    BY <1>3, ReportStays DEF HandledInv, HandledAt
  <2>2. CASE UNCHANGED <<loop, job>>
    BY <2>1, <2>2
  <2>3. ASSUME NEW c \in Campaigns, NEW how \in {"unborn", "stopped", "ended", "deleted"},
               Stopped(c, how)
        PROVE  loop'[d] = "run" /\ job'[d] = l
    BY <2>1, <2>3 DEF Stopped, HostType, Active
  <2>4. ASSUME NEW c \in Campaigns, WriteReady(c) PROVE loop'[d] = "run" /\ job'[d] = l
    BY <2>1, <2>4, <1>3 DEF WriteReady, At, To, HostType, LoopInv, LoopAt
  <2>5. ASSUME NEW c \in Campaigns, NoStop(c) \/ List(c) \/ NextJob(c) \/ Claim(c)
        PROVE  loop'[d] = "run" /\ job'[d] = l
    <3>1. c # d
      BY <2>1, <2>5 DEF NoStop, List, NextJob, Claim, At, Active
    <3>2. loop'[d] = loop[d] /\ job'[d] = job[d]
      BY <2>5, <3>1 DEF NoStop, List, NextJob, Claim, Stopped, To, HostType
    <3> QED
      BY <2>1, <3>2
  <2>6. ASSUME NEW c \in Campaigns, GiveUpProbe(c) \/ WriteResult(c)
        PROVE  \/ loop'[d] = "run" /\ job'[d] = l
               \/ \E st \in Terminal : Has(d, st, l)'
    <3>1. PICK st \in Terminal : Reported(c, st)
      BY <2>6, ReportEffect
    <3>2. CASE c = d
      BY <2>1, <2>6, <3>1, <3>2 DEF Reported, Has, Key, GiveUpProbe, WriteResult, At, Active
    <3>3. CASE c # d
      BY <2>1, <2>6, <3>3 DEF GiveUpProbe, WriteResult, Report, To, HostType
    <3> QED
      BY <3>2, <3>3
  <2>7. ASSUME NEW c \in Campaigns, NEW j \in Jobs, ProbeEnds(c, j) PROVE loop'[d] = "run"
               /\ job'[d] = l
    BY <2>1, <2>7 DEF ProbeEnds
  <2> QED
    BY <2>2, <2>3, <2>4, <2>5, <2>6, <2>7, StepKinds
<1> QED
  BY <1>1, <1>2, <1>3

\* What a step does to the control plane.
LEMMA ControlEffect ==
    ASSUME Next
    PROVE  \/ camp' = camp /\ UNCHANGED <<pc, listed>>
           \/ camp' = camp /\ (StartCampaign \/ Reset \/ Launch \/ Ready \/ SignalStop)
           \/ camp' = camp /\ UNCHANGED listed /\ pc \in {"reset", "boot", "task", "answer"}
              /\ pc' = "stop"
           \/ camp' = camp /\ UNCHANGED listed /\ {pc, pc'} \subseteq {"task", "answer"}
           \/ camp' = camp + 1 /\ pc' = "idle" /\ listed' = {}
<1> USE DEF control, Goto
<1>1. CASE Control
  BY <1>1 DEF Control, StartCampaign, Reset, Launch, Ready, NotReady, Ask, ReadResult,
     Answered, GiveUpAnswer, TasksOver, SignalStop, StopCarrier, Over
<1>2. CASE ControlFaults \/ UNCHANGED vars
  BY <1>2 DEF ControlFaults, NotReadyRaised, AnswerRaised, Answered, Interrupted, ControlDies,
     Over, vars
<1>3. ASSUME NEW c \in Campaigns,
             Host(c) \/ IdleOut(c) \/ LoopDies(c) \/ \E j \in Jobs : ProbeEnds(c, j)
      PROVE  UNCHANGED <<camp, pc, listed>>
  BY <1>3 DEF Host, Boot, WriteReady, SeeStop, NoStop, List, NextJob, Claim, GiveUpProbe,
     WriteResult, Report, IdleOut, LoopDies, ProbeEnds, AsIs
<1> QED
  BY <1>1, <1>2, <1>3 DEF Next

\* Who writes which object.
LEMMA NewObject ==
    ASSUME Next, NEW o \in store', o \notin store
    PROVE  \/ Ask /\ o[2] = "spec"
           \/ SignalStop /\ o[2] = "stop"
           \/ \E c \in Campaigns : /\ cloud[c] = "running" /\ o[1] = Prefix(c)
                                      /\ o[2] \notin {"spec", "stop"}
                                   /\ o[2] = "ready" => WriteReady(c)
<1> USE DEF Key, At
<1>1. CASE Ask
  BY <1>1 DEF Ask
<1>2. CASE SignalStop
  BY <1>2 DEF SignalStop
<1>3. ASSUME NEW c \in Campaigns, WriteReady(c)
      PROVE  cloud[c] = "running" /\ o[1] = Prefix(c) /\ o[2] = "ready"
  BY <1>3 DEF WriteReady
<1>4. ASSUME NEW c \in Campaigns, Claim(c)
      PROVE  cloud[c] = "running" /\ o[1] = Prefix(c) /\ o[2] = "claim"
  BY <1>4 DEF Claim
<1>5. ASSUME NEW c \in Campaigns, GiveUpProbe(c) \/ WriteResult(c)
      PROVE  cloud[c] = "running" /\ o[1] = Prefix(c) /\ o[2] \in {"completed", "failed"}
  BY <1>5, ReportEffect DEF Reported, GiveUpProbe, WriteResult, Terminal
<1>6. CASE Reset \/ UNCHANGED store
  BY <1>6 DEF Reset
<1> QED
  BY <1>1, <1>2, <1>3, <1>4, <1>5, <1>6, StoreEffect

\* A loop that has started does not become one that never did.
LEMMA LoopMoves ==
    ASSUME ControlType, HostType, CarrierInv, Next, NEW c \in Campaigns
    PROVE  /\ loop[c] \notin {"off", "unborn"} => loop'[c] \notin {"off", "unborn"}
           /\ loop'[c] = "stopped" => loop[c] = "stopped" \/ SeeStop(c)
           /\ loop'[c] = "unborn" => loop[c] \in {"off", "unborn"}
<1> USE DEF HostType, At, To
<1>1. CASE UNCHANGED <<loop, pending, job, gaveUp, probe>>
  BY <1>1
<1>2. ASSUME NEW d \in Campaigns, NEW how \in {"unborn", "stopped", "ended", "deleted"},
             Stopped(d, how),
             how = "unborn" => loop[d] = "off", how = "stopped" => SeeStop(d)
      PROVE  /\ loop[c] \notin {"off", "unborn"} => loop'[c] \notin {"off", "unborn"}
             /\ loop'[c] = "stopped" => loop[c] = "stopped" \/ SeeStop(c)
  BY <1>2 DEF Stopped
<1>3. ASSUME NEW d \in Campaigns,
             \/ WriteReady(d) \/ NoStop(d) \/ List(d) \/ NextJob(d) \/ GiveUpProbe(d)
                \/ WriteResult(d)
             \/ \E j \in Jobs : ProbeEnds(d, j)
      PROVE  loop'[c] \in {loop[c], "poll", "list", "next", "claim"}
  BY <1>3 DEF WriteReady, NoStop, List, NextJob, GiveUpProbe, WriteResult, Report, ProbeEnds
<1>4. ASSUME NEW d \in Campaigns, Claim(d) PROVE loop'[c] \in {loop[c], "next", "run", "ended"}
  BY <1>4 DEF Claim, Stopped
<1> QED
  BY <1>1, <1>2, <1>3, <1>4, StepKinds

\* MarkerInv is kept by every step.
LEMMA MarkerStep ==
    ASSUME ControlType, HostType, StoreType, CarrierInv, LoopInv, MarkerInv, Next
    PROVE  MarkerInv'
<1>a. pc # "idle" => camp \in Campaigns
  BY DEF CarrierInv
<1>b. camp' = camp \/ camp' = camp + 1
  BY ControlEffect
<1>1. ASSUME NEW c \in Campaigns, c = camp' PROVE MarkerAt(c)'
  <2>1. CASE c # camp
    <3>1. pc' = "idle" /\ c > camp
      BY <1>1, <1>b, <2>1, ControlEffect DEF ControlType, Campaigns
    <3>2. ~Began(c)'
      BY <3>1, CloudEffect
    <3> QED
      BY <3>1, <3>2 DEF MarkerAt
  <2>2. CASE c = camp
    <3>1. MarkerAt(c) /\ (Haunted(c)' <=> Haunted(c)) /\ (Began(c)' => Began(c) \/ Launch)
      BY <2>2, HauntedStays, CloudEffect DEF MarkerInv, ControlType
    <3>2. ASSUME NEW o \in store', o \notin store, o[1] = Prefix(c)
          PROVE  \/ Ask /\ o[2] = "spec"
                 \/ SignalStop /\ o[2] = "stop"
                 \/ Haunted(c) /\ o[2] \notin {"spec", "stop"}
                 \/ o[2] = "ready" /\ WriteReady(c) /\ pc \notin {"idle", "reset"}
                 \/ o[2] \notin {"spec", "stop", "ready"} /\ pc \notin {"idle", "reset"}
      BY <2>2, <3>2, NewObject, WhoElse
    <3>3. ASSUME pc' = "reset", NEW o \in store', o[1] = Prefix(c), o[2] \in {"spec", "stop"}
                 \/ ~Haunted(c)
          PROVE  o \in listed'
      <4>1. CASE StartCampaign
        BY <2>2, <3>3, <4>1 DEF StartCampaign, Goto
      <4>2. CASE Reset
        BY <2>2, <3>1, <3>3, <4>2 DEF Reset, MarkerAt
      <4>3. CASE pc = "reset" /\ UNCHANGED listed
        BY <3>1, <3>2, <3>3, <4>3 DEF MarkerAt, Ask, SignalStop
      <4> QED
        BY <3>3, <4>1, <4>2, <4>3, ControlEffect DEF Launch, Ready, SignalStop, Goto
    <3>4. ASSUME pc' # "kill", Began(c)' PROVE ~Has(c, "stop", NoJob)'
      <4> DEFINE o == <<Prefix(c), "stop", NoJob>>
      <4>1. CASE o \in store' /\ o \notin store
        BY <3>2, <3>4, <4>1 DEF SignalStop, Goto
      <4>2. CASE o \in store /\ Began(c)
        <5>1. pc = "kill"
          BY <3>1, <4>2 DEF MarkerAt, Has, Key
        <5> QED
          BY <1>1, <2>2, <3>4, <5>1, ControlEffect DEF StartCampaign, Reset, Launch, Ready,
             SignalStop, ControlType
      <4>3. CASE o \in store /\ Launch
        BY <3>1, <4>3 DEF MarkerAt, Launch
      <4> QED
        BY <3>1, <3>4, <4>1, <4>2, <4>3 DEF Has, Key
    <3>5. ASSUME Began(c)', ~Haunted(c), Has(c, "ready", NoJob)'
                 PROVE loop'[c] \notin {"off", "unborn"}
      <4> DEFINE o == <<Prefix(c), "ready", NoJob>>
      <4>1. CASE o \in store' /\ o \notin store
        BY <3>2, <3>5, <4>1 DEF WriteReady, To, HostType
      <4>2. CASE o \in store /\ Began(c)
        BY <3>1, <3>5, <4>2, LoopMoves DEF MarkerAt, Has, Key
      <4>3. CASE o \in store /\ Launch
        BY <3>1, <3>5, <4>3 DEF MarkerAt, Launch
      <4> QED
        BY <3>1, <3>5, <4>1, <4>2, <4>3 DEF Has, Key
    <3>6. ASSUME pc' \in {"task", "answer"}, ~Haunted(c) PROVE loop'[c] \notin {"off", "unborn"}
      <4>1. CASE pc \in {"task", "answer"}
        BY <3>1, <3>6, <4>1, LoopMoves DEF MarkerAt
      <4>2. CASE Ready
        BY <2>2, <3>1, <3>6, <4>2, LoopMoves DEF MarkerAt, Ready, CarrierInv
      <4> QED
        BY <1>1, <2>2, <3>6, <4>1, <4>2, ControlEffect DEF StartCampaign, Reset, Launch,
           SignalStop, Goto, ControlType
    <3> QED
      BY <3>1, <3>3, <3>4, <3>5, <3>6 DEF MarkerAt
  <2> QED
    BY <2>1, <2>2
<1>2. \A o \in listed' : o[1] = Prefix(camp')
  <2>1. CASE StartCampaign
    BY <2>1 DEF StartCampaign, CarrierInv
  <2>2. CASE Reset
    BY <2>2 DEF Reset, MarkerInv
  <2>3. CASE camp' = camp /\ UNCHANGED listed
    BY <2>3 DEF MarkerInv
  <2> QED
    BY <2>1, <2>2, <2>3, ControlEffect DEF Launch, Ready, SignalStop
<1>3. ASSUME NEW c \in Campaigns, loop'[c] = "stopped" PROVE c < camp' \/ pc' = "kill"
  <2>1. Began(c) /\ c < camp + 1
    BY <1>3, LoopMoves, BeganBefore DEF SeeStop, At, LoopInv, LoopAt, HostType, Began
  <2>2. CASE camp' = camp + 1
    BY <2>1, <2>2
  <2>3. CASE camp' = camp /\ c < camp
    BY <2>3
  <2>4. CASE camp' = camp /\ ~(c < camp)
    <3>1. c = camp /\ camp # camp + 1
      BY <2>1, <2>4 DEF ControlType, Campaigns
    <3>2. MarkerAt(c) /\ (loop[c] = "stopped" => pc = "kill")
      BY <2>4, <3>1 DEF MarkerInv
    <3>3. pc = "kill"
      BY <1>3, <2>1, <3>2, LoopMoves DEF MarkerAt, SeeStop
    <3> QED
      BY <2>4, <3>1, <3>3, ControlEffect DEF StartCampaign, Reset, Launch, Ready, SignalStop
  <2> QED
    BY <1>b, <2>2, <2>3, <2>4
<1> QED
  BY <1>1, <1>2, <1>3 DEF MarkerInv, MarkerAt, Has, Key, Haunted, Began, Alive

\* A step runs one job once more, in the instance that claims it, or none.
LEMMA RunEffect ==
    ASSUME ControlType, HostType, CarrierInv, LoopInv, Next, NEW j \in Jobs
    PROVE  \/ \E c \in Campaigns :
                 /\ cloud[c] = "running" /\ loop[c] = "claim" /\ job[c] = j /\ probe[c][j] = "none"
                 /\ probe'[c][j] = "running"
                    /\ \A d \in Campaigns \ {c} : probe'[d][j] = probe[d][j]
                 /\ runs'[j] = runs[j] + 1
           \/ /\ runs'[j] = runs[j]
              /\ \A d \in Campaigns : probe[d][j] = "none" <=> probe'[d][j] = "none"
<1>1. ASSUME NEW c \in Campaigns, Claim(c), Submit(c)
      PROVE  \/ /\ cloud[c] = "running" /\ loop[c] = "claim" /\ job[c] = j /\ probe[c][j] = "none"
                /\ probe'[c][j] = "running" /\ \A d \in Campaigns \ {c} : probe'[d][j] = probe[d][j]
                /\ runs'[j] = runs[j] + 1
             \/ /\ runs'[j] = runs[j]
                /\ \A d \in Campaigns : probe[d][j] = "none" <=> probe'[d][j] = "none"
  <2>1. cloud[c] = "running" /\ loop[c] = "claim" /\ job[c] \in Jobs /\ probe[c][job[c]] = "none"
    BY <1>1 DEF Claim, At, LoopInv, LoopAt
  <2>2. CASE job[c] = j
    BY <1>1, <2>1, <2>2 DEF Submit, HostType
  <2>3. CASE job[c] # j
    BY <1>1, <2>1, <2>3 DEF Submit, HostType
  <2> QED
    BY <2>2, <2>3
<1>2. CASE ~\E c \in Campaigns : Claim(c) /\ Submit(c)
  <2>1. UNCHANGED runs
    <3>1. CASE Control
      BY <3>1 DEF Control, StartCampaign, Reset, Launch, Ready, NotReady, Ask, ReadResult,
         Answered, GiveUpAnswer, TasksOver, SignalStop, StopCarrier, history
    <3>2. CASE ControlFaults \/ UNCHANGED vars
      BY <3>2 DEF ControlFaults, NotReadyRaised, AnswerRaised, Answered, Interrupted,
         ControlDies, vars, history
    <3>3. ASSUME NEW c \in Campaigns,
                 \/ Host(c) /\ ~(Claim(c) /\ Submit(c))
                 \/ IdleOut(c) \/ LoopDies(c) \/ \E l \in Jobs : ProbeEnds(c, l)
          PROVE  UNCHANGED runs
      BY <3>3 DEF Host, Boot, WriteReady, SeeStop, NoStop, List, NextJob, Claim, GiveUpProbe,
         WriteResult, Report, IdleOut, LoopDies, ProbeEnds, history
    <3> QED
      BY <1>2, <3>1, <3>2, <3>3 DEF Next
  <2>2. \A d \in Campaigns : probe[d][j] = "none" <=> probe'[d][j] = "none"
    BY <1>2, ProbeEffect
  <2> QED
    BY <2>1, <2>2
<1> QED
  BY <1>1, <1>2

\* RunInv is kept by every step.
LEMMA RunStep ==
    ASSUME ControlType, HostType, StoreType, CarrierInv, LoopInv, OnceInv, StoreInv, RunInv, Next
    PROVE  RunInv'
<1>1. ASSUME told' # NoJob PROVE \E c \in Campaigns : probe'[c][told'] = "completed"
  <2>1. CASE UNCHANGED told
    <3>1. PICK c \in Campaigns : probe[c][told] = "completed"
      BY <1>1, <2>1 DEF RunInv
    <3>2. told \in Jobs
      BY <1>1, <2>1 DEF HostType
    <3> QED
      BY <2>1, <3>1, <3>2, ProbeEffect
  <2>2. CASE ReadResult /\ ~UNCHANGED told
    <3>1. told' = This /\ UNCHANGED probe /\ <<Prefix(camp), "completed", This>> \in store
      BY <2>2 DEF ReadResult, Answered, hosts, Has, Key
    <3>2. \E c \in Campaigns : probe[c][This] = "completed"
      BY <3>1 DEF StoreInv, StoreAt
    <3> QED
      BY <3>1, <3>2
  <2>3. told' \in {told, NoJob} \/ ReadResult
    <3>1. CASE Control
      BY <3>1 DEF Control, StartCampaign, Reset, Launch, Ready, NotReady, Ask, GiveUpAnswer,
         TasksOver, SignalStop, StopCarrier, history
    <3>2. CASE ControlFaults \/ UNCHANGED vars
      BY <3>2 DEF ControlFaults, NotReadyRaised, AnswerRaised, Interrupted, ControlDies, vars,
         history
    <3>3. ASSUME NEW c \in Campaigns,
                 Host(c) \/ IdleOut(c) \/ LoopDies(c) \/ \E l \in Jobs : ProbeEnds(c, l)
          PROVE  UNCHANGED told
      BY <3>3 DEF Host, Boot, WriteReady, SeeStop, NoStop, List, NextJob, Claim, GiveUpProbe,
         WriteResult, Report, IdleOut, LoopDies, ProbeEnds, AsIs, history
    <3> QED
      BY <3>1, <3>2, <3>3 DEF Next
  <2> QED
    BY <1>1, <2>1, <2>2, <2>3
<1>2. ASSUME NEW j \in Jobs, ~Haunted(j[1])'
      PROVE  /\ \A c \in Campaigns \ {j[1]} : probe'[c][j] = "none"
             /\ runs'[j] = IF probe'[j[1]][j] = "none" THEN 0 ELSE 1
  <2>0. PICK a \in Campaigns : a = j[1]
    BY JobFacts
  <2>1. CASE a <= camp
    <3>1. ~Haunted(a)
      BY <1>2, <2>0, <2>1, HauntedStays
    <3>2. /\ \A c \in Campaigns \ {a} : probe[c][j] = "none"
          /\ runs[j] = IF probe[a][j] = "none" THEN 0 ELSE 1
      BY <2>0, <3>1 DEF RunInv
    <3>3. ASSUME NEW c \in Campaigns, cloud[c] = "running", loop[c] = "claim", job[c] = j
                 PROVE c = a
      <4>1. Prefix(c) = Prefix(a) /\ c <= a
        BY <2>0, <3>3 DEF OnceInv, OnceAt
      <4> QED
        BY <3>1, <3>3, <4>1 DEF Haunted, Alive, Campaigns
    <3> QED
      BY <2>0, <3>2, <3>3, RunEffect
  <2>2. CASE ~(a <= camp)
    <3>1. runs[j] = 0 /\ ~Asked(j)
      BY <2>0, <2>2 DEF RunInv, Asked, ControlType, Campaigns
    <3>2. \A c \in Campaigns : probe[c][j] = "none" /\ ~(loop[c] = "claim" /\ job[c] = j)
      BY <3>1 DEF OnceInv, OnceAt
    <3> QED
      BY <2>0, <3>1, <3>2, RunEffect
  <2> QED
    BY <2>1, <2>2
<1>3. ASSUME NEW j \in Jobs, j[1] > camp' PROVE runs'[j] = 0
  <2>1. j[1] > camp
    BY <1>3, JobFacts, ControlEffect DEF ControlType, Campaigns
  <2>2. runs[j] = 0 /\ ~Asked(j)
    BY <2>1, JobFacts DEF RunInv, Asked, ControlType, Campaigns
  <2>3. \A c \in Campaigns : ~(loop[c] = "claim" /\ job[c] = j)
    BY <2>2 DEF OnceInv, OnceAt
  <2> QED
    BY <2>2, <2>3, RunEffect
<1> QED
  BY <1>1, <1>2, <1>3 DEF RunInv

----------------------------------------------------------------------------
(* Theorems.                                                               *)

\* ProbeInv holds at first.
LEMMA InitInv ==
    Init => ProbeInv
<1> SUFFICES ASSUME Init PROVE ProbeInv
  OBVIOUS
<1> USE JobFacts DEF Init
<1>1. ControlType /\ StoreType /\ HostType
  BY DEF ControlType, StoreType, HostType, Campaigns, Terminal
<1>2. CarrierInv
  BY DEF CarrierInv, Campaigns, Began, Alive
<1>3. LoopInv /\ OnceInv
  BY DEF LoopInv, LoopAt, OnceInv, OnceAt
<1>4. StoreInv /\ HandledInv /\ MarkerInv
  BY DEF StoreInv, HandledInv, HandledAt, MarkerInv, MarkerAt, Has, Began
<1>5. RunInv
  BY DEF RunInv
<1> QED
  BY <1>1, <1>2, <1>3, <1>4, <1>5 DEF ProbeInv

\* ProbeInv is inductive, for any campaigns, jobs and faults.
THEOREM Invariance == Spec => []ProbeInv
<1>1. ProbeInv /\ Next => ProbeInv'
  BY ControlTypeStep, StoreTypeStep, HostTypeStep, CarrierStep, LoopStep, OnceStep, StoreStep,
     HandledStep, MarkerStep, RunStep DEF ProbeInv
<1>2. ProbeInv /\ UNCHANGED vars => ProbeInv'
  <2> SUFFICES ASSUME ProbeInv, UNCHANGED vars PROVE ProbeInv'
    OBVIOUS
  <2> USE DEF ProbeInv, vars, control, hosts, history
  <2>1. ControlType' /\ StoreType' /\ HostType'
    BY DEF ControlType, StoreType, HostType
  <2>2. CarrierInv' /\ RunInv'
    BY DEF CarrierInv, RunInv, Began, Alive, Haunted
  <2>3. LoopInv' /\ OnceInv'
    BY DEF LoopInv, LoopAt, OnceInv, OnceAt, Asked
  <2>4. StoreInv' /\ HandledInv' /\ MarkerInv'
    BY DEF StoreInv, StoreAt, HandledInv, HandledAt, MarkerInv, MarkerAt, Has, Began, Haunted,
       Alive, Asked
  <2> QED
    BY <2>1, <2>2, <2>3, <2>4
<1> QED
  BY InitInv, <1>1, <1>2, PTL DEF Spec

\* What is run, reported and found on a prefix is what it says it is: the invariants the run
\* checks, for any number of campaigns that share a prefix or do not, and for any faults.
THEOREM JobsAreSafe == Spec => []JobsAreKept
<1>1. ProbeInv => JobsAreKept
  <2> SUFFICES ASSUME ProbeInv PROVE JobsAreKept
    OBVIOUS
  <2> USE DEF ProbeInv
  <2>1. TypeOK
    BY DEF TypeOK, ControlType, StoreType, HostType, Objects
  <2>2. OneRunPerJob
    BY DEF OneRunPerJob, RunInv
  <2>3. ReportsAreTrue
    BY DEF ReportsAreTrue, RunInv, OnceInv, OnceAt
  <2>4. MarkersAreOwn
    BY DEF MarkersAreOwn, MarkerInv, MarkerAt
  <2> QED
    BY <2>1, <2>2, <2>3, <2>4 DEF JobsAreKept
<1> QED
  BY Invariance, <1>1, PTL

\* An instance that outlives its campaign is one whose deletion raised, whose launch raised
\* after creating it, or whose control plane was killed.
THEOREM CarriersAreReaped == Spec => []CarrierIsReaped
<1>1. ProbeInv => CarrierIsReaped
  BY DEF ProbeInv, CarrierInv, CarrierIsReaped, ControlType, Campaigns
<1> QED
  BY Invariance, <1>1, PTL

(***************************************************************************)
(* The fault probes of the data plane (FaultProbes), for any probes and    *)
(* upsets. FaultInv says of every probe how many attempts its agent made   *)
(* and the proxy counted, and of a probe nobody interfered with which      *)
(* configuration, attempts and answer it has at each of its places.        *)
(***************************************************************************)
HIDE NCampaignsAssumption
HIDE NamedAssumption
HIDE JobsAssumption
HIDE MaxFaultsAssumption

\* The places of a probe.
Points == {"parked", "warm", "configure", "invoke", "wait", "observe", "clear", "done", "raised"}
\* Only probes are configured, and only those that use the fault slot are in it.
SlotType ==
    /\ fault = NoFault \/ \E q \in Probes : /\ kind[q] # "hol"
                                            /\ fault = [corr |-> q, calls |-> fault.calls]
                                            /\ fault.calls \in {"first", "all"}
    /\ latency \in Probes \cup {None}
\* What the agent knows of a call.
AgentType == [state : {"idle", "calling", "counted", "answered"}, tries : 0 .. MaxAttempts,
              status : {0, 200, 401, 500, 599}]
\* The probes' own variables.
ProbeType ==
    /\ kind \in [Probes -> ProbeKinds \cup {"none"}] /\ serial \in BOOLEAN
    /\ pace \in Nat \ {0} /\ ahead \in Nat
    /\ point \in [Probes -> Points]
    /\ agent \in [Probes -> AgentType]
    /\ heard \in [Probes -> {"pending", "ok", "failed", "error", "timeout", "reset"}]
    /\ observed \in [Probes -> Nat]
    /\ held \in [Probes -> BOOLEAN] /\ alone \in [Probes -> BOOLEAN]
    /\ cut \in [Probes -> BOOLEAN] /\ again \in [Probes -> BOOLEAN]
\* The disruption proxy's counters.
CountType == counts \in [Probes \cup {None} -> Nat] /\ tried = counts /\ upsets \in Nat
\* Every variable keeps its type.
FaultType == SlotType /\ ProbeType /\ CountType

\* Whatever was injected was injected into the probe it was configured for.
Own == \A h \in hits : h[1] = h[2]

\* The agent is at a call of p.
Working(p) == agent[p].state \in {"calling", "counted"}
\* The attempts the agent has made, the one under way included.
Made(p) == IF agent[p].state = "counted" THEN agent[p].tries + 1 ELSE agent[p].tries
\* What holds of every probe, disturbed or not.
Attempts(p) ==
    /\ Working(p) => agent[p].tries < MaxAttempts /\ (agent[p].tries > 0 => <<p, p>> \in hits)
    /\ agent[p].state = "idle" => agent[p].tries = 0
    /\ ~again[p] => counts[p] <= Made(p) /\ (counts[p] > 1 => <<p, p>> \in hits)
    /\ kind[p] \notin Simulated => observed[p] <= counts[p]
    /\ held[p] => kind[p] = "hol"
    /\ heard[p] \in {"timeout", "reset"} => cut[p]
    /\ point[p] \in {"parked", "warm", "configure", "invoke"} =>
         agent[p].state = "idle" /\ heard[p] = "pending"
    /\ point[p] = "clear" => kind[p] = "hol"

\* The probes that ask an agent: neither simulated nor a plain head-of-line probe.
Asks(p) == kind[p] \notin Simulated \cup PlainHols \cup {"none"}
\* The attempts an undisturbed probe takes,
Needed(p) == CASE kind[p] = "recovery" -> 2 [] kind[p] = "hol" -> 1 [] OTHER -> MaxAttempts
\* the status it ends with,
Final(p) == IF kind[p] \in {"recovery", "hol"} THEN 200 ELSE 500
\* and how its caller hears of it.
Reply(p) == IF Final(p) = 200 THEN "ok" ELSE "failed"
\* The proxy still holds what the probe configured.
Configured(p) ==
    IF kind[p] = "hol" THEN latency = p
    ELSE fault = [corr |-> p, calls |-> IF kind[p] = "recovery" THEN "first" ELSE "all"]
\* What holds of a probe nobody interfered with.
Undisturbed(p) ==
    /\ ~again[p] /\ ~cut[p] /\ point[p] # "raised"
    /\ Asks(p) /\ point[p] \in {"invoke", "wait"} => Configured(p)
    /\ Asks(p) /\ point[p] \in {"wait", "observe", "clear", "done"} =>
        /\ counts[p] = Made(p)
        /\ Working(p) => agent[p].tries < Needed(p) /\ point[p] = "wait" /\ heard[p] = "pending"
        /\ ~Working(p) =>
             /\ agent[p] = [state |-> "answered", tries |-> Needed(p), status |-> Final(p)]
             /\ kind[p] = "hol" => held[p]
        /\ heard[p] \in (IF point[p] = "wait" THEN {"pending", Reply(p)} ELSE {Reply(p)})
        /\ point[p] = "done" /\ kind[p] # "hol" => observed[p] = counts[p]
    /\ kind[p] \in Simulated /\ point[p] = "done" => heard[p] = "ok" /\ observed[p] = 2
    /\ kind[p] \in Simulated => point[p] \in {"configure", "done"}
    /\ kind[p] \in PlainHols => point[p] \in {"warm", "done"}
    /\ kind[p] = "none" => point[p] = "parked"
\* The inductive invariant of the fault probes.
FaultInv == FaultType /\ Own /\ \A p \in Probes : Attempts(p) /\ (alone[p] => Undisturbed(p))

\* The fault slot keeps its type: every step sets it from its own probe.
LEMMA SlotStep ==
  ASSUME FaultType, NEW p \in Probes, FaultStep(p)
  PROVE  SlotType'
<1>1. /\ kind' = kind
      /\ \/ fault' = fault
         \/ kind[p] # "hol" /\ \E c \in {"first", "all"} : fault' = [corr |-> p, calls |-> c]
      /\ latency' \in {latency, p, None}
  <2>1. CASE WarmUp(p)
    BY <2>1 DEF WarmUp, mock, EnsureWarm
  <2>2. CASE RecoveryFault(p)
    BY <2>2 DEF RecoveryFault, mock, Configure, PostFaultConfig
  <2>3. CASE StormFault(p)
    BY <2>3 DEF StormFault, mock, Configure, PostFaultConfig
  <2>4. CASE SdkStormFault(p)
    BY <2>4 DEF SdkStormFault, mock, Configure, PostFaultConfig, SdkStorms
  <2>5. CASE HolLatency(p)
    BY <2>5 DEF HolLatency, mock, Configure, PostLatencyConfig, EnsureWarm
  <2>6. CASE AwsRecovery(p)
    BY <2>6 DEF AwsRecovery, mock, SimulatedRecovery
  <2>7. CASE SimRecovery(p)
    BY <2>7 DEF SimRecovery, mock, SimulatedRecovery
  <2>8. CASE AliyunHol(p)
    BY <2>8 DEF AliyunHol, mock, PlainHol, EnsureWarm
  <2>9. CASE AwsHol(p)
    BY <2>9 DEF AwsHol, mock, PlainHol, EnsureWarm
  <2>10. CASE SimHol(p)
    BY <2>10 DEF SimHol, mock, PlainHol, EnsureWarm
  <2>11. CASE Invoke(p)
    BY <2>11 DEF Invoke, mock
  <2>12. CASE Return(p)
    BY <2>12 DEF Return, mock
  <2>13. CASE Observe(p)
    BY <2>13 DEF Observe, mock, Calm
  <2>14. CASE HolClear(p)
    BY <2>14 DEF HolClear, mock, PostLatencyConfig
  <2>15. CASE AgentReaches(p)
    BY <2>15 DEF AgentReaches, mock, NextCallIndex
  <2>16. CASE AgentServed(p)
    BY <2>16 DEF AgentServed, mock, Calm
  <2>17. CASE AgentUnreached(p)
    BY <2>17 DEF AgentUnreached, mock
  <2>18. CASE PlatformAnswers(p)
    BY <2>18 DEF PlatformAnswers, mock
  <2>19. CASE PlatformCuts(p)
    BY <2>19 DEF PlatformCuts, mock
  <2>20. CASE PlatformRefuses(p)
    BY <2>20 DEF PlatformRefuses, mock
  <2>21. CASE PlatformRedelivers(p)
    BY <2>21 DEF PlatformRedelivers, mock
  <2> QED
    BY <2>1, <2>2, <2>3, <2>4, <2>5, <2>6, <2>7, <2>8, <2>9, <2>10, <2>11, <2>12, <2>13, <2>14,
       <2>15, <2>16, <2>17, <2>18, <2>19, <2>20, <2>21 DEF FaultStep
<1>2. latency' \in Probes \cup {None}
  BY <1>1 DEF FaultType, SlotType
<1>3. CASE fault' = fault
  BY <1>1, <1>2, <1>3 DEF FaultType, SlotType
<1>4. CASE kind[p] # "hol" /\ \E c \in {"first", "all"} : fault' = [corr |-> p, calls |-> c]
  <2> PICK c \in {"first", "all"} : fault' = [corr |-> p, calls |-> c]
    BY <1>4
  <2> QED
    BY <1>1, <1>2, <1>4 DEF SlotType
<1> QED
  BY <1>1, <1>3, <1>4

\* What the agent knows keeps its type.
LEMMA AgentStep ==
  ASSUME FaultType, NEW p \in Probes, Attempts(p), FaultStep(p)
  PROVE  \E r \in AgentType : agent' = [agent EXCEPT ![p] = r]
<1> agent \in [Probes -> AgentType]
  BY DEF FaultType, ProbeType
<1> USE DEF AgentType, MaxAttempts, Max_retries
<1>0. CASE UNCHANGED agent
  <2> agent' = [agent EXCEPT ![p] = agent[p]]
    BY <1>0
  <2> QED
    OBVIOUS
<1>1. CASE Invoke(p) \/ PlatformRedelivers(p)
  BY <1>1 DEF Invoke, PlatformRedelivers, Fresh
<1>2. CASE PlatformRefuses(p)
  <2> Idle \in AgentType
    BY DEF Idle
  <2> QED
    BY <1>2 DEF PlatformRefuses
<1>3. CASE AgentReaches(p)
  <2> DEFINE r == [agent[p] EXCEPT !.state = "counted"]
  <2> r \in AgentType
    OBVIOUS
  <2> agent' = [agent EXCEPT ![p] = r]
    BY <1>3 DEF AgentReaches
  <2> QED
    OBVIOUS
<1>4. ASSUME NEW status \in {200, 401, 500, 599}, NEW tries \in 1 .. MaxAttempts,
             Settle(p, status, tries)
      PROVE  \E r \in AgentType : agent' = [agent EXCEPT ![p] = r]
  <2> DEFINE r == [state |-> IF MayRetry(status, tries) THEN "calling" ELSE "answered",
                   tries |-> tries, status |-> status]
  <2> r \in AgentType
    OBVIOUS
  <2> agent' = [agent EXCEPT ![p] = r]
    BY <1>4 DEF Settle
  <2> QED
    OBVIOUS
<1>5. CASE AgentServed(p)
  <2>1. agent[p].state = "counted" /\ agent[p].tries + 1 \in 1 .. MaxAttempts
    BY <1>5 DEF AgentServed, Attempts, Working
  <2>2. \E status \in {200, 500, 599} : Settle(p, status, agent[p].tries + 1)
    BY <1>5 DEF AgentServed, FaultStatusFor
  <2> QED
    BY <2>1, <2>2, <1>4
<1>6. CASE AgentUnreached(p)
  <2>1. agent[p].tries + 1 \in 1 .. MaxAttempts
    BY <1>6 DEF AgentUnreached, Attempts, Working
  <2>2. \E status \in {401, 599} : Settle(p, status, agent[p].tries + 1)
    BY <1>6 DEF AgentUnreached
  <2> QED
    BY <2>1, <2>2, <1>4
<1> QED
  BY <1>0, <1>1, <1>2, <1>3, <1>5, <1>6 DEF FaultStep, WarmUp, RecoveryFault, StormFault,
     SdkStormFault, HolLatency, AwsRecovery, SimRecovery, SimulatedRecovery, AliyunHol, AwsHol,
     SimHol, PlainHol, Return, Observe, HolClear, PlatformAnswers, PlatformCuts

\* Every variable of the fault probes keeps its type.
LEMMA FaultTypeStep ==
  ASSUME FaultType, NEW p \in Probes, Attempts(p), FaultStep(p)
  PROVE  ProbeType' /\ CountType'
<1>0. agent' \in [Probes -> AgentType]
  BY AgentStep DEF FaultType, ProbeType
<1> USE ProbesAssumption DEF FaultType, ProbeType, CountType, Points, ProbeKinds
<1>a. alone' \in [Probes -> BOOLEAN]
  <2>1. CASE WarmUp(p)
    BY <2>1, Zenon DEF WarmUp, EnsureWarm, Upset, Turn, faultHistory, platform, mock, BucketKey
  <2>2. CASE RecoveryFault(p)
    BY <2>2, Zenon DEF RecoveryFault, Configure, PostFaultConfig, Upset, Turn, faultHistory,
        platform, mock, BucketKey
  <2>3. CASE StormFault(p)
    BY <2>3, Zenon DEF StormFault, Configure, PostFaultConfig, Upset, Turn, faultHistory,
        platform, mock, BucketKey
  <2>4. CASE SdkStormFault(p)
    BY <2>4, Zenon DEF SdkStormFault, Configure, PostFaultConfig, SdkStorms, Upset, Turn,
       faultHistory, platform, mock, BucketKey
  <2>5. CASE HolLatency(p)
    <3>1. (alone' = [q \in Probes |-> alone[q] /\ q \notin Trampled(p)]) \/ Upset(p)
      BY <2>5 DEF HolLatency, Configure
    <3> QED
      BY <3>1, Zenon DEF Upset
  <2>6. CASE AwsRecovery(p)
    BY <2>6, Zenon DEF AwsRecovery, SimulatedRecovery, Upset, Turn, faultHistory, platform,
        mock, BucketKey
  <2>7. CASE SimRecovery(p)
    BY <2>7, Zenon DEF SimRecovery, SimulatedRecovery, Upset, Turn, faultHistory, platform,
        mock, BucketKey
  <2>8. CASE AliyunHol(p)
    BY <2>8, Zenon DEF AliyunHol, PlainHol, EnsureWarm, Upset, Turn, faultHistory, platform,
        mock, BucketKey
  <2>9. CASE AwsHol(p)
    BY <2>9, Zenon DEF AwsHol, PlainHol, EnsureWarm, Upset, Turn, faultHistory, platform, mock,
        BucketKey
  <2>10. CASE SimHol(p)
    BY <2>10, Zenon DEF SimHol, PlainHol, EnsureWarm, Upset, Turn, faultHistory, platform, mock,
        BucketKey
  <2>11. CASE Invoke(p)
    BY <2>11, Zenon DEF Invoke, Upset, Turn, faultHistory, platform, mock, BucketKey
  <2>12. CASE Return(p)
    BY <2>12, Zenon DEF Return, Upset, Turn, faultHistory, platform, mock, BucketKey
  <2>13. CASE Observe(p)
    BY <2>13, Zenon DEF Observe, Calm, Upset, Turn, faultHistory, platform, mock, BucketKey
  <2>14. CASE HolClear(p)
    BY <2>14, Zenon DEF HolClear, PostLatencyConfig, Upset, Turn, faultHistory, platform, mock,
        BucketKey
  <2>15. CASE AgentReaches(p)
    BY <2>15, Zenon DEF AgentReaches, NextCallIndex, Upset, Turn, faultHistory, platform, mock,
        BucketKey
  <2>16. CASE AgentServed(p)
    BY <2>16, Zenon DEF AgentServed, Calm, Upset, Turn, faultHistory, platform, mock, BucketKey
  <2>17. CASE AgentUnreached(p)
    BY <2>17, Zenon DEF AgentUnreached, Upset, Turn, faultHistory, platform, mock, BucketKey
  <2>18. CASE PlatformAnswers(p)
    BY <2>18, Zenon DEF PlatformAnswers, Upset, Turn, faultHistory, platform, mock, BucketKey
  <2>19. CASE PlatformCuts(p)
    BY <2>19, Zenon DEF PlatformCuts, Upset, Turn, faultHistory, platform, mock, BucketKey
  <2>20. CASE PlatformRefuses(p)
    BY <2>20, Zenon DEF PlatformRefuses, Upset, Turn, faultHistory, platform, mock, BucketKey
  <2>21. CASE PlatformRedelivers(p)
    BY <2>21, Zenon DEF PlatformRedelivers, Upset, Turn, faultHistory, platform, mock, BucketKey
  <2> QED
    BY <2>1, <2>2, <2>3, <2>4, <2>5, <2>6, <2>7, <2>8, <2>9, <2>10, <2>11, <2>12, <2>13, <2>14,
       <2>15, <2>16, <2>17, <2>18, <2>19, <2>20, <2>21 DEF FaultStep
<1> HIDE DEF Upset
<1>1. CASE WarmUp(p)
  BY <1>0, <1>a, <1>1 DEF WarmUp, EnsureWarm, Upset, Turn, faultHistory, platform, mock, BucketKey
<1>2. CASE RecoveryFault(p)
  BY <1>0, <1>a, <1>2 DEF RecoveryFault, Configure, PostFaultConfig, Upset, Turn, faultHistory,
     platform, mock, BucketKey
<1>3. CASE StormFault(p)
  BY <1>0, <1>a, <1>3 DEF StormFault, Configure, PostFaultConfig, Upset, Turn, faultHistory,
      platform, mock, BucketKey
<1>4. CASE SdkStormFault(p)
  BY <1>0, <1>a, <1>4 DEF SdkStormFault, Configure, PostFaultConfig, SdkStorms, Upset, Turn,
     faultHistory, platform, mock, BucketKey
<1>5. CASE HolLatency(p)
  BY <1>0, <1>a, <1>5 DEF HolLatency, Configure, PostLatencyConfig, EnsureWarm, Upset, Turn,
     faultHistory, platform, mock, BucketKey
<1>6. CASE AwsRecovery(p)
  BY <1>0, <1>a, <1>6 DEF AwsRecovery, SimulatedRecovery, Upset, Turn, faultHistory, platform,
      mock, BucketKey
<1>7. CASE SimRecovery(p)
  BY <1>0, <1>a, <1>7 DEF SimRecovery, SimulatedRecovery, Upset, Turn, faultHistory, platform,
      mock, BucketKey
<1>8. CASE AliyunHol(p)
  BY <1>0, <1>a, <1>8 DEF AliyunHol, PlainHol, EnsureWarm, Upset, Turn, faultHistory, platform,
      mock, BucketKey
<1>9. CASE AwsHol(p)
  BY <1>0, <1>a, <1>9 DEF AwsHol, PlainHol, EnsureWarm, Upset, Turn, faultHistory, platform,
      mock, BucketKey
<1>10. CASE SimHol(p)
  BY <1>0, <1>a, <1>10 DEF SimHol, PlainHol, EnsureWarm, Upset, Turn, faultHistory, platform,
      mock, BucketKey
<1>11. CASE Invoke(p)
  BY <1>0, <1>a, <1>11 DEF Invoke, Upset, Turn, faultHistory, platform, mock, BucketKey
<1>12. CASE Return(p)
  BY <1>0, <1>a, <1>12 DEF Return, Upset, Turn, faultHistory, platform, mock, BucketKey
<1>13. CASE Observe(p)
  BY <1>0, <1>a, <1>13 DEF Observe, Calm, Upset, Turn, faultHistory, platform, mock, BucketKey
<1>14. CASE HolClear(p)
  BY <1>0, <1>a, <1>14 DEF HolClear, PostLatencyConfig, Upset, Turn, faultHistory, platform,
      mock, BucketKey
<1>15. CASE AgentReaches(p)
  BY <1>0, <1>a, <1>15 DEF AgentReaches, NextCallIndex, Upset, Turn, faultHistory, platform,
      mock, BucketKey
<1>16. CASE AgentServed(p)
  BY <1>0, <1>a, <1>16 DEF AgentServed, Calm, Upset, Turn, faultHistory, platform, mock, BucketKey
<1>17. CASE AgentUnreached(p)
  BY <1>0, <1>a, <1>17 DEF AgentUnreached, Upset, Turn, faultHistory, platform, mock, BucketKey
<1>18. CASE PlatformAnswers(p)
  BY <1>0, <1>a, <1>18 DEF PlatformAnswers, Upset, Turn, faultHistory, platform, mock, BucketKey
<1>19. CASE PlatformCuts(p)
  BY <1>0, <1>a, <1>19 DEF PlatformCuts, Upset, Turn, faultHistory, platform, mock, BucketKey
<1>20. CASE PlatformRefuses(p)
  BY <1>0, <1>a, <1>20 DEF PlatformRefuses, Upset, Turn, faultHistory, platform, mock, BucketKey
<1>21. CASE PlatformRedelivers(p)
  BY <1>0, <1>a, <1>21 DEF PlatformRedelivers, Upset, Turn, faultHistory, platform, mock,
      BucketKey
<1> QED
  BY <1>1, <1>2, <1>3, <1>4, <1>5, <1>6, <1>7, <1>8, <1>9, <1>10, <1>11, <1>12, <1>13, <1>14,
     <1>15, <1>16, <1>17, <1>18, <1>19, <1>20, <1>21 DEF FaultStep

\* A probe's own variables are as they were.
Kept(q) ==
    /\ point'[q] = point[q] /\ agent'[q] = agent[q] /\ heard'[q] = heard[q]
    /\ observed'[q] = observed[q] /\ held'[q] = held[q] /\ cut'[q] = cut[q]
    /\ again'[q] = again[q] /\ counts'[q] = counts[q]

\* A step of one probe leaves every other probe where it was.
LEMMA FaultFrame ==
  ASSUME FaultType, NEW p \in Probes, FaultStep(p)
  PROVE  /\ UNCHANGED <<kind, platform>> /\ hits \subseteq hits'
         /\ \A q \in Probes \ {p} : Kept(q)
<1> USE ProbesAssumption DEF FaultType, ProbeType, CountType, Kept
<1>1. UNCHANGED <<kind, platform>> /\ hits \subseteq hits'
  <2>1. CASE WarmUp(p)
    BY <2>1 DEF WarmUp, EnsureWarm, Upset, Turn, faultHistory, platform, mock, BucketKey
  <2>2. CASE RecoveryFault(p)
    BY <2>2 DEF RecoveryFault, Configure, PostFaultConfig, Upset, Turn, faultHistory, platform,
        mock, BucketKey
  <2>3. CASE StormFault(p)
    BY <2>3 DEF StormFault, Configure, PostFaultConfig, Upset, Turn, faultHistory, platform,
        mock, BucketKey
  <2>4. CASE SdkStormFault(p)
    BY <2>4 DEF SdkStormFault, Configure, PostFaultConfig, SdkStorms, Upset, Turn, faultHistory,
       platform, mock, BucketKey
  <2>5. CASE HolLatency(p)
    BY <2>5 DEF HolLatency, Configure, PostLatencyConfig, EnsureWarm, Upset, Turn, faultHistory,
       platform, mock, BucketKey
  <2>6. CASE AwsRecovery(p)
    BY <2>6 DEF AwsRecovery, SimulatedRecovery, Upset, Turn, faultHistory, platform, mock,
        BucketKey
  <2>7. CASE SimRecovery(p)
    BY <2>7 DEF SimRecovery, SimulatedRecovery, Upset, Turn, faultHistory, platform, mock,
        BucketKey
  <2>8. CASE AliyunHol(p)
    BY <2>8 DEF AliyunHol, PlainHol, EnsureWarm, Upset, Turn, faultHistory, platform, mock,
        BucketKey
  <2>9. CASE AwsHol(p)
    BY <2>9 DEF AwsHol, PlainHol, EnsureWarm, Upset, Turn, faultHistory, platform, mock, BucketKey
  <2>10. CASE SimHol(p)
    BY <2>10 DEF SimHol, PlainHol, EnsureWarm, Upset, Turn, faultHistory, platform, mock,
        BucketKey
  <2>11. CASE Invoke(p)
    BY <2>11 DEF Invoke, Upset, Turn, faultHistory, platform, mock, BucketKey
  <2>12. CASE Return(p)
    BY <2>12 DEF Return, Upset, Turn, faultHistory, platform, mock, BucketKey
  <2>13. CASE Observe(p)
    BY <2>13 DEF Observe, Calm, Upset, Turn, faultHistory, platform, mock, BucketKey
  <2>14. CASE HolClear(p)
    BY <2>14 DEF HolClear, PostLatencyConfig, Upset, Turn, faultHistory, platform, mock, BucketKey
  <2>15. CASE AgentReaches(p)
    BY <2>15 DEF AgentReaches, NextCallIndex, Upset, Turn, faultHistory, platform, mock, BucketKey
  <2>16. CASE AgentServed(p)
    BY <2>16 DEF AgentServed, Calm, Upset, Turn, faultHistory, platform, mock, BucketKey
  <2>17. CASE AgentUnreached(p)
    BY <2>17 DEF AgentUnreached, Upset, Turn, faultHistory, platform, mock, BucketKey
  <2>18. CASE PlatformAnswers(p)
    BY <2>18 DEF PlatformAnswers, Upset, Turn, faultHistory, platform, mock, BucketKey
  <2>19. CASE PlatformCuts(p)
    BY <2>19 DEF PlatformCuts, Upset, Turn, faultHistory, platform, mock, BucketKey
  <2>20. CASE PlatformRefuses(p)
    BY <2>20 DEF PlatformRefuses, Upset, Turn, faultHistory, platform, mock, BucketKey
  <2>21. CASE PlatformRedelivers(p)
    BY <2>21 DEF PlatformRedelivers, Upset, Turn, faultHistory, platform, mock, BucketKey
  <2> QED
    BY <2>1, <2>2, <2>3, <2>4, <2>5, <2>6, <2>7, <2>8, <2>9, <2>10, <2>11, <2>12, <2>13, <2>14,
       <2>15, <2>16, <2>17, <2>18, <2>19, <2>20, <2>21 DEF FaultStep
<1>2. \A q \in Probes \ {p} : Kept(q)
  <2>1. CASE WarmUp(p)
    BY <2>1 DEF WarmUp, EnsureWarm, Upset, Turn, faultHistory, platform, mock, BucketKey, Settle
  <2>2. CASE RecoveryFault(p)
    BY <2>2 DEF RecoveryFault, Configure, PostFaultConfig, Upset, Turn, faultHistory, platform,
        mock, BucketKey, Settle
  <2>3. CASE StormFault(p)
    BY <2>3 DEF StormFault, Configure, PostFaultConfig, Upset, Turn, faultHistory, platform, mock,
       BucketKey, Settle
  <2>4. CASE SdkStormFault(p)
    BY <2>4 DEF SdkStormFault, Configure, PostFaultConfig, SdkStorms, Upset, Turn, faultHistory,
       platform, mock, BucketKey, Settle
  <2>5. CASE HolLatency(p)
    BY <2>5 DEF HolLatency, Configure, PostLatencyConfig, EnsureWarm, Upset, Turn, faultHistory,
       platform, mock, BucketKey, Settle
  <2>6. CASE AwsRecovery(p)
    BY <2>6 DEF AwsRecovery, SimulatedRecovery, Upset, Turn, faultHistory, platform, mock,
        BucketKey, Settle
  <2>7. CASE SimRecovery(p)
    BY <2>7 DEF SimRecovery, SimulatedRecovery, Upset, Turn, faultHistory, platform, mock,
        BucketKey, Settle
  <2>8. CASE AliyunHol(p)
    BY <2>8 DEF AliyunHol, PlainHol, EnsureWarm, Upset, Turn, faultHistory, platform, mock,
        BucketKey, Settle
  <2>9. CASE AwsHol(p)
    BY <2>9 DEF AwsHol, PlainHol, EnsureWarm, Upset, Turn, faultHistory, platform, mock,
        BucketKey, Settle
  <2>10. CASE SimHol(p)
    BY <2>10 DEF SimHol, PlainHol, EnsureWarm, Upset, Turn, faultHistory, platform, mock,
        BucketKey, Settle
  <2>11. CASE Invoke(p)
    BY <2>11 DEF Invoke, Upset, Turn, faultHistory, platform, mock, BucketKey, Settle
  <2>12. CASE Return(p)
    BY <2>12 DEF Return, Upset, Turn, faultHistory, platform, mock, BucketKey, Settle
  <2>13. CASE Observe(p)
    BY <2>13 DEF Observe, Calm, Upset, Turn, faultHistory, platform, mock, BucketKey, Settle
  <2>14. CASE HolClear(p)
    BY <2>14 DEF HolClear, PostLatencyConfig, Upset, Turn, faultHistory, platform, mock,
        BucketKey, Settle
  <2>15. CASE AgentReaches(p)
    BY <2>15 DEF AgentReaches, NextCallIndex, Upset, Turn, faultHistory, platform, mock,
        BucketKey, Settle
  <2>16. CASE AgentServed(p)
    BY <2>16 DEF AgentServed, Calm, Upset, Turn, faultHistory, platform, mock, BucketKey, Settle
  <2>17. CASE AgentUnreached(p)
    BY <2>17 DEF AgentUnreached, Upset, Turn, faultHistory, platform, mock, BucketKey, Settle
  <2>18. CASE PlatformAnswers(p)
    BY <2>18 DEF PlatformAnswers, Upset, Turn, faultHistory, platform, mock, BucketKey, Settle
  <2>19. CASE PlatformCuts(p)
    BY <2>19 DEF PlatformCuts, Upset, Turn, faultHistory, platform, mock, BucketKey, Settle
  <2>20. CASE PlatformRefuses(p)
    BY <2>20 DEF PlatformRefuses, Upset, Turn, faultHistory, platform, mock, BucketKey, Settle
  <2>21. CASE PlatformRedelivers(p)
    BY <2>21 DEF PlatformRedelivers, Upset, Turn, faultHistory, platform, mock, BucketKey, Settle
  <2> QED
    BY <2>1, <2>2, <2>3, <2>4, <2>5, <2>6, <2>7, <2>8, <2>9, <2>10, <2>11, <2>12, <2>13, <2>14,
       <2>15, <2>16, <2>17, <2>18, <2>19, <2>20, <2>21 DEF FaultStep
<1> QED
  BY <1>1, <1>2

\* Nobody but an upset takes the configuration of a probe away.
LEMMA SlotKept ==
  ASSUME FaultType, NEW p \in Probes, Attempts(p), FaultStep(p), NEW q \in Probes \ {p}, alone'[q]
  PROVE  /\ alone[q]
         /\ point[q] \in {"invoke", "wait"} =>
              IF UsesFault(q) THEN fault' = fault ELSE latency' = latency
<1> USE ProbesAssumption DEF FaultType, ProbeType, CountType
<1>1. \/ UNCHANGED <<fault, latency>> /\ alone' = alone
      \/ UNCHANGED <<fault, latency>> /\ \E b \in BOOLEAN : alone' = [alone EXCEPT ![p] = b]
      \/ /\ alone' = [r \in Probes |-> alone[r] /\ r \notin Trampled(p)]
         /\ \/ UsesFault(p) /\ latency' = latency
            \/ ~UsesFault(p) /\ fault' = fault
  <2>1. CASE WarmUp(p)
    BY <2>1 DEF WarmUp, EnsureWarm, Upset, Turn, faultHistory, platform, mock, BucketKey,
        UsesFault, Attempts
  <2>2. CASE RecoveryFault(p)
    BY <2>2 DEF RecoveryFault, Configure, PostFaultConfig, Upset, Turn, faultHistory, platform,
        mock, BucketKey, UsesFault, Attempts
  <2>3. CASE StormFault(p)
    BY <2>3 DEF StormFault, Configure, PostFaultConfig, Upset, Turn, faultHistory, platform, mock,
       BucketKey, UsesFault, Attempts
  <2>4. CASE SdkStormFault(p)
    BY <2>4 DEF SdkStormFault, Configure, PostFaultConfig, SdkStorms, Upset, Turn, faultHistory,
       platform, mock, BucketKey, UsesFault, Attempts
  <2>5. CASE HolLatency(p)
    BY <2>5 DEF HolLatency, Configure, PostLatencyConfig, EnsureWarm, Upset, Turn, faultHistory,
       platform, mock, BucketKey, UsesFault, Attempts
  <2>6. CASE AwsRecovery(p)
    BY <2>6 DEF AwsRecovery, SimulatedRecovery, Upset, Turn, faultHistory, platform, mock,
        BucketKey, UsesFault, Attempts
  <2>7. CASE SimRecovery(p)
    BY <2>7 DEF SimRecovery, SimulatedRecovery, Upset, Turn, faultHistory, platform, mock,
        BucketKey, UsesFault, Attempts
  <2>8. CASE AliyunHol(p)
    BY <2>8 DEF AliyunHol, PlainHol, EnsureWarm, Upset, Turn, faultHistory, platform, mock,
        BucketKey, UsesFault, Attempts
  <2>9. CASE AwsHol(p)
    BY <2>9 DEF AwsHol, PlainHol, EnsureWarm, Upset, Turn, faultHistory, platform, mock,
        BucketKey, UsesFault, Attempts
  <2>10. CASE SimHol(p)
    BY <2>10 DEF SimHol, PlainHol, EnsureWarm, Upset, Turn, faultHistory, platform, mock,
        BucketKey, UsesFault, Attempts
  <2>11. CASE Invoke(p)
    BY <2>11 DEF Invoke, Upset, Turn, faultHistory, platform, mock, BucketKey, UsesFault, Attempts
  <2>12. CASE Return(p)
    BY <2>12 DEF Return, Upset, Turn, faultHistory, platform, mock, BucketKey, UsesFault, Attempts
  <2>13. CASE Observe(p)
    BY <2>13 DEF Observe, Calm, Upset, Turn, faultHistory, platform, mock, BucketKey, UsesFault,
        Attempts
  <2>14. CASE HolClear(p)
    BY <2>14 DEF HolClear, PostLatencyConfig, Upset, Turn, faultHistory, platform, mock,
        BucketKey, UsesFault, Attempts
  <2>15. CASE AgentReaches(p)
    BY <2>15 DEF AgentReaches, NextCallIndex, Upset, Turn, faultHistory, platform, mock,
        BucketKey, UsesFault, Attempts
  <2>16. CASE AgentServed(p)
    BY <2>16 DEF AgentServed, Calm, Upset, Turn, faultHistory, platform, mock, BucketKey,
        UsesFault, Attempts
  <2>17. CASE AgentUnreached(p)
    BY <2>17 DEF AgentUnreached, Upset, Turn, faultHistory, platform, mock, BucketKey,
        UsesFault, Attempts
  <2>18. CASE PlatformAnswers(p)
    BY <2>18 DEF PlatformAnswers, Upset, Turn, faultHistory, platform, mock, BucketKey,
        UsesFault, Attempts
  <2>19. CASE PlatformCuts(p)
    BY <2>19 DEF PlatformCuts, Upset, Turn, faultHistory, platform, mock, BucketKey, UsesFault,
        Attempts
  <2>20. CASE PlatformRefuses(p)
    BY <2>20 DEF PlatformRefuses, Upset, Turn, faultHistory, platform, mock, BucketKey,
        UsesFault, Attempts
  <2>21. CASE PlatformRedelivers(p)
    BY <2>21 DEF PlatformRedelivers, Upset, Turn, faultHistory, platform, mock, BucketKey,
        UsesFault, Attempts
  <2> QED
    BY <2>1, <2>2, <2>3, <2>4, <2>5, <2>6, <2>7, <2>8, <2>9, <2>10, <2>11, <2>12, <2>13, <2>14,
       <2>15, <2>16, <2>17, <2>18, <2>19, <2>20, <2>21 DEF FaultStep
<1> QED
  <2>1. CASE /\ alone' = [r \in Probes |-> alone[r] /\ r \notin Trampled(p)]
             /\ \/ UsesFault(p) /\ latency' = latency
                \/ ~UsesFault(p) /\ fault' = fault
    <3>1. alone[q] /\ q \notin Trampled(p)
      BY <2>1
    <3> QED
      BY <2>1, <3>1 DEF Trampled, UsesFault
  <2> QED
    BY <1>1, <2>1

\* A probe's own step keeps its attempts counted.
LEMMA AttemptsOwn ==
  ASSUME FaultType, NEW p \in Probes, Attempts(p), FaultStep(p)
  PROVE  Attempts(p)'
<1> USE ProbesAssumption DEF FaultType, ProbeType, CountType, Attempts, AgentType
<1>1. CASE WarmUp(p)
  BY <1>1 DEF WarmUp, EnsureWarm, Upset, Turn, faultHistory, platform, mock, BucketKey, Idle,
      Fresh, Settle, MayRetry, MaxAttempts, Max_retries, FaultStatusFor, Made, Working,
      SdkStorms, Simulated, PlainHols
<1>2. CASE RecoveryFault(p)
  BY <1>2 DEF RecoveryFault, Configure, PostFaultConfig, Upset, Turn, faultHistory, platform,
      mock, BucketKey, Idle, Fresh, Settle, MayRetry, MaxAttempts, Max_retries, FaultStatusFor,
      Made, Working, SdkStorms, Simulated, PlainHols
<1>3. CASE StormFault(p)
  BY <1>3 DEF StormFault, Configure, PostFaultConfig, Upset, Turn, faultHistory, platform, mock,
      BucketKey, Idle, Fresh, Settle, MayRetry, MaxAttempts, Max_retries, FaultStatusFor, Made,
      Working, SdkStorms, Simulated, PlainHols
<1>4. CASE SdkStormFault(p)
  BY <1>4 DEF SdkStormFault, Configure, PostFaultConfig, SdkStorms, Upset, Turn, faultHistory,
      platform, mock, BucketKey, Idle, Fresh, Settle, MayRetry, MaxAttempts, Max_retries,
      FaultStatusFor, Made, Working, SdkStorms, Simulated, PlainHols
<1>5. CASE HolLatency(p)
  BY <1>5 DEF HolLatency, Configure, PostLatencyConfig, EnsureWarm, Upset, Turn, faultHistory,
      platform, mock, BucketKey, Idle, Fresh, Settle, MayRetry, MaxAttempts, Max_retries,
      FaultStatusFor, Made, Working, SdkStorms, Simulated, PlainHols
<1>6. CASE AwsRecovery(p)
  BY <1>6 DEF AwsRecovery, SimulatedRecovery, Upset, Turn, faultHistory, platform, mock,
      BucketKey, Idle, Fresh, Settle, MayRetry, MaxAttempts, Max_retries, FaultStatusFor, Made,
      Working, SdkStorms, Simulated, PlainHols
<1>7. CASE SimRecovery(p)
  BY <1>7 DEF SimRecovery, SimulatedRecovery, Upset, Turn, faultHistory, platform, mock,
      BucketKey, Idle, Fresh, Settle, MayRetry, MaxAttempts, Max_retries, FaultStatusFor, Made,
      Working, SdkStorms, Simulated, PlainHols
<1>8. CASE AliyunHol(p)
  BY <1>8 DEF AliyunHol, PlainHol, EnsureWarm, Upset, Turn, faultHistory, platform, mock,
      BucketKey, Idle, Fresh, Settle, MayRetry, MaxAttempts, Max_retries, FaultStatusFor, Made,
      Working, SdkStorms, Simulated, PlainHols
<1>9. CASE AwsHol(p)
  BY <1>9 DEF AwsHol, PlainHol, EnsureWarm, Upset, Turn, faultHistory, platform, mock,
      BucketKey, Idle, Fresh, Settle, MayRetry, MaxAttempts, Max_retries, FaultStatusFor, Made,
      Working, SdkStorms, Simulated, PlainHols
<1>10. CASE SimHol(p)
  BY <1>10 DEF SimHol, PlainHol, EnsureWarm, Upset, Turn, faultHistory, platform, mock,
      BucketKey, Idle, Fresh, Settle, MayRetry, MaxAttempts, Max_retries, FaultStatusFor, Made,
      Working, SdkStorms, Simulated, PlainHols
<1>11. CASE Invoke(p)
  BY <1>11 DEF Invoke, Upset, Turn, faultHistory, platform, mock, BucketKey, Idle, Fresh,
      Settle, MayRetry, MaxAttempts, Max_retries, FaultStatusFor, Made, Working, SdkStorms,
      Simulated, PlainHols
<1>12. CASE Return(p)
  BY <1>12 DEF Return, Upset, Turn, faultHistory, platform, mock, BucketKey, Idle, Fresh,
      Settle, MayRetry, MaxAttempts, Max_retries, FaultStatusFor, Made, Working, SdkStorms,
      Simulated, PlainHols
<1>13. CASE Observe(p)
  BY <1>13 DEF Observe, Calm, Upset, Turn, faultHistory, platform, mock, BucketKey, Idle, Fresh,
      Settle, MayRetry, MaxAttempts, Max_retries, FaultStatusFor, Made, Working, SdkStorms,
      Simulated, PlainHols
<1>14. CASE HolClear(p)
  BY <1>14 DEF HolClear, PostLatencyConfig, Upset, Turn, faultHistory, platform, mock,
      BucketKey, Idle, Fresh, Settle, MayRetry, MaxAttempts, Max_retries, FaultStatusFor, Made,
      Working, SdkStorms, Simulated, PlainHols
<1>15. CASE AgentReaches(p)
  BY <1>15 DEF AgentReaches, NextCallIndex, Upset, Turn, faultHistory, platform, mock,
      BucketKey, Idle, Fresh, Settle, MayRetry, MaxAttempts, Max_retries, FaultStatusFor, Made,
      Working, SdkStorms, Simulated, PlainHols
<1>16. CASE AgentServed(p)
  BY <1>16 DEF AgentServed, Calm, Upset, Turn, faultHistory, platform, mock, BucketKey, Idle,
      Fresh, Settle, MayRetry, MaxAttempts, Max_retries, FaultStatusFor, Made, Working,
      SdkStorms, Simulated, PlainHols
<1>17. CASE AgentUnreached(p)
  BY <1>17 DEF AgentUnreached, Upset, Turn, faultHistory, platform, mock, BucketKey, Idle,
      Fresh, Settle, MayRetry, MaxAttempts, Max_retries, FaultStatusFor, Made, Working,
      SdkStorms, Simulated, PlainHols
<1>18. CASE PlatformAnswers(p)
  BY <1>18 DEF PlatformAnswers, Upset, Turn, faultHistory, platform, mock, BucketKey, Idle,
      Fresh, Settle, MayRetry, MaxAttempts, Max_retries, FaultStatusFor, Made, Working,
      SdkStorms, Simulated, PlainHols
<1>19. CASE PlatformCuts(p)
  BY <1>19 DEF PlatformCuts, Upset, Turn, faultHistory, platform, mock, BucketKey, Idle, Fresh,
      Settle, MayRetry, MaxAttempts, Max_retries, FaultStatusFor, Made, Working, SdkStorms,
      Simulated, PlainHols
<1>20. CASE PlatformRefuses(p)
  BY <1>20 DEF PlatformRefuses, Upset, Turn, faultHistory, platform, mock, BucketKey, Idle,
      Fresh, Settle, MayRetry, MaxAttempts, Max_retries, FaultStatusFor, Made, Working,
      SdkStorms, Simulated, PlainHols
<1>21. CASE PlatformRedelivers(p)
  BY <1>21 DEF PlatformRedelivers, Upset, Turn, faultHistory, platform, mock, BucketKey, Idle,
      Fresh, Settle, MayRetry, MaxAttempts, Max_retries, FaultStatusFor, Made, Working,
      SdkStorms, Simulated, PlainHols
<1> QED
  BY <1>1, <1>2, <1>3, <1>4, <1>5, <1>6, <1>7, <1>8, <1>9, <1>10, <1>11, <1>12, <1>13, <1>14,
     <1>15, <1>16, <1>17, <1>18, <1>19, <1>20, <1>21 DEF FaultStep

\* Another probe's step does.
LEMMA AttemptsOther ==
  ASSUME FaultType, NEW p \in Probes, FaultStep(p), NEW q \in Probes \ {p}, Attempts(q)
  PROVE  Attempts(q)'
BY FaultFrame DEF Attempts, Kept, Made, Working

\* Another probe's step leaves an undisturbed probe undisturbed.
LEMMA UndisturbedOther ==
  ASSUME FaultType, NEW p \in Probes, Attempts(p), FaultStep(p), NEW q \in Probes \ {p},
         alone[q] => Undisturbed(q), alone'[q]
  PROVE  Undisturbed(q)'
<1>1. alone[q] /\ Kept(q) /\ UNCHANGED <<kind, platform>>
  BY FaultFrame, SlotKept
<1>2. Asks(q) /\ point[q] \in {"invoke", "wait"} => (Configured(q) => Configured(q)')
  BY <1>1, SlotKept DEF Configured, UsesFault
<1> QED
  BY <1>1, <1>2 DEF Undisturbed, Kept, Asks, Made, Working, Needed, Final, Reply

\* No step of a probe makes it alone again.
LEMMA AloneOwn ==
  ASSUME FaultType, NEW p \in Probes, FaultStep(p), alone'[p]
  PROVE  alone[p]
<1> USE ProbesAssumption DEF FaultType, ProbeType, CountType
<1>1. CASE WarmUp(p)
  BY <1>1 DEF WarmUp, EnsureWarm, Upset, Turn, faultHistory, platform, mock, BucketKey, Trampled
<1>2. CASE RecoveryFault(p)
  BY <1>2 DEF RecoveryFault, Configure, PostFaultConfig, Upset, Turn, faultHistory, platform,
      mock, BucketKey, Trampled
<1>3. CASE StormFault(p)
  BY <1>3 DEF StormFault, Configure, PostFaultConfig, Upset, Turn, faultHistory, platform, mock,
      BucketKey, Trampled
<1>4. CASE SdkStormFault(p)
  BY <1>4 DEF SdkStormFault, Configure, PostFaultConfig, SdkStorms, Upset, Turn, faultHistory,
     platform, mock, BucketKey, Trampled
<1>5. CASE HolLatency(p)
  BY <1>5 DEF HolLatency, Configure, PostLatencyConfig, EnsureWarm, Upset, Turn, faultHistory,
     platform, mock, BucketKey, Trampled
<1>6. CASE AwsRecovery(p)
  BY <1>6 DEF AwsRecovery, SimulatedRecovery, Upset, Turn, faultHistory, platform, mock,
      BucketKey, Trampled
<1>7. CASE SimRecovery(p)
  BY <1>7 DEF SimRecovery, SimulatedRecovery, Upset, Turn, faultHistory, platform, mock,
      BucketKey, Trampled
<1>8. CASE AliyunHol(p)
  BY <1>8 DEF AliyunHol, PlainHol, EnsureWarm, Upset, Turn, faultHistory, platform, mock,
      BucketKey, Trampled
<1>9. CASE AwsHol(p)
  BY <1>9 DEF AwsHol, PlainHol, EnsureWarm, Upset, Turn, faultHistory, platform, mock,
      BucketKey, Trampled
<1>10. CASE SimHol(p)
  BY <1>10 DEF SimHol, PlainHol, EnsureWarm, Upset, Turn, faultHistory, platform, mock,
      BucketKey, Trampled
<1>11. CASE Invoke(p)
  BY <1>11 DEF Invoke, Upset, Turn, faultHistory, platform, mock, BucketKey, Trampled
<1>12. CASE Return(p)
  BY <1>12 DEF Return, Upset, Turn, faultHistory, platform, mock, BucketKey, Trampled
<1>13. CASE Observe(p)
  BY <1>13 DEF Observe, Calm, Upset, Turn, faultHistory, platform, mock, BucketKey, Trampled
<1>14. CASE HolClear(p)
  BY <1>14 DEF HolClear, PostLatencyConfig, Upset, Turn, faultHistory, platform, mock,
      BucketKey, Trampled
<1>15. CASE AgentReaches(p)
  BY <1>15 DEF AgentReaches, NextCallIndex, Upset, Turn, faultHistory, platform, mock,
      BucketKey, Trampled
<1>16. CASE AgentServed(p)
  BY <1>16 DEF AgentServed, Calm, Upset, Turn, faultHistory, platform, mock, BucketKey, Trampled
<1>17. CASE AgentUnreached(p)
  BY <1>17 DEF AgentUnreached, Upset, Turn, faultHistory, platform, mock, BucketKey, Trampled
<1>18. CASE PlatformAnswers(p)
  BY <1>18 DEF PlatformAnswers, Upset, Turn, faultHistory, platform, mock, BucketKey, Trampled
<1>19. CASE PlatformCuts(p)
  BY <1>19 DEF PlatformCuts, Upset, Turn, faultHistory, platform, mock, BucketKey, Trampled
<1>20. CASE PlatformRefuses(p)
  BY <1>20 DEF PlatformRefuses, Upset, Turn, faultHistory, platform, mock, BucketKey, Trampled
<1>21. CASE PlatformRedelivers(p)
  BY <1>21 DEF PlatformRedelivers, Upset, Turn, faultHistory, platform, mock, BucketKey, Trampled
<1> QED
  BY <1>1, <1>2, <1>3, <1>4, <1>5, <1>6, <1>7, <1>8, <1>9, <1>10, <1>11, <1>12, <1>13, <1>14,
     <1>15, <1>16, <1>17, <1>18, <1>19, <1>20, <1>21 DEF FaultStep

\* A probe's own step keeps what an undisturbed probe has.
LEMMA UndisturbedOwn ==
  ASSUME FaultType, NEW p \in Probes, Attempts(p), Undisturbed(p), alone'[p], FaultStep(p)
  PROVE  Undisturbed(p)'
<1> USE ProbesAssumption DEF FaultType, ProbeType, CountType, Attempts, AgentType, Undisturbed
<1>1. CASE WarmUp(p)
  BY <1>1 DEF WarmUp, EnsureWarm, Upset, Turn, faultHistory, platform, mock, BucketKey, Idle,
      Fresh, Settle, MayRetry, MaxAttempts, Max_retries, FaultStatusFor, Made, Working,
      SdkStorms, Simulated, PlainHols, Asks, Needed, Final, Reply, Configured, ProbeKinds
<1>2. CASE RecoveryFault(p)
  BY <1>2 DEF RecoveryFault, Configure, PostFaultConfig, Upset, Turn, faultHistory, platform,
      mock, BucketKey, Idle, Fresh, Settle, MayRetry, MaxAttempts, Max_retries, FaultStatusFor,
      Made, Working, SdkStorms, Simulated, PlainHols, Asks, Needed, Final, Reply, Configured,
      ProbeKinds
<1>3. CASE StormFault(p)
  BY <1>3 DEF StormFault, Configure, PostFaultConfig, Upset, Turn, faultHistory, platform, mock,
      BucketKey, Idle, Fresh, Settle, MayRetry, MaxAttempts, Max_retries, FaultStatusFor, Made,
      Working, SdkStorms, Simulated, PlainHols, Asks, Needed, Final, Reply, Configured,
      ProbeKinds
<1>4. CASE SdkStormFault(p)
  BY <1>4 DEF SdkStormFault, Configure, PostFaultConfig, SdkStorms, Upset, Turn, faultHistory,
      platform, mock, BucketKey, Idle, Fresh, Settle, MayRetry, MaxAttempts, Max_retries,
      FaultStatusFor, Made, Working, SdkStorms, Simulated, PlainHols, Asks, Needed, Final,
      Reply, Configured, ProbeKinds
<1>5. CASE HolLatency(p)
  BY <1>5 DEF HolLatency, Configure, PostLatencyConfig, EnsureWarm, Upset, Turn, faultHistory,
      platform, mock, BucketKey, Idle, Fresh, Settle, MayRetry, MaxAttempts, Max_retries,
      FaultStatusFor, Made, Working, SdkStorms, Simulated, PlainHols, Asks, Needed, Final,
      Reply, Configured, ProbeKinds
<1>6. CASE AwsRecovery(p)
  BY <1>6 DEF AwsRecovery, SimulatedRecovery, Upset, Turn, faultHistory, platform, mock,
      BucketKey, Idle, Fresh, Settle, MayRetry, MaxAttempts, Max_retries, FaultStatusFor, Made,
      Working, SdkStorms, Simulated, PlainHols, Asks, Needed, Final, Reply, Configured,
      ProbeKinds
<1>7. CASE SimRecovery(p)
  BY <1>7 DEF SimRecovery, SimulatedRecovery, Upset, Turn, faultHistory, platform, mock,
      BucketKey, Idle, Fresh, Settle, MayRetry, MaxAttempts, Max_retries, FaultStatusFor, Made,
      Working, SdkStorms, Simulated, PlainHols, Asks, Needed, Final, Reply, Configured,
      ProbeKinds
<1>8. CASE AliyunHol(p)
  BY <1>8 DEF AliyunHol, PlainHol, EnsureWarm, Upset, Turn, faultHistory, platform, mock,
      BucketKey, Idle, Fresh, Settle, MayRetry, MaxAttempts, Max_retries, FaultStatusFor, Made,
      Working, SdkStorms, Simulated, PlainHols, Asks, Needed, Final, Reply, Configured,
      ProbeKinds
<1>9. CASE AwsHol(p)
  BY <1>9 DEF AwsHol, PlainHol, EnsureWarm, Upset, Turn, faultHistory, platform, mock,
      BucketKey, Idle, Fresh, Settle, MayRetry, MaxAttempts, Max_retries, FaultStatusFor, Made,
      Working, SdkStorms, Simulated, PlainHols, Asks, Needed, Final, Reply, Configured,
      ProbeKinds
<1>10. CASE SimHol(p)
  BY <1>10 DEF SimHol, PlainHol, EnsureWarm, Upset, Turn, faultHistory, platform, mock,
      BucketKey, Idle, Fresh, Settle, MayRetry, MaxAttempts, Max_retries, FaultStatusFor, Made,
      Working, SdkStorms, Simulated, PlainHols, Asks, Needed, Final, Reply, Configured,
      ProbeKinds
<1>11. CASE Invoke(p)
  BY <1>11 DEF Invoke, Upset, Turn, faultHistory, platform, mock, BucketKey, Idle, Fresh,
      Settle, MayRetry, MaxAttempts, Max_retries, FaultStatusFor, Made, Working, SdkStorms,
      Simulated, PlainHols, Asks, Needed, Final, Reply, Configured, ProbeKinds
<1>12. CASE Return(p)
  <2>1. /\ point[p] = "wait" /\ heard[p] # "pending"
        /\ UNCHANGED <<kind, counts, fault, latency, agent, heard, observed, held, cut, again>>
        /\ point'[p] = IF Raises(p) THEN "raised" ELSE IF kind[p] = "hol" THEN "clear"
           ELSE "observe"
    BY <1>12 DEF Return, Turn, mock, faultHistory
  <2>2. Asks(p)
    BY <2>1 DEF Asks, Simulated, PlainHols
  <2>3. heard[p] = Reply(p) /\ ~Working(p) /\ Reply(p) \in {"ok", "failed"}
    BY <2>1, <2>2 DEF Reply
  <2>4. ~Raises(p)
    BY <2>3 DEF Raises
  <2> QED
    BY <2>1, <2>2, <2>3, <2>4 DEF Asks, Simulated, Made, Working, Needed, Final, Reply, Configured
<1>13. CASE Observe(p)
  BY <1>13 DEF Observe, Calm, Upset, Turn, faultHistory, platform, mock, BucketKey, Idle, Fresh,
      Settle, MayRetry, MaxAttempts, Max_retries, FaultStatusFor, Made, Working, SdkStorms,
      Simulated, PlainHols, Asks, Needed, Final, Reply, Configured, ProbeKinds
<1>14. CASE HolClear(p)
  BY <1>14 DEF HolClear, PostLatencyConfig, Upset, Turn, faultHistory, platform, mock,
      BucketKey, Idle, Fresh, Settle, MayRetry, MaxAttempts, Max_retries, FaultStatusFor, Made,
      Working, SdkStorms, Simulated, PlainHols, Asks, Needed, Final, Reply, Configured,
      ProbeKinds
<1>15. CASE AgentReaches(p)
  BY <1>15 DEF AgentReaches, NextCallIndex, Upset, Turn, faultHistory, platform, mock,
      BucketKey, Idle, Fresh, Settle, MayRetry, MaxAttempts, Max_retries, FaultStatusFor, Made,
      Working, SdkStorms, Simulated, PlainHols, Asks, Needed, Final, Reply, Configured,
      ProbeKinds
<1>16. CASE AgentServed(p)
  <2> DEFINE made == agent[p].tries + 1
  <2> USE DEF Simulated, PlainHols, Asks, Working, MaxAttempts, Max_retries
  <2>0. agent[p].state = "counted" /\ made \in 1 .. MaxAttempts /\ agent[p].tries \in Nat
    BY <1>16 DEF AgentServed
  <2>1. /\ Settle(p, FaultStatusFor(p, counts[p]), made)
           /\ held'[p] = (kind[p] = "hol" /\ latency = p)
        /\ UNCHANGED <<kind, point, counts, fault, latency, heard, observed, cut, again>>
    BY <1>16 DEF AgentServed, Calm, Upset, BucketKey, mock, LatencyFor
  <2>2. agent'[p] = [state |-> IF FaultStatusFor(p, counts[p]) = 500 /\ made < MaxAttempts
                               THEN "calling" ELSE "answered",
                     tries |-> made, status |-> FaultStatusFor(p, counts[p])]
    BY <2>1 DEF Settle, MayRetry
  <2> HIDE DEF AgentType
  <2>3. CASE ~Asks(p)
    BY <2>1, <2>3
  <2>4. CASE Asks(p)
    <3>1. point[p] = "wait" /\ heard[p] = "pending" /\ counts[p] = made /\ made <= Needed(p)
      <4>1. point[p] \in {"wait", "observe", "clear", "done"}
        BY <2>0, <2>4 DEF Points
      <4>2. Needed(p) \in {1, 2, 3}
        BY DEF Needed
      <4>3. Made(p) = made
        BY <2>0 DEF Made
      <4>4. /\ counts[p] = Made(p) /\ agent[p].tries < Needed(p)
            /\ point[p] = "wait" /\ heard[p] = "pending"
        BY <2>0, <2>4, <4>1
      <4> HIDE DEF FaultType, ProbeType, CountType, Attempts, Undisturbed, Asks, Working
      <4> QED
        BY <2>0, <4>2, <4>3, <4>4
    <3> HIDE DEF Attempts, FaultType, ProbeType, CountType
    <3>2. CASE kind[p] = "recovery"
      <4>1. fault = [corr |-> p, calls |-> "first"] /\ Needed(p) = 2 /\ Final(p) = 200
        BY <2>4, <3>1, <3>2 DEF Configured, Needed, Final
      <4>2. FaultStatusFor(p, counts[p]) = IF made = 1 THEN 500 ELSE 200
        BY <3>1, <4>1 DEF FaultStatusFor
      <4>3. \/ made = 1 /\ agent'[p] = [state |-> "calling", tries |-> 1, status |-> 500]
            \/ made = 2 /\ agent'[p] = [state |-> "answered", tries |-> 2, status |-> 200]
        BY <2>0, <2>2, <3>1, <4>1, <4>2
      <4> HIDE DEF made
      <4> QED
        BY <2>1, <3>1, <3>2, <4>1, <4>3 DEF Made, Needed, Final, Reply, Configured
    <3>3. CASE kind[p] = "hol"
      <4>1. latency = p /\ Needed(p) = 1 /\ Final(p) = 200 /\ made = 1
        BY <2>0, <2>4, <3>1, <3>3 DEF Configured, Needed, Final
      <4>2. FaultStatusFor(p, counts[p]) = 200
        <5>1. fault.corr # p
          BY <3>3 DEF FaultType, SlotType, NoFault
        <5> QED
          BY <5>1 DEF FaultStatusFor
      <4>3. agent'[p] = [state |-> "answered", tries |-> 1, status |-> 200]
        BY <2>2, <4>1, <4>2
      <4>4. held'[p]
        BY <2>1, <3>3, <4>1
      <4> HIDE DEF made
      <4> QED
        BY <2>1, <3>1, <3>3, <4>1, <4>3, <4>4 DEF Made, Needed, Final, Reply, Configured
    <3>4. CASE kind[p] \in {"storm"} \cup SdkStorms
      <4> kind[p] \in {"storm", "aliyunStorm", "awsStorm"}
        BY <3>4 DEF SdkStorms
      <4>1. fault = [corr |-> p, calls |-> "all"] /\ Needed(p) = 3 /\ Final(p) = 500
        BY <2>4, <3>1 DEF Configured, Needed, Final
      <4>2. FaultStatusFor(p, counts[p]) = 500
        BY <4>1 DEF FaultStatusFor
      <4>3. \/ made < 3 /\ agent'[p] = [state |-> "calling", tries |-> made, status |-> 500]
            \/ made = 3 /\ agent'[p] = [state |-> "answered", tries |-> 3, status |-> 500]
        BY <2>0, <2>2, <3>1, <4>1, <4>2
      <4> HIDE DEF made
      <4> QED
        BY <2>1, <3>1, <4>1, <4>3 DEF Made, Needed, Final, Reply, Configured
    <3> QED
      BY <2>4, <3>2, <3>3, <3>4 DEF FaultType, ProbeType, ProbeKinds, SdkStorms
  <2> QED
    BY <2>3, <2>4
<1>17. CASE AgentUnreached(p)
  BY <1>17 DEF AgentUnreached, Upset, Turn, faultHistory, platform, mock, BucketKey, Idle,
      Fresh, Settle, MayRetry, MaxAttempts, Max_retries, FaultStatusFor, Made, Working,
      SdkStorms, Simulated, PlainHols, Asks, Needed, Final, Reply, Configured, ProbeKinds
<1>18. CASE PlatformAnswers(p)
  BY <1>18 DEF PlatformAnswers, Upset, Turn, faultHistory, platform, mock, BucketKey, Idle,
      Fresh, Settle, MayRetry, MaxAttempts, Max_retries, FaultStatusFor, Made, Working,
      SdkStorms, Simulated, PlainHols, Asks, Needed, Final, Reply, Configured, ProbeKinds
<1>19. CASE PlatformCuts(p)
  BY <1>19 DEF PlatformCuts, Upset, Turn, faultHistory, platform, mock, BucketKey, Idle, Fresh,
      Settle, MayRetry, MaxAttempts, Max_retries, FaultStatusFor, Made, Working, SdkStorms,
      Simulated, PlainHols, Asks, Needed, Final, Reply, Configured, ProbeKinds
<1>20. CASE PlatformRefuses(p)
  BY <1>20 DEF PlatformRefuses, Upset, Turn, faultHistory, platform, mock, BucketKey, Idle,
      Fresh, Settle, MayRetry, MaxAttempts, Max_retries, FaultStatusFor, Made, Working,
      SdkStorms, Simulated, PlainHols, Asks, Needed, Final, Reply, Configured, ProbeKinds
<1>21. CASE PlatformRedelivers(p)
  BY <1>21 DEF PlatformRedelivers, Upset, Turn, faultHistory, platform, mock, BucketKey, Idle,
      Fresh, Settle, MayRetry, MaxAttempts, Max_retries, FaultStatusFor, Made, Working,
      SdkStorms, Simulated, PlainHols, Asks, Needed, Final, Reply, Configured, ProbeKinds
<1> QED
  BY <1>1, <1>2, <1>3, <1>4, <1>5, <1>6, <1>7, <1>8, <1>9, <1>10, <1>11, <1>12, <1>13, <1>14,
     <1>15, <1>16, <1>17, <1>18, <1>19, <1>20, <1>21 DEF FaultStep

\* What is injected goes to the probe it was configured for.
LEMMA OwnStep ==
  ASSUME FaultType, Own, NEW p \in Probes, FaultStep(p)
  PROVE  Own'
<1> USE ProbesAssumption DEF FaultType, SlotType, ProbeType, CountType, Own, NoFault
<1>1. CASE WarmUp(p)
  BY <1>1 DEF WarmUp, EnsureWarm, Upset, Turn, faultHistory, platform, mock, BucketKey,
      FaultStatusFor, LatencyFor
<1>2. CASE RecoveryFault(p)
  BY <1>2 DEF RecoveryFault, Configure, PostFaultConfig, Upset, Turn, faultHistory, platform,
      mock, BucketKey, FaultStatusFor, LatencyFor
<1>3. CASE StormFault(p)
  BY <1>3 DEF StormFault, Configure, PostFaultConfig, Upset, Turn, faultHistory, platform, mock,
      BucketKey, FaultStatusFor, LatencyFor
<1>4. CASE SdkStormFault(p)
  BY <1>4 DEF SdkStormFault, Configure, PostFaultConfig, SdkStorms, Upset, Turn, faultHistory,
     platform, mock, BucketKey, FaultStatusFor, LatencyFor
<1>5. CASE HolLatency(p)
  BY <1>5 DEF HolLatency, Configure, PostLatencyConfig, EnsureWarm, Upset, Turn, faultHistory,
     platform, mock, BucketKey, FaultStatusFor, LatencyFor
<1>6. CASE AwsRecovery(p)
  BY <1>6 DEF AwsRecovery, SimulatedRecovery, Upset, Turn, faultHistory, platform, mock,
      BucketKey, FaultStatusFor, LatencyFor
<1>7. CASE SimRecovery(p)
  BY <1>7 DEF SimRecovery, SimulatedRecovery, Upset, Turn, faultHistory, platform, mock,
      BucketKey, FaultStatusFor, LatencyFor
<1>8. CASE AliyunHol(p)
  BY <1>8 DEF AliyunHol, PlainHol, EnsureWarm, Upset, Turn, faultHistory, platform, mock,
      BucketKey, FaultStatusFor, LatencyFor
<1>9. CASE AwsHol(p)
  BY <1>9 DEF AwsHol, PlainHol, EnsureWarm, Upset, Turn, faultHistory, platform, mock, BucketKey,
     FaultStatusFor, LatencyFor
<1>10. CASE SimHol(p)
  BY <1>10 DEF SimHol, PlainHol, EnsureWarm, Upset, Turn, faultHistory, platform, mock, BucketKey,
     FaultStatusFor, LatencyFor
<1>11. CASE Invoke(p)
  BY <1>11 DEF Invoke, Upset, Turn, faultHistory, platform, mock, BucketKey, FaultStatusFor,
      LatencyFor
<1>12. CASE Return(p)
  BY <1>12 DEF Return, Upset, Turn, faultHistory, platform, mock, BucketKey, FaultStatusFor,
      LatencyFor
<1>13. CASE Observe(p)
  BY <1>13 DEF Observe, Calm, Upset, Turn, faultHistory, platform, mock, BucketKey,
      FaultStatusFor, LatencyFor
<1>14. CASE HolClear(p)
  BY <1>14 DEF HolClear, PostLatencyConfig, Upset, Turn, faultHistory, platform, mock, BucketKey,
     FaultStatusFor, LatencyFor
<1>15. CASE AgentReaches(p)
  BY <1>15 DEF AgentReaches, NextCallIndex, Upset, Turn, faultHistory, platform, mock, BucketKey,
     FaultStatusFor, LatencyFor
<1>16. CASE AgentServed(p)
  BY <1>16 DEF AgentServed, Calm, Upset, Turn, faultHistory, platform, mock, BucketKey,
      FaultStatusFor, LatencyFor
<1>17. CASE AgentUnreached(p)
  BY <1>17 DEF AgentUnreached, Upset, Turn, faultHistory, platform, mock, BucketKey,
      FaultStatusFor, LatencyFor
<1>18. CASE PlatformAnswers(p)
  BY <1>18 DEF PlatformAnswers, Upset, Turn, faultHistory, platform, mock, BucketKey,
      FaultStatusFor, LatencyFor
<1>19. CASE PlatformCuts(p)
  BY <1>19 DEF PlatformCuts, Upset, Turn, faultHistory, platform, mock, BucketKey,
      FaultStatusFor, LatencyFor
<1>20. CASE PlatformRefuses(p)
  BY <1>20 DEF PlatformRefuses, Upset, Turn, faultHistory, platform, mock, BucketKey,
      FaultStatusFor, LatencyFor
<1>21. CASE PlatformRedelivers(p)
  BY <1>21 DEF PlatformRedelivers, Upset, Turn, faultHistory, platform, mock, BucketKey,
      FaultStatusFor, LatencyFor
<1> QED
  BY <1>1, <1>2, <1>3, <1>4, <1>5, <1>6, <1>7, <1>8, <1>9, <1>10, <1>11, <1>12, <1>13, <1>14,
     <1>15, <1>16, <1>17, <1>18, <1>19, <1>20, <1>21 DEF FaultStep

\* The invariant holds when the probes start, and when they are parked.
LEMMA FaultInitial == DataPlaneInit => FaultInv
<1> USE ProbesAssumption
    DEF FaultInv, FaultType, SlotType, ProbeType, CountType, Own, Attempts, Undisturbed, Working,
    Made,
        Asks, Points, NoFault, Simulated, SdkStorms, PlainHols
<1>0. Idle \in AgentType /\ Idle.state = "idle" /\ Idle.tries = 0
  BY DEF Idle, AgentType, MaxAttempts, Max_retries
<1>1. ASSUME FaultInit PROVE FaultInv
  <2>1. pace \in Nat \ {0} /\ ahead \in Nat
    BY <1>1, PaceAssumption DEF FaultInit
  <2> QED
    BY <1>0, <1>1, <2>1 DEF FaultInit, ProbeKinds
<1>2. ASSUME FaultParked PROVE FaultInv
  <2>1. /\ kind = [p \in Probes |-> "none"] /\ point = [p \in Probes |-> "parked"]
        /\ agent = [p \in Probes |-> Idle] /\ heard = [p \in Probes |-> "pending"]
        /\ counts = [c \in Probes \cup {None} |-> 0] /\ tried = counts /\ upsets = 0
        /\ fault = NoFault /\ latency = None /\ serial = FALSE /\ pace = 1 /\ ahead = 0
        /\ hits = {}
        /\ observed = [p \in Probes |-> 0] /\ alone = [p \in Probes |-> TRUE]
        /\ held = [p \in Probes |-> FALSE] /\ cut = held /\ again = held
    BY <1>2 DEF FaultParked
  <2>2. SlotType /\ CountType /\ Own
    BY <2>1
  <2>5. pace \in Nat \ {0} /\ ahead \in Nat /\ serial \in BOOLEAN
    <3>1. pace = 1 /\ ahead = 0
      BY <1>2 DEF FaultParked
    <3>2. serial = FALSE
      BY <1>2 DEF FaultParked
    <3>3. serial \in BOOLEAN
      BY <3>2, Zenon
    <3> QED
      BY <3>1, <3>3
  <2>3. ProbeType
    BY <1>0, <2>1, <2>5
  <2>4. ASSUME NEW p \in Probes PROVE Attempts(p) /\ Undisturbed(p)
    BY <1>0, <2>1
  <2> QED
    BY <2>2, <2>3, <2>4
<1> QED
  BY <1>1, <1>2 DEF DataPlaneInit

\* Every step of either family of probes keeps it.
LEMMA FaultInductive == FaultInv /\ [DataPlaneNext]_dataPlaneVars => FaultInv'
<1> SUFFICES ASSUME FaultInv, [DataPlaneNext]_dataPlaneVars PROVE FaultInv'
  OBVIOUS
<1>1. CASE UNCHANGED faultVars
  BY <1>1 DEF faultVars, platform, mock, faultHistory, FaultInv, FaultType, SlotType, ProbeType,
      CountType, Own, Attempts, Undisturbed, Working, Made, Asks, Needed, Final, Reply,
      Configured
<1>2. ASSUME NEW p \in Probes, FaultStep(p) PROVE FaultInv'
  <2> USE <1>2
  <2>1. FaultType /\ Own /\ Attempts(p)
    BY DEF FaultInv
  <2>2. FaultType' /\ Own'
    BY <2>1, SlotStep, FaultTypeStep, OwnStep DEF FaultType
  <2>3. ASSUME NEW q \in Probes PROVE Attempts(q)' /\ (alone'[q] => Undisturbed(q)')
    <3>1. Attempts(q) /\ (alone[q] => Undisturbed(q))
      BY DEF FaultInv
    <3>2. CASE q = p
      BY <2>1, <3>1, <3>2, AttemptsOwn, AloneOwn, UndisturbedOwn
    <3>3. CASE q # p
      BY <2>1, <3>1, <3>3, AttemptsOther, UndisturbedOther
    <3> QED
      BY <3>2, <3>3
  <2> QED
    BY <2>2, <2>3 DEF FaultInv
<1> QED
  BY <1>1, <1>2 DEF DataPlaneNext, FaultNext, dataPlaneVars

\* A queue is claimed only of a platform that has one, and only by a slow request that was
\* slow; where it can be told apart it is claimed.
LEMMA BlockingIsSo ==
  ASSUME FaultType, NEW p \in Probes
  PROVE  /\ Serialized(p) => serial /\ held[p]
         /\ Telling /\ held[p] => Serialized(p)
<1>1. pace \in Nat \ {0} /\ ahead \in Nat /\ serial \in BOOLEAN /\ held[p] \in BOOLEAN
  BY DEF FaultType, ProbeType
<1>2. FastCount \in Nat \ {0} /\ SlowLatency \in Nat
  BY PaceAssumption
<1>3. Lower \in Nat \ {0} /\ Upper \in Nat \ {0}
  BY <1>2 DEF Lower, Upper
<1> DEFINE slow == SlowTook(p)
<1>4. slow = pace + (IF held[p] THEN SlowLatency ELSE 0)
  BY DEF SlowTook
<1>5. CASE ~serial
  <2>1. UnderSlow(p) = pace + pace /\ Baseline = pace + pace
    BY <1>5 DEF UnderSlow, Baseline, Behind, Took
  <2>2. ~Serialized(p)
    BY <1>1, <2>1 DEF Serialized
  <2> QED
    BY <1>5, <2>2 DEF Telling
<1>6. CASE serial
  <2> DEFINE low == Lower * pace
             up == Upper * pace
  <2>1. low \in Nat /\ up \in Nat /\ low >= pace /\ up >= pace
    <3>1. ASSUME NEW n \in Nat \ {0} PROVE n * pace \in Nat /\ n * pace >= pace
      <4>1. n - 1 \in Nat /\ (n - 1) * pace \in Nat /\ n * pace = (n - 1) * pace + pace
        BY <1>1, <3>1
      <4> QED
        BY <1>1, <4>1
    <3> QED
      BY <1>3, <3>1
  <2>2. Baseline = low + up
    BY <1>1, <1>6, <2>1 DEF Baseline, Took
  <2>3. UnderSlow(p) = low + (IF Lower > ahead THEN slow ELSE 0)
                       + (up + (IF Upper > ahead THEN slow ELSE 0))
    BY <1>6 DEF UnderSlow, Behind, Took
  <2> HIDE DEF low, up, slow
  <2>4. slow \in Nat
    BY <1>1, <1>2, <1>4
  <2>5. UnderSlow(p) <= low + up + slow + slow
    BY <1>1, <1>3, <2>1, <2>3, <2>4
  <2>6. Serialized(p) => held[p]
    BY <1>1, <1>4, <2>1, <2>2, <2>3, <2>4, <2>5 DEF Serialized
  <2>7. ASSUME Telling, held[p] PROVE Serialized(p)
    <3>1. ahead = 0 /\ slow = pace + SlowLatency /\ 2 * (pace + SlowLatency) > Baseline
      BY <1>4, <2>7 DEF Telling
    <3>2. UnderSlow(p) = low + slow + (up + slow)
      BY <1>3, <2>3, <3>1
    <3> QED
      BY <2>1, <2>2, <2>4, <3>1, <3>2 DEF Serialized
  <2> QED
    BY <1>6, <2>6, <2>7
<1> QED
  BY <1>1, <1>5, <1>6

\* The verdicts follow from it.
LEMMA FaultInvVerdicts == FaultInv => FaultVerdictsHold
<1> SUFFICES ASSUME FaultInv PROVE FaultVerdictsHold
  OBVIOUS
<1> USE DEF FaultInv
<1>1. TrafficKeptApart
  BY DEF FaultType, CountType, Own, TrafficKeptApart
<1>2. ASSUME NEW p \in Probes, point[p] = "done", alone[p]
      PROVE  CASE kind[p] \in {"recovery"} \cup Simulated ->
                      Recovered(p) /\ observed[p] = 2 /\ ~PlatformTerminated(p)
               [] kind[p] = "hol" -> (Serialized(p) => serial) /\ (Telling => Serialized(p))
               [] kind[p] \in PlainHols -> ~Serialized(p)
               [] OTHER -> BoundedBy(p) = "agent" /\ observed[p] = MaxAttempts
  <2>1. Undisturbed(p) /\ Attempts(p) /\ kind[p] \in ProbeKinds /\ kind[p] \notin {"none"}
    BY <1>2 DEF FaultType, ProbeType, Undisturbed
  <2> USE DEF Simulated, PlainHols
  <2>2. CASE kind[p] \in Simulated
    BY <1>2, <2>1, <2>2 DEF Undisturbed, Recovered, PlatformTerminated, PlatformSays
  <2>3. CASE Asks(p)
    <3>1. ~Working(p)
      BY <1>2, <2>1, <2>3 DEF Undisturbed
    <3>2. /\ agent[p] = [state |-> "answered", tries |-> Needed(p), status |-> Final(p)]
          /\ counts[p] = Made(p) /\ heard[p] = Reply(p)
          /\ kind[p] = "hol" => held[p]
          /\ kind[p] # "hol" => observed[p] = counts[p]
      BY <1>2, <2>1, <2>3, <3>1 DEF Undisturbed
    <3>3. kind[p] # "hol" => observed[p] = Needed(p)
      BY <3>2 DEF Made
    <3>4. CASE kind[p] = "recovery"
      BY <3>2, <3>3, <3>4 DEF Needed, Reply, Final, Recovered, PlatformTerminated, PlatformSays
    <3>5. CASE kind[p] = "hol"
      <4>1. (Serialized(p) => serial) /\ (Telling => Serialized(p))
        BY <3>2, <3>5, BlockingIsSo
      <4> QED
        BY <3>5, <4>1
    <3>6. CASE kind[p] \in {"storm", "aliyunStorm", "awsStorm"}
      <4>1. observed[p] = 3 /\ heard[p] = "failed"
        BY <3>2, <3>3, <3>6 DEF Needed, Reply, Final, MaxAttempts, Max_retries
      <4>2. BoundedBy(p) = "agent"
        BY <3>6, <4>1 DEF BoundedBy, StormBoundedBy, AliyunStormBoundedBy, AwsStormBoundedBy,
           PlatformSays
      <4> QED
        BY <3>6, <4>1, <4>2 DEF MaxAttempts, Max_retries
    <3> QED
      BY <2>1, <2>3, <3>4, <3>5, <3>6 DEF ProbeKinds, Asks
  <2>4. CASE kind[p] \in PlainHols
    <3>1. ~held[p]
      BY <2>1, <2>4 DEF Attempts
    <3> QED
      BY <2>4, <3>1, BlockingIsSo
  <2> QED
    BY <2>1, <2>2, <2>3, <2>4 DEF Asks
<1>3. ASSUME NEW p \in Probes, point[p] = "done"
      PROVE  /\ kind[p] \in {"storm"} \cup SdkStorms =>
                   /\ BoundedBy(p) = "none" => again[p]
                   /\ BoundedBy(p) = "platform" => cut[p]
             /\ kind[p] = "recovery" =>
                   /\ PlatformTerminated(p) => cut[p]
                   /\ Recovered(p) /\ observed[p] > 1 /\ ~again[p] => <<p, p>> \in hits
  <2>1. Attempts(p) /\ counts[p] \in Nat /\ observed[p] \in Nat /\ agent[p] \in AgentType
    BY DEF FaultType, ProbeType, CountType
  <2>2. Made(p) <= 3 /\ Made(p) \in Nat
    BY <2>1 DEF Made, Attempts, Working, AgentType, MaxAttempts, Max_retries
  <2>3. PlatformSays(p) => cut[p]
    BY <2>1 DEF PlatformSays, Attempts
  <2>4. kind[p] \notin Simulated => observed[p] <= counts[p]
    BY <2>1 DEF Attempts
  <2>5. ~again[p] => counts[p] <= Made(p) /\ (counts[p] > 1 => <<p, p>> \in hits)
    BY <2>1 DEF Attempts
  <2>6. CASE kind[p] \in {"storm"} \cup SdkStorms
    <3>1. kind[p] \in {"storm", "aliyunStorm", "awsStorm"}
      BY <2>6 DEF SdkStorms
    <3>2. BoundedBy(p) = IF PlatformSays(p) THEN "platform" ELSE IF observed[p] > 3 THEN "none"
          ELSE "agent"
      BY <3>1 DEF BoundedBy, StormBoundedBy, AliyunStormBoundedBy, AwsStormBoundedBy
    <3> QED
      BY <2>1, <2>2, <2>3, <2>4, <2>5, <3>1, <3>2 DEF Simulated
  <2>7. CASE kind[p] = "recovery"
    BY <2>1, <2>3, <2>4, <2>5, <2>7 DEF Simulated, PlatformTerminated, SdkStorms
  <2> QED
    BY <2>6, <2>7
<1> QED
  BY <1>1, <1>2, <1>3 DEF FaultVerdictsHold, ExactWhenAlone, VerdictsAreEarned

\* FaultInv holds throughout, for any set of probes and any number of upsets.
THEOREM FaultProbesInvariant == DataPlaneSpec => []FaultInv
BY FaultInitial, FaultInductive, PTL DEF DataPlaneSpec

\* What a fault probe reports happened: attempts are counted per probe, a storm is bounded, a
\* recovery recovers, and an undisturbed probe reaches the verdict of its own fault
\* (`FaultVerdictsHold`).
THEOREM FaultVerdictsEarned == DataPlaneSpec => []FaultVerdictsHold
BY FaultProbesInvariant, FaultInvVerdicts, PTL

(***************************************************************************)
(* The measuring probes of the data plane (LoadProbes), for any workers,   *)
(* calls and blips. LoadInv relates what each probe has seen to the        *)
(* platform it looks at: the truth, when there was no blip, and otherwise  *)
(* what a blip cannot feign.                                               *)
(***************************************************************************)
\* What is measured, on a platform of its own.
PlaceType ==
    /\ \/ measured = [impl |-> "none", name |-> "none"]
       \/ measured \in Measurements /\ world \in Worlds(measured.name)
    /\ blips \in Nat
\* A sweep stops at the first cold wake; without a blip each wake was seen for what it was.
RetentionInv ==
    Is("probe", "retention") =>
        /\ seen \in Seq(Tiers) /\ Len(seen) <= 3
        /\ \A i \in 1 .. Len(seen) : seen[i] = "cold" => i = Len(seen)
        /\ blips = 0 => \A i \in 1 .. Len(seen) : seen[i] = ClassifyWake(IdleIntervals[i])
\* The same after the wake inside the promise, which may be cold.
HonorInv ==
    Is("probe", "honor") =>
        /\ seen \in Seq(Tiers) /\ Len(seen) <= 4
        /\ \A i \in 2 .. Len(seen) : seen[i] = "cold" => i = Len(seen)
        /\ blips = 0 => \A i \in 1 .. Len(seen) : seen[i] = ClassifyWake(HonorIdle[i])
\* A ladder stops at the first rejected rung, and only a rung over the limit is rejected.
RateInv ==
    measured.name = "rate" =>
        /\ seen \in Seq({0, 200, 429}) /\ Len(seen) <= 4
        /\ \A i \in 1 .. Len(seen) : seen[i] = 429 => i = Len(seen) /\ RateLevels[i] > world.limit
        /\ blips = 0 /\ world.header # "date" =>
              \A i \in 1 .. Len(seen) : RateLevels[i] > world.limit => seen[i] = 429
\* The same with a rejection that need not be the platform's limit.
CeilingInv ==
    measured.name = "ceiling" =>
        /\ seen \in Seq({200, 429, 503}) /\ Len(seen) <= 4
        /\ \A i \in 1 .. Len(seen) :
              /\ seen[i] # 200 => i = Len(seen)
              /\ seen[i] = 429 => world.hard /\ CeilingLevels[i] > world.limit
        /\ blips = 0 => \A i \in 1 .. Len(seen) : seen[i] # 200 <=> CeilingLevels[i] > world.limit
\* The level of the i-th burst,
Rung(i) == (i - 1) \div Reps + 1
\* and whether the burst shows it wrongly:
Outlier(i) == seen[i] # Succeeds(RanLevels[Rung(i)])
\* one blip spoils one repetition.
ScalingInv ==
    measured.name = "scaling" =>
        /\ seen \in Seq({0, 1}) /\ Len(seen) <= 9
        /\ blips = 0 => \A i \in 1 .. Len(seen) : ~Outlier(i)
        /\ blips = 1 => \A i, j \in 1 .. Len(seen) : Outlier(i) /\ Outlier(j) => i = j
\* The workers with a call in flight.
InFlight == {w \in Workers : crew[w] = "calling"}
\* Every call that was begun is in flight or counted under one outcome.
CrewInv ==
    /\ crew \in [Workers -> {"idle", "calling", "gone"}]
    /\ tally \in [CallTypes -> Nat] /\ started \in Nat
    /\ started = Errors + tally["ok"] + Cardinality(InFlight)
    /\ measured.name \in LoadJobs => \A w \in Workers \ Crew : crew[w] = "idle"
    /\ measured.name \notin LoadJobs => InFlight = {}
\* Without a blip each call of a curve took as long as the platform makes it.
CurveInv ==
    Is("probe", "curve") =>
        /\ seen \in Seq(CallKinds)
        /\ blips = 0 => \A i \in 1 .. Len(seen) : seen[i] = Latency(i = 1)
\* The ends of the polls and of each sample's tries,
Bars == {i \in 1 .. Len(seen) : seen[i] = "|"}
\* and the samples that were got.
Got == {i \in 1 .. Len(seen) : seen[i] = "warm" /\ \E j \in Bars : j < i}
\* Every first token seems to come at once, from a warm pool or from an agent that does not
\* stream.
Instant == world.prewarmed \/ ~world.stream
\* What a probe sees that nothing comes in the way of.
Script ==
    IF Instant THEN <<"warm", "|", "warm", "|", "warm", "|">>
    ELSE IF world.reuse THEN <<"cold", "warm", "|", "warm", "|", "warm", "|">>
    ELSE <<"cold", "cold", "cold", "|", "cold", "cold", "|", "cold", "cold", "|">>
\* One sample at most for each bar, one less while the tries go on; without a blip, the script.
TtftInv ==
    Is("probe", "ttft") =>
        /\ seen \in Seq(CallKinds \cup {"|"})
        /\ Bars # {} => /\ \E b \in Bars : \A j \in Bars : b <= j
                        /\ \E b \in Bars : \A j \in Bars : j <= b
        /\ Cardinality(Bars) <= 3 /\ (Cardinality(Bars) = 3 => Ended("|"))
        /\ Cardinality(Got) <= Cardinality(Bars)
        /\ ~Ended("warm") /\ Bars # {} => Cardinality(Got) < Cardinality(Bars)
        /\ blips = 0 => /\ Len(seen) <= Len(Script)
                        /\ \A i \in 1 .. Len(seen) : seen[i] = Script[i]
\* A session-level probe saw what the platform does, unless there was a blip;
CancelInv ==
    measured.name = "cancel" =>
        /\ seen \in Seq({"ok", "failed", "timeout", "refused"})
        /\ \A i \in 1 .. Len(seen) :
              /\ i \in {1, 3} => seen[i] \in {"ok", "failed"}
              /\ blips = 0 /\ i = 2 => seen[i] = (IF world.slow THEN "timeout" ELSE "ok")
              /\ blips = 0 /\ i = 3 => seen[i] = (IF world.stuck THEN "failed" ELSE "ok")
\* no blip shows a leak,
IsolationInv ==
    measured.name = "isolation" =>
        /\ seen \in Seq({"stored", "failed", "sentinel", "empty"})
        /\ \A i \in 1 .. Len(seen) :
              /\ seen[i] = "sentinel" => world.leaky
              /\ blips = 0 /\ i = 2 => seen[i] = (IF world.leaky THEN "sentinel" ELSE "empty")
\* and the first write to arrive is one of the two.
WritesInv ==
    measured.name = "writes" =>
        /\ seen \in Seq({"a", "b", "both", "failed"})
        /\ Len(seen) > 0 => seen[1] \in {"a", "b"}
        /\ Len(seen) = 2 /\ blips = 0 => seen[2] = (IF world.leaky THEN seen[1] ELSE "both")
\* The session-level probes together.
SessionInv == CancelInv /\ IsolationInv /\ WritesInv
\* The inductive invariant of the measuring probes.
LoadInv ==
    /\ PlaceType /\ RetentionInv /\ HonorInv /\ RateInv /\ CeilingInv /\ ScalingInv
    /\ CrewInv /\ CurveInv /\ TtftInv /\ SessionInv

(***************************************************************************)
(* What every measuring probe keeps.                                       *)
(***************************************************************************)
\* Whose each action is.
LEMMA WhoseAction ==
  /\ Retention \/ AliyunRetention \/ AwsRetention => measured.name = "retention"
  /\ Honor => measured.name = "honor"
  /\ ProbeRate \/ AliyunRate \/ AwsRate => measured.name = "rate"
  /\ ProbeCeiling \/ AliyunCeiling \/ AwsCeiling => measured.name = "ceiling"
  /\ ProbeScaling \/ AliyunScaling \/ AwsScaling => measured.name = "scaling"
  /\ ProbeLoad \/ AliyunLoad \/ AwsLoad => measured.name = "load"
  /\ ProbeSoak \/ AliyunSoak \/ AwsSoak => measured.name = "soak"
  /\ Curve => measured.name = "curve"
  /\ Ttft => measured.name = "ttft"
  /\ ProbeCancel \/ AliyunCancel \/ AwsCancel => measured.name = "cancel"
  /\ AliyunIsolation \/ AwsIsolation => measured.name = "isolation"
  /\ AliyunWrites \/ AwsWrites => measured.name = "writes"
<1>1. \A impl, name : Is(impl, name) => measured.name = name
  BY DEF Is
<1> QED
  BY <1>1 DEF Retention, AliyunRetention, AwsRetention, Honor, ProbeRate, AliyunRate, AwsRate,
     ProbeCeiling, AliyunCeiling, AwsCeiling, ProbeScaling, AliyunScaling, AwsScaling, ProbeLoad,
     AliyunLoad, AwsLoad, ProbeSoak, AliyunSoak, AwsSoak, Curve, Ttft, ProbeCancel, AliyunCancel,
     AwsCancel, AliyunIsolation, AwsIsolation, AliyunWrites, AwsWrites, FreshWake, RateBurst,
     CeilingBurst, ScalingBurst, Works, CallBegins, CallEnds, WorkerLeaves, CancelStep,
     IsolationStep, WritesStep

\* What every observation adds.
LEMMA SeenMore ==
  ASSUME NEW truth, NEW outcomes, Sees(truth, outcomes), blips \in Nat
  PROVE  /\ \E o \in {truth} \cup outcomes :
               seen' = Append(seen, o) /\ ((blips' = blips /\ o = truth) \/ blips' = blips + 1)
         /\ UNCHANGED <<measured, world, solo>>
BY DEF Sees, Blip

\* No action changes what is measured, nor the platform.
LEMMA LoadFrame ==
  ASSUME LoadNext, blips \in Nat
  PROVE  UNCHANGED <<measured, world>> /\ blips' \in Nat
<1>1. ASSUME NEW truth, NEW outcomes, Sees(truth, outcomes)
      PROVE  UNCHANGED <<measured, world>> /\ blips' \in Nat
  BY <1>1 DEF Sees, Blip
<1>2. ASSUME Works("probe", "load") \/ Works("aliyun", "load") \/ Works("aws", "load")
             \/ Works("probe", "soak") \/ Works("aliyun", "soak") \/ Works("aws", "soak")
             \/ Deadline
      PROVE  UNCHANGED <<measured, world>> /\ blips' \in Nat
  BY <1>2 DEF Works, CallBegins, CallEnds, WorkerLeaves, Deadline
<1>3. CASE Retention
  BY <1>1, <1>3 DEF Retention
<1>4. CASE AliyunRetention
  BY <1>1, <1>4 DEF AliyunRetention, FreshWake
<1>5. CASE AwsRetention
  BY <1>1, <1>5 DEF AwsRetention, FreshWake
<1>6. CASE Honor
  BY <1>1, <1>6 DEF Honor
<1>7. CASE ProbeRate
  BY <1>1, <1>7 DEF ProbeRate, RateBurst
<1>8. CASE AliyunRate
  BY <1>1, <1>8 DEF AliyunRate, RateBurst
<1>9. CASE AwsRate
  BY <1>1, <1>9 DEF AwsRate, RateBurst
<1>10. CASE ProbeCeiling
  BY <1>1, <1>10 DEF ProbeCeiling, CeilingBurst
<1>11. CASE AliyunCeiling
  BY <1>1, <1>11 DEF AliyunCeiling, CeilingBurst
<1>12. CASE AwsCeiling
  BY <1>1, <1>12 DEF AwsCeiling, CeilingBurst
<1>13. CASE ProbeScaling
  BY <1>1, <1>13 DEF ProbeScaling, ScalingBurst
<1>14. CASE AliyunScaling
  BY <1>1, <1>14 DEF AliyunScaling, ScalingBurst
<1>15. CASE AwsScaling
  BY <1>1, <1>15 DEF AwsScaling, ScalingBurst
<1>16. CASE Curve
  BY <1>1, <1>16 DEF Curve
<1>17. CASE Ttft
  BY <1>1, <1>17 DEF Ttft
<1>18. CASE ProbeCancel
  BY <1>1, <1>18 DEF ProbeCancel, CancelStep
<1>19. CASE AliyunCancel
  BY <1>1, <1>19 DEF AliyunCancel, CancelStep
<1>20. CASE AwsCancel
  BY <1>1, <1>20 DEF AwsCancel, CancelStep
<1>21. CASE AliyunIsolation
  BY <1>1, <1>21 DEF AliyunIsolation, IsolationStep
<1>22. CASE AwsIsolation
  BY <1>1, <1>22 DEF AwsIsolation, IsolationStep
<1>23. CASE AliyunWrites
  BY <1>1, <1>23 DEF AliyunWrites, WritesStep
<1>24. CASE AwsWrites
  BY <1>1, <1>24 DEF AwsWrites, WritesStep
<1> QED
  BY <1>2, <1>3, <1>4, <1>5, <1>6, <1>7, <1>8, <1>9, <1>10, <1>11, <1>12, <1>13, <1>14, <1>15,
     <1>16, <1>17, <1>18, <1>19, <1>20, <1>21, <1>22, <1>23, <1>24 DEF LoadNext, ProbeLoad,
     AliyunLoad, AwsLoad, ProbeSoak, AliyunSoak, AwsSoak

\* Every step keeps its platform.
LEMMA PlaceStep ==
  ASSUME PlaceType, LoadNext
  PROVE  PlaceType'
BY LoadFrame DEF PlaceType

\* The platform of an idle sweep.
LEMMA IdleWorld ==
  ASSUME PlaceType, measured.name \in {"retention", "honor"}
  PROVE  /\ world.deep \in Nat /\ world.cold \in Nat /\ world.deep <= world.cold
         /\ world.promised \in {2, 10}
<1>1. world \in Worlds(measured.name)
  BY DEF PlaceType
<1>2. CASE measured.name = "retention"
  <2> Worlds("retention") \subseteq
         {w \in [deep : Thresholds, cold : Thresholds, promised : {2, 10}] : w.deep <= w.cold}
    BY DEF Worlds, SdkOnly
  <2> QED
    BY <1>1, <1>2 DEF Thresholds
<1>3. CASE measured.name = "honor"
  <2> Worlds("honor") \subseteq
         {w \in [deep : Thresholds, cold : Thresholds, promised : {2, 10}] : w.deep <= w.cold}
    BY DEF Worlds, SdkOnly
  <2> QED
    BY <1>1, <1>3 DEF Thresholds
<1> QED
  BY <1>2, <1>3

\* Of a throttled ladder.
LEMMA RateWorld ==
  ASSUME PlaceType, measured.name = "rate"
  PROVE  world.limit \in Nat /\ world.header \in {"secs", "none", "date"}
<1>1. world \in Worlds(measured.name)
  BY DEF PlaceType
<1> QED
  BY <1>1 DEF Worlds, SdkOnly

\* Of a ladder of sessions.
LEMMA CeilingWorld ==
  ASSUME PlaceType, measured.name = "ceiling"
  PROVE  world.limit \in Nat /\ world.hard \in BOOLEAN
<1>1. world \in Worlds(measured.name)
  BY DEF PlaceType
<1> QED
  BY <1>1 DEF Worlds, SdkOnly

\* Of a ladder of load levels.
LEMMA ScalingWorld ==
  ASSUME PlaceType, measured.name = "scaling"
  PROVE  world.limit \in Nat
<1>1. world \in Worlds(measured.name)
  BY DEF PlaceType
<1> QED
  BY <1>1 DEF Worlds, SdkOnly

\* Of the curves.
LEMMA CurveWorld ==
  ASSUME PlaceType, measured.name \in {"curve", "ttft"}
  PROVE  world.prewarmed \in BOOLEAN /\ world.reuse \in BOOLEAN
<1>1. world \in Worlds(measured.name)
  BY DEF PlaceType
<1> QED
  BY <1>1 DEF Worlds, SdkOnly

\* Of the first token.
LEMMA TokenWorld ==
  ASSUME PlaceType, measured.name = "ttft"
  PROVE  Instant \in BOOLEAN /\ world.reuse \in BOOLEAN /\ world.stream \in BOOLEAN
<1>1. world \in Worlds(measured.name)
  BY DEF PlaceType
<1> QED
  BY <1>1 DEF Worlds, SdkOnly, Instant

\* Of the session-level probes.
LEMMA SessionWorld ==
  ASSUME PlaceType
  PROVE  /\ measured.name = "cancel" => world.slow \in BOOLEAN /\ world.stuck \in BOOLEAN
         /\ measured.name \in SdkOnly => world.leaky \in BOOLEAN
BY DEF PlaceType, Worlds, SdkOnly

\* The least of a set of numbers is the one below all others;
LEMMA LeastIs ==
  ASSUME NEW S \in SUBSET Nat, NEW m \in S, \A j \in S : m <= j
  PROVE  Least(S) = m
<1>1. \E i \in S : \A j \in S : i <= j
  OBVIOUS
<1>2. Least(S) \in S /\ \A j \in S : Least(S) <= j
  BY <1>1, Zenon DEF Least
<1>3. Least(S) \in Nat /\ m \in Nat /\ Least(S) <= m /\ m <= Least(S)
  BY <1>2
<1> QED
  BY <1>3

\* the greatest is the one above them.
LEMMA GreatestIs ==
  ASSUME NEW S \in SUBSET Nat, NEW m \in S, \A j \in S : j <= m
  PROVE  Greatest(S) = m
<1>1. \E i \in S : \A j \in S : j <= i
  OBVIOUS
<1>2. Greatest(S) \in S /\ \A j \in S : j <= Greatest(S)
  BY <1>1, Zenon DEF Greatest
<1>3. Greatest(S) \in Nat /\ m \in Nat /\ Greatest(S) <= m /\ m <= Greatest(S)
  BY <1>2
<1> QED
  BY <1>3

\* The first rung at or above a bound,
LEMMA FirstFromIs ==
  ASSUME NEW ivals, DOMAIN ivals \subseteq Nat, NEW bound,
         NEW m \in DOMAIN ivals, ivals[m] >= bound,
         \A i \in DOMAIN ivals : i < m => ~(ivals[i] >= bound)
  PROVE  FirstFrom(ivals, bound) = ivals[m]
<1> DEFINE S == {i \in DOMAIN ivals : ivals[i] >= bound}
<1>1. S \in SUBSET Nat /\ m \in S /\ \A j \in S : m <= j
  OBVIOUS
<1>2. Least(S) = m
  BY <1>1, LeastIs
<1> QED
  BY <1>1, <1>2 DEF FirstFrom

\* or none;
LEMMA FirstFromNone ==
  ASSUME NEW ivals, NEW bound, \A i \in DOMAIN ivals : ~(ivals[i] >= bound)
  PROVE  FirstFrom(ivals, bound) = Never
BY DEF FirstFrom

\* the last one below it,
LEMMA LastBelowIs ==
  ASSUME NEW ivals, DOMAIN ivals \subseteq Nat, NEW bound, NEW m \in DOMAIN ivals, ivals[m] < bound,
         \A i \in DOMAIN ivals : m < i => ~(ivals[i] < bound)
  PROVE  LastBelow(ivals, bound) = ivals[m]
<1> DEFINE S == {i \in DOMAIN ivals : ivals[i] < bound}
<1>1. S \in SUBSET Nat /\ m \in S /\ \A j \in S : j <= m
  OBVIOUS
<1>2. Greatest(S) = m
  BY <1>1, GreatestIs
<1> QED
  BY <1>1, <1>2 DEF LastBelow

\* or none.
LEMMA LastBelowNone ==
  ASSUME NEW ivals, NEW bound, \A i \in DOMAIN ivals : ~(ivals[i] < bound)
  PROVE  LastBelow(ivals, bound) = Never
BY DEF LastBelow

\* A sequence that is not empty has a last element.
LEMMA NotEmpty ==
  ASSUME NEW S, NEW s \in Seq(S), s # << >>
  PROVE  Len(s) \in Nat /\ Len(s) > 0
OBVIOUS

(***************************************************************************)
(* The ladders.                                                            *)
(***************************************************************************)
\* A burst of the throttling ladder keeps what is known of it.
LEMMA RateStep ==
  ASSUME PlaceType, RateInv, LoadNext
  PROVE  RateInv'
<1>1. blips \in Nat /\ UNCHANGED <<measured, world>>
  BY LoadFrame DEF PlaceType
<1>2. SUFFICES ASSUME measured.name = "rate" PROVE RateInv'
  BY <1>1 DEF RateInv
<1>3. \E impl \in Impls : RateBurst(impl)
  BY <1>2, WhoseAction DEF LoadNext, ProbeRate, AliyunRate, AwsRate, Deadline, LoadJobs, Impls
<1> DEFINE n == Len(seen)
           truth == IF RateLevels[n + 1] > world.limit THEN RawCall ELSE 200
<1>4. ~RateOver /\ Sees(truth, {0, 200})
  BY <1>3 DEF RateBurst
<1>5. PICK o \in {truth} \cup {0, 200} :
         seen' = Append(seen, o) /\ ((blips' = blips /\ o = truth) \/ blips' = blips + 1)
  BY <1>1, <1>4, SeenMore
<1>6. /\ seen \in Seq({0, 200, 429}) /\ n \in Nat /\ n < 4
      /\ \A i \in 1 .. n : seen[i] # 429
  <2>1. /\ seen \in Seq({0, 200, 429}) /\ n \in Nat /\ n <= 4
        /\ \A i \in 1 .. n : seen[i] = 429 => i = n
    BY <1>2 DEF RateInv
  <2>2. n # 4 /\ (n > 0 => seen[n] # 429)
    BY <1>4, <2>1 DEF RateOver, Ended, RateLevels
  <2> HIDE DEF n
  <2> QED
    BY <2>1, <2>2
<1>7. RateLevels[n + 1] \in Nat /\ world.limit \in Nat
  BY <1>2, <1>6, RateWorld DEF RateLevels
<1>8. /\ o \in {0, 200, 429} /\ (o = 429 => RateLevels[n + 1] > world.limit)
      /\ blips' = 0 /\ world.header # "date" => (RateLevels[n + 1] > world.limit => o = 429)
  BY <1>1, <1>5, <1>7 DEF RawCall
<1> HIDE DEF truth
<1>9. /\ seen' \in Seq({0, 200, 429}) /\ Len(seen') = n + 1 /\ seen'[n + 1] = o
      /\ \A i \in 1 .. n : seen'[i] = seen[i]
  BY <1>5, <1>6, <1>8
<1>10. blips' = 0 => blips = 0
  BY <1>1, <1>5
<1>11. /\ seen \in Seq({0, 200, 429}) /\ Len(seen) <= 4
       /\ \A i \in 1 .. Len(seen) : seen[i] = 429 => i = Len(seen) /\ RateLevels[i] > world.limit
       /\ blips = 0 /\ world.header # "date" =>
             \A i \in 1 .. Len(seen) : RateLevels[i] > world.limit => seen[i] = 429
  BY <1>2 DEF RateInv
<1> QED
  BY <1>1, <1>6, <1>8, <1>9, <1>10, <1>11 DEF RateInv

\* The onset of throttling is the lowest rung over the limit.
LEMMA RateHolds ==
  ASSUME PlaceType, RateInv, measured.name = "rate", RateOver
  PROVE  /\ RateVerdict.onset # 0 => RateVerdict.onset > world.limit
         /\ blips = 0 /\ world.header # "date" =>
               Onset = (LET f == FirstFrom(RateLevels, world.limit + 1)
                        IN  IF f = Never THEN 0 ELSE f)
<1> DEFINE n == Len(seen)
           S == {i \in DOMAIN seen : seen[i] = 429}
<1>1. /\ seen \in Seq({0, 200, 429}) /\ n \in Nat /\ n <= 4 /\ DOMAIN seen = 1 .. n
      /\ \A i \in 1 .. n : seen[i] = 429 => i = n /\ RateLevels[i] > world.limit
      /\ blips = 0 /\ world.header # "date" =>
            \A i \in 1 .. n : RateLevels[i] > world.limit => seen[i] = 429
  BY DEF RateInv
<1>2. DOMAIN RateLevels = 1 .. 4 /\ \A i \in 1 .. 4 : RateLevels[i] \in 1 .. 80
  BY DEF RateLevels
<1>3. world.limit \in Nat
  BY RateWorld
<1>4. Onset = IF S = {} THEN 0 ELSE RateLevels[Least(S)]
  BY DEF Onset, Where
<1>a. S = {i \in 1 .. n : seen[i] = 429}
  BY <1>1
<1>b. n = 4 \/ (n > 0 /\ seen[n] = 429)
  <2>1. n = 4 \/ (seen # << >> /\ seen[n] = 429)
    BY <1>1 DEF RateOver, Ended, RateLevels
  <2>2. seen # << >> => n > 0
    BY <1>1, NotEmpty
  <2> HIDE DEF n
  <2> QED
    BY <1>1, <2>1, <2>2
<1> HIDE DEF n, S
<1>5. CASE S = {}
  <2>1. n = 4 /\ Onset = 0
    BY <1>1, <1>4, <1>5, <1>a, <1>b
  <2>2. ASSUME blips = 0, world.header # "date" PROVE FirstFrom(RateLevels, world.limit + 1) = Never
    <3>1. ASSUME NEW i \in 1 .. 4 PROVE ~(RateLevels[i] >= world.limit + 1)
      <4>1. ~(RateLevels[i] > world.limit)
        BY <1>1, <1>5, <1>a, <2>1, <2>2
      <4> QED
        BY <1>2, <1>3, <4>1
    <3> QED
      BY <1>2, <3>1, FirstFromNone
  <2> QED
    BY <2>1, <2>2 DEF RateVerdict
<1>6. CASE S # {}
  <2>1. n \in S /\ S \in SUBSET Nat /\ \A j \in S : n <= j
    BY <1>1, <1>6, <1>a
  <2>2. Onset = RateLevels[n] /\ n \in 1 .. 4 /\ RateLevels[n] > world.limit
    BY <1>1, <1>4, <1>6, <1>a, <2>1, LeastIs
  <2>3. ASSUME blips = 0, world.header # "date"
        PROVE  FirstFrom(RateLevels, world.limit + 1) = RateLevels[n]
    <3>1. ASSUME NEW i \in DOMAIN RateLevels, i < n PROVE ~(RateLevels[i] >= world.limit + 1)
      <4>1. ~(RateLevels[i] > world.limit)
        <5>1. i \in 1 .. n /\ i # n
          BY <1>2, <2>2, <3>1
        <5> QED
          BY <1>1, <2>3, <5>1
      <4> QED
        BY <1>2, <1>3, <4>1
    <3>2. RateLevels[n] >= world.limit + 1
      BY <1>2, <1>3, <2>2
    <3> QED
      <4>1. DOMAIN RateLevels \subseteq Nat /\ n \in DOMAIN RateLevels
        BY <1>2, <2>2
      <4> QED
        BY <3>1, <3>2, <4>1, FirstFromIs
  <2> QED
    BY <1>2, <2>2, <2>3 DEF RateVerdict, Never
<1> QED
  BY <1>5, <1>6

\* A burst of the ladder of sessions keeps what is known of it.
LEMMA CeilingStep ==
  ASSUME PlaceType, CeilingInv, LoadNext
  PROVE  CeilingInv'
<1>1. blips \in Nat /\ UNCHANGED <<measured, world>>
  BY LoadFrame DEF PlaceType
<1>2. SUFFICES ASSUME measured.name = "ceiling" PROVE CeilingInv'
  BY <1>1 DEF CeilingInv
<1>3. \E impl \in Impls : CeilingBurst(impl)
  BY <1>2, WhoseAction
     DEF LoadNext, ProbeCeiling, AliyunCeiling, AwsCeiling, Deadline, LoadJobs, Impls
<1> DEFINE n == Len(seen)
           truth == IF CeilingLevels[n + 1] > world.limit
                    THEN IF world.hard THEN 429 ELSE 503 ELSE 200
<1>4. ~CeilingOver /\ Sees(truth, {200, 503})
  BY <1>3 DEF CeilingBurst
<1>5. PICK o \in {truth} \cup {200, 503} :
         seen' = Append(seen, o) /\ ((blips' = blips /\ o = truth) \/ blips' = blips + 1)
  BY <1>1, <1>4, SeenMore
<1>6. /\ seen \in Seq({200, 429, 503}) /\ n \in Nat /\ n < 4
      /\ \A i \in 1 .. n : seen[i] = 200
  <2>1. /\ seen \in Seq({200, 429, 503}) /\ n \in Nat /\ n <= 4
        /\ \A i \in 1 .. n : seen[i] \in {200, 429, 503} /\ (seen[i] # 200 => i = n)
    BY <1>2 DEF CeilingInv
  <2>2. n # 4 /\ (n > 0 => seen[n] # 429 /\ seen[n] # 503)
    BY <1>4, <2>1 DEF CeilingOver, Ended, CeilingLevels
  <2> HIDE DEF n
  <2> QED
    BY <2>1, <2>2
<1>7. CeilingLevels[n + 1] \in Nat /\ world.limit \in Nat /\ world.hard \in BOOLEAN
  BY <1>2, <1>6, CeilingWorld DEF CeilingLevels
<1>8. /\ o \in {200, 429, 503} /\ (o = 429 => world.hard /\ CeilingLevels[n + 1] > world.limit)
      /\ blips' = 0 => (o # 200 <=> CeilingLevels[n + 1] > world.limit)
  BY <1>1, <1>5, <1>7
<1> HIDE DEF truth
<1>9. /\ seen' \in Seq({200, 429, 503}) /\ Len(seen') = n + 1 /\ seen'[n + 1] = o
      /\ \A i \in 1 .. n : seen'[i] = seen[i]
  BY <1>5, <1>6, <1>8
<1>10. blips' = 0 => blips = 0
  BY <1>1, <1>5
<1>11. blips = 0 => \A i \in 1 .. n : seen[i] # 200 <=> CeilingLevels[i] > world.limit
  BY <1>2 DEF CeilingInv
<1> QED
  BY <1>1, <1>6, <1>8, <1>9, <1>10, <1>11 DEF CeilingInv

\* The ceiling is the first rung over the limit.
LEMMA CeilingHolds ==
  ASSUME PlaceType, CeilingInv, measured.name = "ceiling", CeilingOver
  PROVE  /\ CeilingVerdict.hardLimit => world.hard /\ CeilingVerdict.maxInFlight > world.limit
         /\ blips = 0 =>
               CeilingVerdict.maxInFlight =
                   (LET f == FirstFrom(CeilingLevels, world.limit + 1)
                    IN  IF f = Never THEN 500 ELSE f)
<1> DEFINE n == Len(seen)
<1>1. /\ seen \in Seq({200, 429, 503}) /\ n \in Nat /\ n <= 4
      /\ \A i \in 1 .. n : seen[i] # 200 => i = n
      /\ \A i \in 1 .. n : seen[i] = 429 => world.hard /\ CeilingLevels[i] > world.limit
      /\ blips = 0 => \A i \in 1 .. n : seen[i] # 200 <=> CeilingLevels[i] > world.limit
  BY DEF CeilingInv
<1>2. /\ DOMAIN CeilingLevels = 1 .. 4 /\ CeilingLevels[4] = 500
      /\ \A i \in 1 .. 4 : CeilingLevels[i] \in 1 .. 500
  BY DEF CeilingLevels
<1>3. world.limit \in Nat
  BY CeilingWorld
<1>4. n \in 1 .. 4 /\ (n = 4 \/ seen[n] # 200)
  <2>1. n = 4 \/ (seen # << >> /\ seen[n] \in {429, 503})
    BY <1>1 DEF CeilingOver, Ended, CeilingLevels
  <2>2. seen # << >> => n > 0
    BY <1>1, NotEmpty
  <2> HIDE DEF n
  <2> QED
    BY <1>1, <2>1, <2>2
<1>5. CeilingVerdict.maxInFlight = CeilingLevels[n] /\ (CeilingVerdict.hardLimit => seen[n] = 429)
  BY <1>1 DEF CeilingVerdict, Ended
<1> HIDE DEF n
<1>6. ASSUME blips = 0
      PROVE  CeilingLevels[n] =
                 (LET f == FirstFrom(CeilingLevels, world.limit + 1)
                    IN  IF f = Never THEN 500 ELSE f)
  <2>0. ASSUME NEW i \in DOMAIN CeilingLevels, i < n PROVE ~(CeilingLevels[i] >= world.limit + 1)
    <3>1. i \in 1 .. n /\ i # n
      BY <1>2, <1>4, <2>0
    <3>2. seen[i] = 200
      <4>1. \A j \in 1 .. n : seen[j] # 200 => j = n
        BY <1>1
      <4> QED
        BY <3>1, <4>1
    <3>3. seen[i] # 200 <=> CeilingLevels[i] > world.limit
      BY <1>1, <1>6, <3>1
    <3> QED
      BY <1>2, <1>3, <3>2, <3>3
  <2>1. CASE seen[n] # 200
    <3>0. CeilingLevels[n] > world.limit
      BY <1>1, <1>4, <1>6, <2>1
    <3>1. CeilingLevels[n] >= world.limit + 1
      BY <1>2, <1>3, <1>4, <3>0
    <3>2. FirstFrom(CeilingLevels, world.limit + 1) = CeilingLevels[n]
      <4>1. DOMAIN CeilingLevels \subseteq Nat /\ n \in DOMAIN CeilingLevels
        BY <1>2, <1>4
      <4> QED
        BY <2>0, <3>1, <4>1, FirstFromIs
    <3> QED
      BY <1>2, <1>4, <3>2 DEF Never
  <2>2. CASE seen[n] = 200
    <3>1. n = 4 /\ \A i \in DOMAIN CeilingLevels : ~(CeilingLevels[i] >= world.limit + 1)
      BY <1>1, <1>2, <1>3, <1>4, <1>6, <2>0, <2>2
    <3>2. FirstFrom(CeilingLevels, world.limit + 1) = Never
      BY <3>1, FirstFromNone
    <3> QED
      BY <1>2, <3>1, <3>2
  <2> QED
    BY <2>1, <2>2
<1> QED
  BY <1>1, <1>4, <1>5, <1>6

(***************************************************************************)
(* The idle sweeps.                                                        *)
(***************************************************************************)
\* A wake of the retention sweep keeps what is known of it.
LEMMA RetentionStep ==
  ASSUME PlaceType, RetentionInv, LoadNext
  PROVE  RetentionInv'
<1>1. blips \in Nat /\ UNCHANGED <<measured, world>>
  BY LoadFrame DEF PlaceType
<1>2. SUFFICES ASSUME Is("probe", "retention") PROVE RetentionInv'
  BY <1>1 DEF RetentionInv, Is
<1> DEFINE n == Len(seen)
           truth == ClassifyWake(IdleIntervals[n + 1])
<1>3. ~RetentionOver /\ Sees(truth, Tiers)
  BY <1>2, WhoseAction
     DEF LoadNext, Retention, Deadline, LoadJobs, Is, AliyunRetention, AwsRetention, FreshWake
<1>4. truth \in Tiers
  BY DEF ClassifyWake, Tiers
<1>5. PICK o \in Tiers :
         seen' = Append(seen, o) /\ ((blips' = blips /\ o = truth) \/ blips' = blips + 1)
  BY <1>1, <1>3, <1>4, SeenMore
<1>6. /\ seen \in Seq(Tiers) /\ n \in Nat /\ n < 3
      /\ \A i \in 1 .. n : seen[i] # "cold"
      /\ blips = 0 => \A i \in 1 .. n : seen[i] = ClassifyWake(IdleIntervals[i])
  <2>1. /\ seen \in Seq(Tiers) /\ n \in Nat /\ n <= 3
        /\ \A i \in 1 .. n : seen[i] = "cold" => i = n
    BY <1>2 DEF RetentionInv
  <2>2. blips = 0 => \A i \in 1 .. n : seen[i] = ClassifyWake(IdleIntervals[i])
    BY <1>2 DEF RetentionInv
  <2>3. n # 3 /\ (n > 0 => seen[n] # "cold")
    BY <1>3, <2>1 DEF RetentionOver, Ended, IdleIntervals
  <2> HIDE DEF n
  <2> QED
    BY <2>1, <2>2, <2>3
<1>7. /\ seen' \in Seq(Tiers) /\ Len(seen') = n + 1 /\ seen'[n + 1] = o
      /\ \A i \in 1 .. n : seen'[i] = seen[i]
  BY <1>5, <1>6
<1>8. \A idle : ClassifyWake(idle)' = ClassifyWake(idle)
  BY <1>1 DEF ClassifyWake
<1>9. (IdleIntervals)' = IdleIntervals
  BY <1>1 DEF IdleIntervals
<1>10. blips' = 0 => blips = 0 /\ o = truth
  BY <1>1, <1>5
<1> DEFINE m == n + 1
<1>11. \A i \in 1 .. m : i \in 1 .. n \/ i = m
  BY <1>6
<1> HIDE DEF n
<1>12. \A i \in 1 .. m : seen'[i] = "cold" => i = m
  BY <1>6, <1>7, <1>11
<1>13. blips' = 0 => \A i \in 1 .. m : seen'[i] = ClassifyWake(IdleIntervals[i])
  BY <1>6, <1>7, <1>10, <1>11
<1>14. blips' = 0 => \A i \in 1 .. m : seen'[i] = (ClassifyWake(IdleIntervals[i]))'
  BY <1>1, <1>13 DEF ClassifyWake, IdleIntervals
<1>15. m <= 3
  BY <1>6
<1> QED
  BY <1>7, <1>12, <1>14, <1>15 DEF RetentionInv

\* A wake of the promise's sweep does.
LEMMA HonorStep ==
  ASSUME PlaceType, HonorInv, LoadNext
  PROVE  HonorInv'
<1>1. blips \in Nat /\ UNCHANGED <<measured, world>>
  BY LoadFrame DEF PlaceType
<1>2. SUFFICES ASSUME Is("probe", "honor") PROVE HonorInv'
  BY <1>1 DEF HonorInv, Is
<1> DEFINE n == Len(seen)
           truth == ClassifyWake(HonorIdle[n + 1])
<1>3. ~HonorOver /\ Sees(truth, Tiers)
  BY <1>2, WhoseAction
     DEF LoadNext, Honor, Deadline, LoadJobs, Is, AliyunRetention, AwsRetention, FreshWake
<1>4. truth \in Tiers
  BY DEF ClassifyWake, Tiers
<1>5. PICK o \in Tiers :
         seen' = Append(seen, o) /\ ((blips' = blips /\ o = truth) \/ blips' = blips + 1)
  BY <1>1, <1>3, <1>4, SeenMore
<1>6. /\ seen \in Seq(Tiers) /\ n \in Nat /\ n < 4
      /\ \A i \in 2 .. n : seen[i] # "cold"
      /\ blips = 0 => \A i \in 1 .. n : seen[i] = ClassifyWake(HonorIdle[i])
  <2>1. /\ seen \in Seq(Tiers) /\ n \in Nat /\ n <= 4
        /\ \A i \in 2 .. n : seen[i] = "cold" => i = n
    BY <1>2 DEF HonorInv
  <2>2. blips = 0 => \A i \in 1 .. n : seen[i] = ClassifyWake(HonorIdle[i])
    BY <1>2 DEF HonorInv
  <2>3. n # 4 /\ (n > 1 => seen[n] # "cold")
    BY <1>3, <2>1 DEF HonorOver, Ended, HonorIdle, PromiseIdle, DecayIntervals
  <2> HIDE DEF n
  <2> QED
    BY <2>1, <2>2, <2>3
<1>7. /\ seen' \in Seq(Tiers) /\ Len(seen') = n + 1 /\ seen'[n + 1] = o
      /\ \A i \in 1 .. n : seen'[i] = seen[i]
  BY <1>5, <1>6
<1>8. \A idle : ClassifyWake(idle)' = ClassifyWake(idle)
  BY <1>1 DEF ClassifyWake
<1>9. (HonorIdle)' = HonorIdle
  BY <1>1 DEF HonorIdle, PromiseIdle, DecayIntervals
<1>10. blips' = 0 => blips = 0 /\ o = truth
  BY <1>1, <1>5
<1> DEFINE m == n + 1
<1>11. \A i \in 1 .. m : i \in 1 .. n \/ i = m
  BY <1>6
<1> HIDE DEF n
<1>12. \A i \in 2 .. m : seen'[i] = "cold" => i = m
  BY <1>6, <1>7, <1>11
<1>13. blips' = 0 => \A i \in 1 .. m : seen'[i] = ClassifyWake(HonorIdle[i])
  BY <1>6, <1>7, <1>10, <1>11
<1>14. blips' = 0 => \A i \in 1 .. m : seen'[i] = (ClassifyWake(HonorIdle[i]))'
  BY <1>1, <1>13 DEF ClassifyWake, HonorIdle, PromiseIdle, DecayIntervals
<1>15. m <= 4
  BY <1>6
<1> QED
  BY <1>7, <1>12, <1>14, <1>15 DEF HonorInv

\* A few numbers have a least and a greatest one.
LEMMA FewHaveBounds ==
  ASSUME NEW S \in SUBSET (1 .. 4), S # {}
  PROVE  /\ Least(S) \in S /\ \A j \in S : Least(S) <= j
         /\ Greatest(S) \in S /\ \A j \in S : j <= Greatest(S)
<1>0. \A i \in S : i = 1 \/ i = 2 \/ i = 3 \/ i = 4
  OBVIOUS
<1>1. \E m \in S : \A j \in S : m <= j
  <2>1. CASE 1 \in S
    BY <1>0, <2>1
  <2>2. CASE 1 \notin S /\ 2 \in S
    BY <1>0, <2>2
  <2>3. CASE 1 \notin S /\ 2 \notin S /\ 3 \in S
    BY <1>0, <2>3
  <2>4. CASE 1 \notin S /\ 2 \notin S /\ 3 \notin S
    <3>1. 4 \in S /\ \A j \in S : j = 4
      BY <1>0, <2>4
    <3> QED
      BY <3>1
  <2> QED
    BY <2>1, <2>2, <2>3, <2>4
<1>2. \E m \in S : \A j \in S : j <= m
  <2>1. CASE 4 \in S
    BY <1>0, <2>1
  <2>2. CASE 4 \notin S /\ 3 \in S
    BY <1>0, <2>2
  <2>3. CASE 4 \notin S /\ 3 \notin S /\ 2 \in S
    BY <1>0, <2>3
  <2>4. CASE 4 \notin S /\ 3 \notin S /\ 2 \notin S
    <3>1. 1 \in S /\ \A j \in S : j = 1
      BY <1>0, <2>4
    <3> QED
      BY <3>1
  <2> QED
    BY <2>1, <2>2, <2>3, <2>4
<1>3. Least(S) \in S /\ \A j \in S : Least(S) <= j
  BY <1>1, Zenon DEF Least
<1>4. Greatest(S) \in S /\ \A j \in S : j <= Greatest(S)
  BY <1>2, Zenon DEF Greatest
<1> QED
  BY <1>3, <1>4

\* The tier of a wake, read backwards.
LEMMA TierMeans ==
  ASSUME NEW idle \in Nat, world.deep \in Nat, world.cold \in Nat, world.deep <= world.cold
  PROVE  /\ ClassifyWake(idle) \in Tiers
         /\ ClassifyWake(idle) = "shallow" <=> idle < world.deep
         /\ ClassifyWake(idle) = "cold" <=> idle >= world.cold
         /\ ClassifyWake(idle) = "deep" => world.deep <= idle /\ idle < world.cold
BY DEF ClassifyWake, Tiers

\* The retention sweep brackets the platform's thresholds.
LEMMA RetentionHolds ==
  ASSUME PlaceType, RetentionInv, Is("probe", "retention"), RetentionOver
  PROVE  /\ RetentionVerdict.capped <=> RetentionVerdict.coldRecycle = Never
         /\ blips = 0 =>
              /\ RetentionVerdict.shallow = LastBelow(IdleIntervals, world.deep)
              /\ RetentionVerdict.coldRecycle = FirstFrom(IdleIntervals, world.cold)
              /\ RetentionVerdict.deepOnset # Never =>
                   /\ world.deep <= RetentionVerdict.deepOnset
                   /\ RetentionVerdict.deepOnset < world.cold
<1> DEFINE n == Len(seen)
           SeenAs(tier) == {i \in DOMAIN seen : seen[i] = tier}
           v == RetentionVerdict
<1>1. /\ seen \in Seq(Tiers) /\ n \in Nat /\ n <= 3 /\ DOMAIN seen = 1 .. n
      /\ \A i \in 1 .. n : seen[i] = "cold" => i = n
  BY DEF RetentionInv
<1>2. blips = 0 => \A i \in 1 .. n : seen[i] = ClassifyWake(IdleIntervals[i])
  BY DEF RetentionInv
<1>3. /\ DOMAIN IdleIntervals = 1 .. 3
      /\ \A i \in 1 .. 3 : IdleIntervals[i] \in Nat /\ IdleIntervals[i] # Never
  BY DEF IdleIntervals, Never
<1>3b. \A i, j \in 1 .. 3 : i <= j => IdleIntervals[i] <= IdleIntervals[j]
  BY DEF IdleIntervals
<1>4. world.deep \in Nat /\ world.cold \in Nat /\ world.deep <= world.cold
  BY IdleWorld DEF Is
<1>5. /\ v.shallow =
            IF SeenAs("shallow") = {} THEN Never ELSE IdleIntervals[Greatest(SeenAs("shallow"))]
      /\ v.deepOnset = IF SeenAs("deep") = {} THEN Never ELSE IdleIntervals[Least(SeenAs("deep"))]
      /\ v.coldRecycle = IF SeenAs("cold") = {} THEN Never ELSE IdleIntervals[Least(SeenAs("cold"))]
      /\ v.capped <=> Len(seen) = Len(IdleIntervals) /\ ~Ended("cold")
  BY DEF RetentionVerdict, IdleOf, Where
<1>6. \A tier : SeenAs(tier) = {i \in 1 .. n : seen[i] = tier}
  BY <1>1
<1>7. Len(IdleIntervals) = 3
  BY DEF IdleIntervals
<1>7a. seen # << >> => n > 0
  BY <1>1, NotEmpty
<1>7b. n > 0 => seen # << >>
  OBVIOUS
<1>7c. Ended("cold") <=> n > 0 /\ seen[n] = "cold"
  <2> HIDE DEF n
  <2> QED
    BY <1>7a, <1>7b DEF Ended, n
<1>8. n = 3 \/ Ended("cold")
  BY <1>7 DEF RetentionOver
<1>8a. v.capped <=> n = 3 /\ ~Ended("cold")
  BY <1>5, <1>7
<1> HIDE DEF n, SeenAs, v
<1>9. \A tier : SeenAs(tier) \in SUBSET (1 .. 4) /\ SeenAs(tier) \subseteq 1 .. n
  BY <1>1, <1>6
\* The recycle.
<1>10. ASSUME Ended("cold")
       PROVE  /\ v.capped <=> v.coldRecycle = Never
              /\ blips = 0 => v.coldRecycle = FirstFrom(IdleIntervals, world.cold)
              /\ blips = 0 => \A i \in 1 .. 3 : i \notin 1 .. n => ~(IdleIntervals[i] < world.deep)
  <2>1. n \in 1 .. 3 /\ seen[n] = "cold"
    BY <1>1, <1>7c, <1>10
  <2>2. n \in SeenAs("cold") /\ (\A j \in SeenAs("cold") : n <= j) /\ SeenAs("cold") \in SUBSET Nat
    BY <1>1, <1>6, <2>1
  <2>3. v.coldRecycle = IdleIntervals[n]
    BY <1>5, <2>2, LeastIs
  <2>4. ~v.capped /\ v.coldRecycle # Never
    BY <1>3, <1>8a, <1>10, <2>1, <2>3
  <2>5. ASSUME blips = 0 PROVE FirstFrom(IdleIntervals, world.cold) = IdleIntervals[n]
    <3>1. IdleIntervals[n] >= world.cold
      BY <1>2, <1>3, <1>4, <2>1, <2>5, TierMeans
    <3>2. ASSUME NEW i \in DOMAIN IdleIntervals, i < n PROVE ~(IdleIntervals[i] >= world.cold)
      <4>1. i \in 1 .. n /\ i # n /\ i \in 1 .. 3
        BY <1>3, <2>1, <3>2
      <4>2. ClassifyWake(IdleIntervals[i]) # "cold"
        BY <1>1, <1>2, <2>5, <4>1
      <4> QED
        BY <1>3, <1>4, <4>1, <4>2, TierMeans
    <3>3. DOMAIN IdleIntervals \subseteq Nat /\ n \in DOMAIN IdleIntervals
      BY <1>3, <2>1
    <3> QED
      BY <3>1, <3>2, <3>3, FirstFromIs
  <2>6. ASSUME blips = 0, NEW i \in 1 .. 3, i \notin 1 .. n PROVE ~(IdleIntervals[i] < world.deep)
    <3>1. IdleIntervals[n] >= world.cold
      BY <1>2, <1>3, <1>4, <2>1, <2>6, TierMeans
    <3>2. IdleIntervals[n] <= IdleIntervals[i]
      BY <1>3b, <2>1, <2>6
    <3> QED
      BY <1>3, <1>4, <2>1, <3>1, <3>2
  <2> QED
    BY <2>3, <2>4, <2>5, <2>6
<1>11. ASSUME ~Ended("cold")
       PROVE  /\ v.capped <=> v.coldRecycle = Never
              /\ blips = 0 => v.coldRecycle = FirstFrom(IdleIntervals, world.cold)
              /\ blips = 0 => \A i \in 1 .. 3 : i \notin 1 .. n => ~(IdleIntervals[i] < world.deep)
  <2>1. n = 3 /\ seen[n] # "cold"
    BY <1>7c, <1>8, <1>11
  <2>2. \A i \in 1 .. 3 : seen[i] # "cold"
    BY <1>1, <2>1
  <2>3. SeenAs("cold") = {}
    BY <1>6, <2>1, <2>2
  <2>4. v.coldRecycle = Never /\ v.capped
    BY <1>5, <1>8a, <1>11, <2>1, <2>3
  <2>5. ASSUME blips = 0 PROVE FirstFrom(IdleIntervals, world.cold) = Never
    <3>1. ASSUME NEW i \in DOMAIN IdleIntervals PROVE ~(IdleIntervals[i] >= world.cold)
      <4>1. ClassifyWake(IdleIntervals[i]) # "cold" /\ IdleIntervals[i] \in Nat
        BY <1>2, <1>3, <2>1, <2>2, <2>5
      <4> QED
        BY <1>4, <4>1, TierMeans
    <3> QED
      BY <3>1, FirstFromNone
  <2> QED
    BY <2>1, <2>4, <2>5
<1>12. ASSUME blips = 0 PROVE v.coldRecycle = FirstFrom(IdleIntervals, world.cold)
  BY <1>10, <1>11, <1>12, Zenon
<1>13. v.capped <=> v.coldRecycle = Never
  BY <1>10, <1>11
<1>14. ASSUME blips = 0, NEW i \in 1 .. 3, i \notin 1 .. n PROVE ~(IdleIntervals[i] < world.deep)
  BY <1>10, <1>11, <1>14
\* The two tiers above it.
<1>15. ASSUME blips = 0, NEW i \in 1 .. n
       PROVE  /\ i \in 1 .. 3 /\ (seen[i] = "shallow" <=> IdleIntervals[i] < world.deep)
              /\ seen[i] = "deep" => world.deep <= IdleIntervals[i] /\ IdleIntervals[i] < world.cold
  <2>1. i \in 1 .. 3 /\ seen[i] = ClassifyWake(IdleIntervals[i])
    BY <1>1, <1>2, <1>15
  <2> QED
    BY <1>3, <1>4, <2>1, TierMeans
<1>16. ASSUME blips = 0 PROVE v.shallow = LastBelow(IdleIntervals, world.deep)
  <2>1. CASE SeenAs("shallow") = {}
    <3>1. ASSUME NEW i \in DOMAIN IdleIntervals PROVE ~(IdleIntervals[i] < world.deep)
      BY <1>3, <1>6, <1>14, <1>15, <1>16, <2>1
    <3> QED
      BY <1>5, <2>1, <3>1, LastBelowNone
  <2>2. CASE SeenAs("shallow") # {}
    <3> DEFINE g == Greatest(SeenAs("shallow"))
    <3>1. g \in SeenAs("shallow") /\ \A j \in SeenAs("shallow") : j <= g
      BY <1>9, <2>2, FewHaveBounds
    <3> HIDE DEF g
    <3>2. g \in 1 .. n /\ seen[g] = "shallow"
      BY <1>6, <3>1
    <3>3. g \in 1 .. 3 /\ IdleIntervals[g] < world.deep
      BY <1>15, <1>16, <3>2
    <3>4. ASSUME NEW i \in DOMAIN IdleIntervals, g < i PROVE ~(IdleIntervals[i] < world.deep)
      <4>1. i \in 1 .. 3 /\ i \notin SeenAs("shallow")
        BY <1>3, <3>1, <3>3, <3>4
      <4>2. i \in 1 .. n => seen[i] # "shallow"
        BY <1>6, <4>1
      <4> QED
        BY <1>14, <1>15, <1>16, <4>1, <4>2
    <3>5. DOMAIN IdleIntervals \subseteq Nat /\ g \in DOMAIN IdleIntervals
      BY <1>3, <3>3
    <3>6. LastBelow(IdleIntervals, world.deep) = IdleIntervals[g]
      BY <3>3, <3>4, <3>5, LastBelowIs
    <3> QED
      BY <1>5, <2>2, <3>6 DEF g
  <2> QED
    BY <2>1, <2>2
<1>17. ASSUME blips = 0, v.deepOnset # Never
       PROVE  world.deep <= v.deepOnset /\ v.deepOnset < world.cold
  <2>1. SeenAs("deep") # {} /\ v.deepOnset = IdleIntervals[Least(SeenAs("deep"))]
    BY <1>5, <1>17
  <2>2. Least(SeenAs("deep")) \in SeenAs("deep")
    BY <1>9, <2>1, FewHaveBounds
  <2>3. Least(SeenAs("deep")) \in 1 .. n /\ seen[Least(SeenAs("deep"))] = "deep"
    BY <1>6, <2>2
  <2> QED
    BY <1>15, <1>17, <2>1, <2>3
<1> QED
  BY <1>12, <1>13, <1>16, <1>17 DEF v

\* Only a platform that breaks its promise is accused.
LEMMA HonorHolds ==
  ASSUME PlaceType, HonorInv, Is("probe", "honor"), HonorOver
  PROVE  /\ HonorVerdict.capped <=> HonorVerdict.coldOnset = Never
         /\ blips = 0 =>
              /\ HonorVerdict.coldOnset = FirstFrom(DecayIntervals, world.cold)
              /\ world.promised > 2 /\ ~HonorVerdict.honored => world.deep < world.promised
              /\ world.promised > 2 /\ world.deep >= world.promised => HonorVerdict.honored
<1> DEFINE n == Len(seen)
           S == {i \in DOMAIN seen : i > 1 /\ seen[i] = "cold"}
           v == HonorVerdict
<1>1. /\ seen \in Seq(Tiers) /\ n \in Nat /\ n <= 4 /\ DOMAIN seen = 1 .. n
      /\ \A i \in 2 .. n : seen[i] = "cold" => i = n
  BY DEF HonorInv
<1>2. blips = 0 => \A i \in 1 .. n : seen[i] = ClassifyWake(HonorIdle[i])
  BY DEF HonorInv
<1>3. /\ DOMAIN DecayIntervals = 1 .. 3
      /\ \A i \in 1 .. 3 : DecayIntervals[i] \in Nat /\ DecayIntervals[i] # Never
  BY DEF DecayIntervals, Never
<1>4. /\ world.deep \in Nat /\ world.cold \in Nat /\ world.deep <= world.cold
      /\ world.promised \in {2, 10}
  BY IdleWorld DEF Is
<1>5. PromiseIdle = IF world.promised = 2 THEN 2 ELSE 8
  BY <1>4 DEF PromiseIdle, Maximum
<1>6. HonorIdle[1] = PromiseIdle /\ Len(HonorIdle) = 4
  BY <1>5 DEF HonorIdle, DecayIntervals
<1>6a. \A i \in 2 .. 4 : HonorIdle[i] = DecayIntervals[i - 1]
  BY <1>5 DEF HonorIdle, DecayIntervals
<1>7. /\ v.honored <=> seen[1] = "shallow"
      /\ v.coldOnset = IF S = {} THEN Never ELSE HonorIdle[Least(S)]
      /\ v.capped <=> n = 4 /\ ~Ended("cold")
  BY <1>6 DEF HonorVerdict, Decay
<1>8. S = {i \in 2 .. n : seen[i] = "cold"}
  <2>1. n \in Nat /\ DOMAIN seen = 1 .. n
    BY <1>1
  <2>3. S = {i \in 1 .. n : i > 1 /\ seen[i] = "cold"}
    BY <2>1
  <2> HIDE DEF n, S
  <2>2. \A i : i \in 1 .. n /\ i > 1 <=> i \in 2 .. n
    BY <2>1
  <2>4. \A i : i \in S <=> i \in 2 .. n /\ seen[i] = "cold"
    BY <2>2, <2>3
  <2> QED
    BY <2>4, Zenon
<1>9a. seen # << >> => n > 0
  BY <1>1, NotEmpty
<1>9b. n > 0 => seen # << >>
  OBVIOUS
<1>9. Ended("cold") <=> n > 0 /\ seen[n] = "cold"
  <2> HIDE DEF n
  <2> QED
    BY <1>9a, <1>9b DEF Ended, n
<1>10. n \in 2 .. 4 /\ (n = 4 \/ seen[n] = "cold")
  <2>1. n = 4 \/ (n > 1 /\ Ended("cold"))
    BY <1>6 DEF HonorOver
  <2> HIDE DEF n
  <2> QED
    BY <1>1, <1>9, <2>1
<1> HIDE DEF n, S, v
\* The recycle.
<1>11. ASSUME seen[n] = "cold"
       PROVE  /\ v.capped <=> v.coldOnset = Never
              /\ blips = 0 => v.coldOnset = FirstFrom(DecayIntervals, world.cold)
  <2>1. n \in S /\ (\A j \in S : n <= j) /\ S \in SUBSET Nat
    BY <1>1, <1>8, <1>10, <1>11
  <2>2. v.coldOnset = DecayIntervals[n - 1] /\ n - 1 \in 1 .. 3
    BY <1>6a, <1>7, <1>10, <2>1, LeastIs
  <2>3. ~v.capped /\ v.coldOnset # Never
    BY <1>3, <1>7, <1>9, <1>10, <1>11, <2>2
  <2>4. ASSUME blips = 0 PROVE FirstFrom(DecayIntervals, world.cold) = DecayIntervals[n - 1]
    <3>1. DecayIntervals[n - 1] >= world.cold
      <4>1. ClassifyWake(DecayIntervals[n - 1]) = "cold"
        BY <1>2, <1>6a, <1>10, <1>11, <2>4
      <4> QED
        BY <1>3, <1>4, <2>2, <4>1, TierMeans
    <3>2. ASSUME NEW i \in DOMAIN DecayIntervals, i < n - 1 PROVE ~(DecayIntervals[i] >= world.cold)
      <4>1. i \in 1 .. 3 /\ i + 1 \in 2 .. n /\ i + 1 # n /\ i + 1 \in 2 .. 4 /\ (i + 1) - 1 = i
        BY <1>3, <1>10, <3>2
      <4>2. ClassifyWake(DecayIntervals[i]) # "cold"
        <5>1. seen[i + 1] # "cold"
          BY <1>1, <4>1
        <5>2. seen[i + 1] = ClassifyWake(HonorIdle[i + 1])
          BY <1>2, <2>4, <4>1
        <5> QED
          BY <1>6a, <4>1, <5>1, <5>2
      <4> QED
        BY <1>3, <1>4, <4>1, <4>2, TierMeans
    <3>3. DOMAIN DecayIntervals \subseteq Nat /\ n - 1 \in DOMAIN DecayIntervals
      BY <1>3, <2>2
    <3> QED
      BY <3>1, <3>2, <3>3, FirstFromIs
  <2> QED
    BY <2>2, <2>3, <2>4
<1>12. ASSUME seen[n] # "cold"
       PROVE  /\ v.capped <=> v.coldOnset = Never
              /\ blips = 0 => v.coldOnset = FirstFrom(DecayIntervals, world.cold)
  <2>1. n = 4 /\ \A i \in 2 .. 4 : seen[i] # "cold"
    BY <1>1, <1>10, <1>12
  <2>2. v.coldOnset = Never /\ v.capped
    BY <1>7, <1>8, <1>9, <1>12, <2>1
  <2>3. ASSUME blips = 0 PROVE FirstFrom(DecayIntervals, world.cold) = Never
    <3>1. ASSUME NEW i \in DOMAIN DecayIntervals PROVE ~(DecayIntervals[i] >= world.cold)
      <4>1. i \in 1 .. 3 /\ i + 1 \in 2 .. 4 /\ i + 1 \in 1 .. n /\ (i + 1) - 1 = i
        BY <1>3, <2>1
      <4>2. seen[i + 1] # "cold" /\ seen[i + 1] = ClassifyWake(HonorIdle[i + 1])
        BY <1>2, <2>1, <2>3, <4>1
      <4>3. ClassifyWake(DecayIntervals[i]) # "cold"
        BY <1>6a, <4>1, <4>2
      <4> QED
        BY <1>3, <1>4, <4>1, <4>3, TierMeans
    <3> QED
      BY <3>1, FirstFromNone
  <2> QED
    BY <2>2, <2>3
<1>13. /\ v.capped <=> v.coldOnset = Never
       /\ blips = 0 => v.coldOnset = FirstFrom(DecayIntervals, world.cold)
  BY <1>11, <1>12
\* The wake inside the promise.
<1>14. ASSUME blips = 0, world.promised > 2
       PROVE  v.honored <=> 8 < world.deep
  <2>1. seen[1] = ClassifyWake(8)
    BY <1>2, <1>4, <1>5, <1>6, <1>10, <1>14
  <2> QED
    BY <1>4, <1>7, <2>1, TierMeans
<1>15. ASSUME blips = 0
       PROVE  /\ world.promised > 2 /\ ~v.honored => world.deep < world.promised
              /\ world.promised > 2 /\ world.deep >= world.promised => v.honored
  BY <1>4, <1>14, <1>15
<1> QED
  BY <1>13, <1>15 DEF v

(***************************************************************************)
(* The scaling ladder.                                                     *)
(***************************************************************************)
\* The levels that are run: the one that is not positive is skipped.
LEMMA RanLevelsAre == RanLevels = <<1, 4, 16>>
<1> DEFINE ran == {i \in DOMAIN ScalingLevels : ScalingLevels[i] > 0}
           Nth(l) == CHOOSE i \in ran : Cardinality({j \in ran : j < i}) = l - 1
<1>1. ran = {2, 3, 4}
  BY DEF ScalingLevels
<1>2. RanLevels = [l \in 1 .. Cardinality(ran) |-> ScalingLevels[Nth(l)]]
  BY DEF RanLevels
<1>3. /\ Cardinality({}) = 0 /\ IsFiniteSet({})
      /\ Cardinality({2}) = 1 /\ IsFiniteSet({2})
  BY FS_EmptySet, FS_Singleton
<1>4. IsFiniteSet({2} \cup {3}) /\ Cardinality({2} \cup {3}) = 2
  BY <1>3, FS_AddElement
<1>5. Cardinality(({2} \cup {3}) \cup {4}) = 3
  BY <1>4, FS_AddElement
<1> HIDE DEF ran
<1>6. ran = ({2} \cup {3}) \cup {4}
  BY <1>1
<1>7. {j \in ran : j < 2} = {} /\ {j \in ran : j < 3} = {2} /\ {j \in ran : j < 4} = {2} \cup {3}
  BY <1>1
<1> DEFINE before(i) == Cardinality({j \in ran : j < i})
<1>8. before(2) = 0 /\ before(3) = 1 /\ before(4) = 2
  BY <1>3, <1>4, <1>7
<1> HIDE DEF before
<1>9. ASSUME NEW l \in 1 .. 3 PROVE Nth(l) = l + 1
  <2>1. l + 1 \in ran /\ before(l + 1) = l - 1
    BY <1>1, <1>8
  <2>2. \A i \in ran : before(i) = l - 1 => i = l + 1
    BY <1>1, <1>8
  <2>3. Nth(l) = CHOOSE i \in ran : before(i) = l - 1
    BY DEF before
  <2> HIDE DEF Nth
  <2>4. Nth(l) \in ran /\ before(Nth(l)) = l - 1
    BY <2>1, <2>3, Zenon
  <2> QED
    BY <2>2, <2>4
<1> HIDE DEF Nth
<1>10. \A l \in 1 .. 3 : ScalingLevels[Nth(l)] = <<1, 4, 16>>[l]
  BY <1>9 DEF ScalingLevels
<1>11. RanLevels = [l \in 1 .. 3 |-> ScalingLevels[Nth(l)]]
  BY <1>2, <1>5, <1>6
<1>12. RanLevels = [l \in 1 .. 3 |-> <<1, 4, 16>>[l]]
  BY <1>10, <1>11
<1>13. [l \in 1 .. 3 |-> <<1, 4, 16>>[l]] = <<1, 4, 16>>
  OBVIOUS
<1> QED
  BY <1>12, <1>13

\* At most one element, at least two.
LEMMA OneOrTwo ==
  ASSUME NEW S \in SUBSET (1 .. 3)
  PROVE  /\ IsFiniteSet(S) /\ Cardinality(S) \in Nat
         /\ (\A i, j \in S : i = j) => Cardinality(S) <= 1
         /\ (\E i, j \in S : i # j) => Cardinality(S) > 1
<1>1. IsFiniteSet(S) /\ Cardinality(S) \in Nat
  <2>1. IsFiniteSet(1 .. 3)
    BY 1 \in Int, 3 \in Int, FS_Interval, Zenon
  <2> QED
    BY <2>1, FS_Subset, FS_CardinalityType
<1>2. ASSUME \A i, j \in S : i = j PROVE Cardinality(S) <= 1
  <2>1. CASE S = {}
    BY <2>1, FS_EmptySet
  <2>2. CASE S # {}
    <3>1. PICK i \in S : TRUE
      BY <2>2
    <3>2. S = {i}
      BY <1>2, <3>1
    <3> QED
      BY <3>2, FS_Singleton
  <2> QED
    BY <2>1, <2>2
<1>3. ASSUME NEW i \in S, NEW j \in S, i # j PROVE Cardinality(S) > 1
  <2>1. Cardinality({i}) = 1 /\ IsFiniteSet({i})
    BY FS_Singleton
  <2>2. Cardinality({i} \cup {j}) = 2
    <3>1. j \notin {i}
      BY <1>3
    <3>2. Cardinality({i} \cup {j}) = Cardinality({i}) + 1
      BY <2>1, <3>1, FS_AddElement, Zenon
    <3> QED
      BY <2>1, <3>2
  <2>3. ({i} \cup {j}) \subseteq S
    OBVIOUS
  <2>4. Cardinality({i} \cup {j}) <= Cardinality(S)
    BY <1>1, <2>3, FS_Subset
  <2> QED
    BY <1>1, <2>2, <2>4
<1> QED
  BY <1>1, <1>2, <1>3

\* The elements of a sequence are of its type.
LEMMA ElementsOf ==
  ASSUME NEW S, NEW s \in Seq(S)
  PROVE  Len(s) \in Nat /\ DOMAIN s = 1 .. Len(s) /\ \A i \in 1 .. Len(s) : s[i] \in S
OBVIOUS

\* A slice of a sequence.
LEMMA Slice ==
  ASSUME NEW S, NEW s \in Seq(S), NEW a \in Nat, NEW b \in Nat, a <= b, b <= Len(s)
  PROVE  /\ SubSeq(s, a + 1, b) \in Seq(S)
         /\ Len(SubSeq(s, a + 1, b)) = b - a
         /\ \A i \in 1 .. b - a : SubSeq(s, a + 1, b)[i] = s[a + i]
<1> DEFINE t == SubSeq(s, a + 1, b)
<1>1. Len(t) = b - a
  OBVIOUS
<1>2. \A i \in 1 .. b - a : t[i] = s[a + i]
  OBVIOUS
<1>3. t \in Seq(S)
  OBVIOUS
<1> QED
  BY <1>1, <1>2, <1>3

\* One outlier among three repetitions does not move the median.
LEMMA MedianIs ==
  ASSUME NEW vals \in Seq({0, 1}), Len(vals) = 3, NEW x \in {0, 1},
         \A i, j \in 1 .. 3 : vals[i] # x /\ vals[j] # x => i = j
  PROVE  Median(vals) = x
<1> DEFINE Under(v) == {i \in DOMAIN vals : vals[i] < v}
           Upto(v) == {i \in DOMAIN vals : vals[i] <= v}
           vs == {vals[i] : i \in DOMAIN vals}
           Ranked(v) == Cardinality(Under(v)) <= 1 /\ Cardinality(Upto(v)) > 1
<1>0. DOMAIN vals = 1 .. 3 /\ \A i \in 1 .. 3 : vals[i] = 0 \/ vals[i] = 1
  <2>1. DOMAIN vals = 1 .. 3
    OBVIOUS
  <2>2. \A i \in 1 .. Len(vals) : vals[i] \in {0, 1}
    BY ElementsOf
  <2> QED
    BY <2>1, <2>2
<1>1. Median(vals) = CHOOSE v \in vs : Ranked(v)
  <2>1. Len(vals) \div 2 = 1
    OBVIOUS
  <2> QED
    BY <2>1 DEF Median
<1>2. vs \subseteq {0, 1}
  BY <1>0
<1>3. x \in vs
  BY <1>0
<1>4. \A v : Under(v) \in SUBSET (1 .. 3) /\ Upto(v) \in SUBSET (1 .. 3)
  BY <1>0
<1>5. \E i, j \in 1 .. 3 : i # j /\ vals[i] = x /\ vals[j] = x
  <2>1. CASE vals[1] # x
    BY <2>1
  <2>2. CASE vals[2] # x
    BY <2>2
  <2>3. CASE vals[1] = x /\ vals[2] = x
    BY <2>3
  <2> QED
    BY <2>1, <2>2, <2>3
<1>6. Ranked(x)
  <2>1. \A i, j \in Under(x) : i = j
    BY <1>0
  <2>2. \E i, j \in Upto(x) : i # j
    BY <1>0, <1>5
  <2> HIDE DEF Under, Upto
  <2> QED
    BY <1>4, <2>1, <2>2, OneOrTwo
<1>7. \A v \in vs : Ranked(v) => v = x
  <2> SUFFICES ASSUME NEW v \in vs, v # x PROVE ~Ranked(v)
    OBVIOUS
  <2>1. CASE x = 1 /\ v = 0
    <3>1. \A i, j \in Upto(v) : i = j
      BY <1>0, <2>1
    <3>2. Cardinality(Upto(v)) <= 1 /\ Cardinality(Upto(v)) \in Nat
      <4> HIDE DEF Upto
      <4> QED
        BY <1>4, <3>1, OneOrTwo
    <3> HIDE DEF Upto
    <3> QED
      BY <3>2
  <2>2. CASE x = 0 /\ v = 1
    <3>1. \E i, j \in Under(v) : i # j
      BY <1>0, <1>5, <2>2
    <3>2. Cardinality(Under(v)) > 1 /\ Cardinality(Under(v)) \in Nat
      <4> HIDE DEF Under
      <4> QED
        BY <1>4, <3>1, OneOrTwo
    <3> HIDE DEF Under
    <3> QED
      BY <3>2
  <2> QED
    BY <1>2, <2>1, <2>2
<1> HIDE DEF Ranked, vs
<1>8. (CHOOSE v \in vs : Ranked(v)) = x
  BY <1>3, <1>6, <1>7, Zenon
<1> QED
  BY <1>1, <1>8

\* A repetition of the scaling ladder keeps what is known of it.
LEMMA ScalingStep ==
  ASSUME PlaceType, ScalingInv, LoadNext
  PROVE  ScalingInv'
<1>1. blips \in Nat /\ UNCHANGED <<measured, world>>
  BY LoadFrame DEF PlaceType
<1>2. SUFFICES ASSUME measured.name = "scaling" PROVE ScalingInv'
  BY <1>1 DEF ScalingInv
<1>3. \E impl \in Impls : ScalingBurst(impl)
  BY <1>2, WhoseAction
  DEF LoadNext, ProbeScaling, AliyunScaling, AwsScaling, Deadline, LoadJobs, Impls
<1> DEFINE n == Len(seen)
           Truth(i) == Succeeds(RanLevels[Rung(i)])
           truth == Succeeds(RanLevels[n \div Reps + 1])
<1>4. ~ScalingOver /\ Sees(truth, {0, 1})
  BY <1>3 DEF ScalingBurst
<1>5. PICK o \in {truth} \cup {0, 1} :
         seen' = Append(seen, o) /\ ((blips' = blips /\ o = truth) \/ blips' = blips + 1)
  BY <1>1, <1>4, SeenMore
<1>6. /\ seen \in Seq({0, 1}) /\ n \in Nat /\ n <= 9
      /\ blips = 0 => \A i \in 1 .. n : seen[i] = Truth(i)
      /\ blips = 1 => \A i, j \in 1 .. n : seen[i] # Truth(i) /\ seen[j] # Truth(j) => i = j
  BY <1>2 DEF ScalingInv, Outlier
<1>7. n < 9
  <2>1. Len(RanLevels) * Reps = 9
    BY RanLevelsAre DEF Reps
  <2> QED
    BY <1>4, <1>6, <2>1 DEF ScalingOver
<1>8. truth = Truth(n + 1)
  <2>1. ((n + 1) - 1) \div Reps + 1 = n \div Reps + 1
    BY <1>6 DEF Reps
  <2> QED
    BY <2>1 DEF Rung
<1>9. truth \in {0, 1}
  BY DEF Succeeds
<1>10. \A i : Truth(i)' = Truth(i)
  BY <1>1 DEF Succeeds, Rung
<1> HIDE DEF truth, Truth
<1>11. /\ seen' \in Seq({0, 1}) /\ Len(seen') = n + 1 /\ seen'[n + 1] = o
       /\ \A i \in 1 .. n : seen'[i] = seen[i]
  BY <1>5, <1>6, <1>9
<1> HIDE DEF n
<1>12. \A i \in 1 .. n + 1 : i \in 1 .. n \/ i = n + 1
  BY <1>6
<1>13. blips' = 0 => \A i \in 1 .. n + 1 : seen'[i] = Truth(i)
  <2>1. blips' = 0 => blips = 0 /\ o = truth
    BY <1>1, <1>5
  <2> QED
    BY <1>6, <1>8, <1>11, <1>12, <2>1
<1>14. ASSUME blips' = 1, NEW i \in 1 .. n + 1, NEW j \in 1 .. n + 1,
              seen'[i] # Truth(i), seen'[j] # Truth(j)
       PROVE  i = j
  <2>1. CASE blips = 1 /\ o = truth
    BY <1>6, <1>8, <1>11, <1>12, <1>14, <2>1
  <2>2. CASE blips = 0
    BY <1>6, <1>11, <1>12, <1>14, <2>2
  <2>3. blips = 0 \/ (blips = 1 /\ o = truth)
    BY <1>1, <1>5, <1>14
  <2> QED
    BY <2>1, <2>2, <2>3
<1>15. /\ blips' = 0 => \A i \in 1 .. Len(seen') : ~Outlier(i)'
       /\ blips' = 1 => \A i, j \in 1 .. Len(seen') : Outlier(i)' /\ Outlier(j)' => i = j
  <2>1. \A i : Outlier(i)' <=> seen'[i] # Truth(i)
    BY <1>10 DEF Outlier, Truth
  <2> QED
    BY <1>11, <1>13, <1>14, <2>1
<1>16. n + 1 <= 9
  BY <1>6, <1>7
<1> QED
  BY <1>11, <1>15, <1>16 DEF ScalingInv

\* The median of three repetitions is right if one of them is not.
LEMMA ScalingHolds ==
  ASSUME PlaceType, ScalingInv, measured.name = "scaling", ScalingOver, blips <= 1
  PROVE  \A l \in DOMAIN RanLevels : ScalePoint(l) = Succeeds(RanLevels[l])
<1> DEFINE n == Len(seen)
<1>1. DOMAIN RanLevels = 1 .. 3 /\ n = 9
  <2>1. Len(RanLevels) * Reps = 9 /\ DOMAIN RanLevels = 1 .. 3
    BY RanLevelsAre DEF Reps
  <2> QED
    BY <2>1 DEF ScalingOver
<1>2. seen \in Seq({0, 1})
  BY DEF ScalingInv
<1>3. \A i, j \in 1 .. 9 : Outlier(i) /\ Outlier(j) => i = j
  <2>1. blips = 0 \/ blips = 1
    BY DEF PlaceType
  <2>2. CASE blips = 0
    BY <1>1, <2>2 DEF ScalingInv
  <2>3. CASE blips = 1
    BY <1>1, <2>3 DEF ScalingInv
  <2> QED
    BY <2>1, <2>2, <2>3
<1> SUFFICES ASSUME NEW l \in 1 .. 3 PROVE ScalePoint(l) = Succeeds(RanLevels[l])
  BY <1>1
<1> DEFINE a == (l - 1) * Reps
           vals == SubSeq(seen, a + 1, l * Reps)
           x == Succeeds(RanLevels[l])
<1>4. a \in {0, 3, 6} /\ l * Reps = a + 3 /\ a + 1 \in 1 .. 9 /\ a + 3 \in 1 .. 9
  BY DEF Reps
<1>5. \A i \in 1 .. 3 : Rung(a + i) = l /\ a + i \in 1 .. 9
  BY DEF Rung, Reps
<1> HIDE DEF a
<1>6. vals = SubSeq(seen, a + 1, a + 3)
  BY <1>4
<1>7. vals \in Seq({0, 1}) /\ Len(vals) = 3 /\ \A i \in 1 .. 3 : vals[i] = seen[a + i]
  <2>1. a \in Nat /\ a + 3 \in Nat /\ a <= a + 3 /\ a + 3 <= Len(seen) /\ (a + 3) - a = 3
    BY <1>1, <1>4
  <2> HIDE DEF vals
  <2> QED
    BY <1>2, <1>6, <2>1, Slice
<1> HIDE DEF n, vals
<1>8. \A i \in 1 .. 3 : vals[i] # x => Outlier(a + i)
  BY <1>5, <1>7 DEF Outlier
<1>9. \A i, j \in 1 .. 3 : vals[i] # x /\ vals[j] # x => i = j
  <2> SUFFICES ASSUME NEW i \in 1 .. 3, NEW j \in 1 .. 3, vals[i] # x, vals[j] # x PROVE i = j
    OBVIOUS
  <2>1. a + i = a + j
    BY <1>3, <1>5, <1>8
  <2> QED
    BY <1>4, <2>1
<1>10. x \in {0, 1}
  BY DEF Succeeds
<1> HIDE DEF x
<1>11. Median(vals) = x
  BY <1>7, <1>9, <1>10, MedianIs
<1> QED
  BY <1>11 DEF ScalePoint, vals, x, a

(***************************************************************************)
(* The workers of a load.                                                  *)
(***************************************************************************)
\* Only the workers of a load and its deadline touch the counters.
LEMMA CrewFrame ==
  ASSUME LoadNext
  PROVE  \/ \E impl \in Impls, name \in LoadJobs : Works(impl, name)
         \/ Deadline
         \/ UNCHANGED solo
<1>1. ASSUME NEW truth, NEW outcomes, Sees(truth, outcomes) PROVE UNCHANGED solo
  BY <1>1 DEF Sees
<1>2. CASE ProbeLoad \/ AliyunLoad \/ AwsLoad \/ ProbeSoak \/ AliyunSoak \/ AwsSoak
  BY <1>2 DEF ProbeLoad, AliyunLoad, AwsLoad, ProbeSoak, AliyunSoak, AwsSoak, Impls, LoadJobs
<1>3. CASE Retention \/ Honor \/ Curve \/ Ttft
  BY <1>1, <1>3 DEF Retention, Honor, Curve, Ttft
<1>4. CASE AliyunRetention \/ AwsRetention
  BY <1>4 DEF AliyunRetention, AwsRetention, FreshWake
<1>5. CASE ProbeRate \/ AliyunRate \/ AwsRate
  BY <1>1, <1>5 DEF ProbeRate, AliyunRate, AwsRate, RateBurst
<1>6. CASE ProbeCeiling \/ AliyunCeiling \/ AwsCeiling
  BY <1>1, <1>6 DEF ProbeCeiling, AliyunCeiling, AwsCeiling, CeilingBurst
<1>7. CASE ProbeScaling \/ AliyunScaling \/ AwsScaling
  BY <1>1, <1>7 DEF ProbeScaling, AliyunScaling, AwsScaling, ScalingBurst
<1>8. CASE ProbeCancel \/ AliyunCancel \/ AwsCancel
  BY <1>1, <1>8 DEF ProbeCancel, AliyunCancel, AwsCancel, CancelStep
<1>9. CASE AliyunIsolation \/ AwsIsolation
  BY <1>1, <1>9 DEF AliyunIsolation, AwsIsolation, IsolationStep
<1>10. CASE AliyunWrites \/ AwsWrites
  BY <1>1, <1>10 DEF AliyunWrites, AwsWrites, WritesStep
<1> QED
  BY <1>2, <1>3, <1>4, <1>5, <1>6, <1>7, <1>8, <1>9, <1>10 DEF LoadNext

\* The calls in flight are finitely many.
LEMMA InFlightIs == IsFiniteSet(InFlight) /\ Cardinality(InFlight) \in Nat
<1>1. IsFiniteSet(Workers)
  BY LoadAssumption
<1>2. InFlight \subseteq Workers
  BY DEF InFlight
<1> QED
  BY <1>1, <1>2, FS_Subset, FS_CardinalityType

\* A worker's step keeps every call in flight or counted.
LEMMA CrewStep ==
  ASSUME PlaceType, CrewInv, LoadNext
  PROVE  CrewInv'
<1>1. blips \in Nat /\ measured' = measured
  BY LoadFrame DEF PlaceType
<1>2. Crew' = Crew
  BY <1>1 DEF Crew
<1>3. /\ crew \in [Workers -> {"idle", "calling", "gone"}]
      /\ tally \in [CallTypes -> Nat] /\ started \in Nat
      /\ started = Errors + tally["ok"] + Cardinality(InFlight)
      /\ measured.name \in LoadJobs => \A w \in Workers \ Crew : crew[w] = "idle"
      /\ measured.name \notin LoadJobs => InFlight = {}
  BY DEF CrewInv
<1>4. CASE UNCHANGED <<crew, tally, started>>
  <2>1. InFlight' = InFlight /\ Errors' = Errors
    BY <1>4 DEF InFlight, Errors
  <2> QED
    BY <1>1, <1>2, <1>3, <1>4, <2>1 DEF CrewInv
<1>5. ASSUME NEW impl, NEW name \in LoadJobs, NEW w \in Workers, CallBegins(impl, name, w)
      PROVE  CrewInv'
  <2>1. /\ measured.name = name /\ w \in Crew /\ crew[w] = "idle" /\ tally' = tally
        /\ crew' = [crew EXCEPT ![w] = "calling"] /\ started' = started + 1
    BY <1>5 DEF CallBegins, Is
  <2>2. InFlight' = InFlight \cup {w} /\ w \notin InFlight
    BY <1>3, <2>1 DEF InFlight
  <2>3. Cardinality(InFlight') = Cardinality(InFlight) + 1
    BY <2>2, InFlightIs, FS_AddElement
  <2>4. Errors' = Errors /\ Errors \in Nat /\ tally["ok"] \in Nat
    BY <1>3, <2>1 DEF Errors, CallTypes
  <2>5. started' = Errors' + tally'["ok"] + Cardinality(InFlight')
    BY <1>3, <2>1, <2>3, <2>4, InFlightIs
  <2>6. crew' \in [Workers -> {"idle", "calling", "gone"}] /\ started' \in Nat
    BY <1>3, <2>1
  <2>7. \A x \in Workers \ Crew : crew'[x] = "idle"
    BY <1>3, <2>1
  <2> QED
    BY <1>1, <1>2, <1>3, <2>1, <2>5, <2>6, <2>7 DEF CrewInv
<1>6. ASSUME NEW impl, NEW name \in LoadJobs, NEW w \in Workers, CallEnds(impl, name, w)
      PROVE  CrewInv'
  <2>1. /\ measured.name = name /\ crew[w] = "calling" /\ started' = started
        /\ crew' = [crew EXCEPT ![w] = "idle"]
    BY <1>6 DEF CallEnds, Is
  <2>2. PICK t \in CallTypes : tally' = [tally EXCEPT ![t] = @ + 1]
    BY <1>6 DEF CallEnds, Counted
  <2>3. InFlight' = InFlight \ {w} /\ w \in InFlight
    BY <1>3, <2>1 DEF InFlight
  <2>4. Cardinality(InFlight') = Cardinality(InFlight) - 1
    BY <2>3, InFlightIs, FS_RemoveElement
  <2>5. \A c \in CallTypes :
           tally'[c] = (IF c = t THEN tally[c] + 1 ELSE tally[c]) /\ tally[c] \in Nat
    BY <1>3, <2>2
  <2>6. tally' \in [CallTypes -> Nat]
    BY <1>3, <2>2
  <2>7. Errors' + tally'["ok"] = Errors + tally["ok"] + 1 /\ Errors + tally["ok"] \in Nat
    BY <2>5 DEF Errors, CallTypes
  <2>7b. Errors' + tally'["ok"] \in Nat
    BY <2>7
  <2>8. started' = Errors' + tally'["ok"] + Cardinality(InFlight')
    BY <1>3, <2>1, <2>4, <2>7, InFlightIs
  <2>9. crew' \in [Workers -> {"idle", "calling", "gone"}]
    BY <1>3, <2>1
  <2>10. \A x \in Workers \ Crew : crew'[x] = "idle"
    BY <1>3, <2>1
  <2> QED
    BY <1>1, <1>2, <1>3, <2>1, <2>6, <2>8, <2>9, <2>10 DEF CrewInv
<1>7. ASSUME NEW impl, NEW name \in LoadJobs, NEW w \in Workers, WorkerLeaves(impl, name, w)
      PROVE  CrewInv'
  <2>1. /\ measured.name = name /\ w \in Crew /\ crew[w] = "idle" /\ tally' = tally
        /\ crew' = [crew EXCEPT ![w] = "gone"] /\ started' = started
    BY <1>7 DEF WorkerLeaves, Is
  <2>2. InFlight' = InFlight
    BY <1>3, <2>1 DEF InFlight
  <2>3. Errors' = Errors
    BY <2>1 DEF Errors
  <2>4. crew' \in [Workers -> {"idle", "calling", "gone"}]
    BY <1>3, <2>1
  <2>5. \A x \in Workers \ Crew : crew'[x] = "idle"
    BY <1>3, <2>1
  <2> QED
    BY <1>1, <1>2, <1>3, <2>1, <2>2, <2>3, <2>4, <2>5 DEF CrewInv
<1>8. CASE Deadline
  BY <1>4, <1>8 DEF Deadline
<1>9. CASE UNCHANGED solo
  BY <1>4, <1>9 DEF solo
<1>10. ASSUME NEW impl \in Impls, NEW name \in LoadJobs, Works(impl, name) PROVE CrewInv'
  BY <1>5, <1>6, <1>7, <1>10 DEF Works
<1> QED
  BY <1>8, <1>9, <1>10, CrewFrame

\* When every worker has left, every call is counted.
LEMMA CrewHolds ==
  ASSUME CrewInv
  PROVE  LoadAddsUp
<1> SUFFICES ASSUME LoadOver
             PROVE  /\ Requests = (IF started = 0 /\ measured.name = "load" THEN 1 ELSE started)
                    /\ Errors + tally["ok"] = started
  BY DEF LoadAddsUp
<1>1. InFlight = {}
  <2>1. \A w \in Workers : crew[w] # "calling"
    BY DEF LoadOver, CrewInv
  <2> QED
    BY <2>1 DEF InFlight
<1>2. Cardinality(InFlight) = 0
  BY <1>1, FS_EmptySet
<1>3. Errors \in Nat /\ tally["ok"] \in Nat
  BY DEF CrewInv, Errors, CallTypes
<1>4. started = Errors + tally["ok"]
  BY <1>2, <1>3 DEF CrewInv
<1> QED
  BY <1>3, <1>4 DEF Requests, Maximum

(***************************************************************************)
(* The curves.                                                             *)
(***************************************************************************)
\* A call is answered warm or cold.
LEMMA LatencyIs ==
  ASSUME NEW first
  PROVE  Latency(first) \in {"warm", "cold"}
BY DEF Latency

\* A call of a curve keeps what is known of it.
LEMMA CurveStep ==
  ASSUME PlaceType, CurveInv, LoadNext
  PROVE  CurveInv'
<1>1. blips \in Nat /\ UNCHANGED <<measured, world>>
  BY LoadFrame DEF PlaceType
<1>2. SUFFICES ASSUME Is("probe", "curve") PROVE CurveInv'
  BY <1>1 DEF CurveInv, Is
<1> DEFINE n == Len(seen)
           truth == Latency(seen = <<>>)
<1>3. Sees(truth, CallKinds)
  BY <1>2, WhoseAction DEF LoadNext, Curve, Deadline, LoadJobs, Is
<1>4. truth \in CallKinds
  BY LatencyIs DEF CallKinds
<1>5. PICK o \in CallKinds :
         seen' = Append(seen, o) /\ ((blips' = blips /\ o = truth) \/ blips' = blips + 1)
  BY <1>1, <1>3, <1>4, SeenMore
<1>6. /\ seen \in Seq(CallKinds) /\ n \in Nat
      /\ blips = 0 => \A i \in 1 .. n : seen[i] = Latency(i = 1)
  BY <1>2 DEF CurveInv
<1>7. /\ seen' \in Seq(CallKinds) /\ Len(seen') = n + 1 /\ seen'[n + 1] = o
      /\ \A i \in 1 .. n : seen'[i] = seen[i]
  BY <1>5, <1>6
<1>8. truth = Latency(n + 1 = 1)
  <2>1. seen = <<>> <=> n + 1 = 1
    <3>1. seen # <<>> => n > 0
      BY <1>6, NotEmpty
    <3>2. seen = <<>> => n = 0
      OBVIOUS
    <3> HIDE DEF n
    <3> QED
      BY <1>6, <3>1, <3>2
  <2> HIDE DEF n
  <2> QED
    BY <2>1 DEF Latency
<1> HIDE DEF n, truth
<1>9. \A first : Latency(first)' = Latency(first)
  BY <1>1 DEF Latency
<1>10. blips' = 0 => \A i \in 1 .. n + 1 : seen'[i] = Latency(i = 1)
  <2> SUFFICES ASSUME blips' = 0, NEW i \in 1 .. n + 1 PROVE seen'[i] = Latency(i = 1)
    OBVIOUS
  <2>1. blips = 0 /\ o = truth
    BY <1>1, <1>5
  <2>2. i \in 1 .. n \/ i = n + 1
    BY <1>6
  <2>3. CASE i \in 1 .. n
    BY <1>6, <1>7, <2>1, <2>3
  <2>4. CASE i = n + 1
    BY <1>7, <1>8, <2>1, <2>4
  <2> QED
    BY <2>2, <2>3, <2>4
<1>11. blips' = 0 => \A i \in 1 .. Len(seen') : seen'[i] = Latency(i = 1)'
  BY <1>1, <1>7, <1>10 DEF Latency
<1> QED
  BY <1>7, <1>11 DEF CurveInv

\* The curve says what the platform does.
LEMMA CurveHolds ==
  ASSUME PlaceType, CurveInv, Is("probe", "curve"), Len(seen) = Calls
  PROVE  /\ CurveVerdict.reliable => CurveErrors = 0 /\ 2 * WarmVals >= Len(seen) - 2
         /\ blips = 0 =>
             /\ CurveVerdict.reliable <=> (world.reuse \/ world.prewarmed)
             /\ CurveVerdict.cold = Latency(TRUE)
             /\ CurveVerdict.warmedAfter =
                    (IF world.prewarmed THEN 1 ELSE IF world.reuse THEN 2 ELSE Never)
<1> DEFINE Warm == {i \in 2 .. Len(seen) : seen[i] = "warm"}
           Failed == {i \in DOMAIN seen : seen[i] = "failed"}
           W == {i \in DOMAIN seen : seen[i] = "warm"}
<1>1. Len(seen) = 4 /\ DOMAIN seen = 1 .. 4
  BY DEF Calls, CurveInv
<1>2. world.prewarmed \in BOOLEAN /\ world.reuse \in BOOLEAN
  BY CurveWorld DEF Is
<1>3. /\ CurveVerdict.cold = seen[1] /\ CurveVerdict.reliable = Reliable
      /\ CurveVerdict.warmedAfter = IF W = {} THEN Never ELSE Least(W)
  BY DEF CurveVerdict, Where
<1>4. WarmVals = Cardinality(Warm) /\ CurveErrors = Cardinality(Failed)
  BY DEF WarmVals, CurveErrors, Where
<1>5. Cardinality(2 .. 4) = 3 /\ IsFiniteSet(2 .. 4)
  <2>1. IsFiniteSet(2 .. 4) /\ Cardinality(2 .. 4) = IF 2 > 4 THEN 0 ELSE 4 - 2 + 1
    BY 2 \in Int, 4 \in Int, FS_Interval, Zenon
  <2> QED
    BY <2>1
<1>6. WarmVals \in Nat
  <2>1. Warm \subseteq 2 .. 4
    BY <1>1
  <2> QED
    BY <1>4, <1>5, <2>1, FS_Subset, FS_CardinalityType
<1>7. Reliable => CurveErrors = 0 /\ 2 * WarmVals >= Len(seen) - 2
  BY <1>1, <1>6 DEF Reliable
<1>8. ASSUME blips = 0
      PROVE  /\ Reliable <=> (world.reuse \/ world.prewarmed)
             /\ seen[1] = Latency(TRUE)
             /\ (IF W = {} THEN Never ELSE Least(W)) =
                   (IF world.prewarmed THEN 1 ELSE IF world.reuse THEN 2 ELSE Never)
  <2>1. \A i \in 1 .. 4 : seen[i] = Latency(i = 1)
    BY <1>1, <1>8 DEF CurveInv
  <2>2. seen[1] = Latency(TRUE)
    BY <2>1 DEF Latency
  <2>3. \A i \in 1 .. 4 : /\ seen[i] = "warm" <=> world.prewarmed \/ (i # 1 /\ world.reuse)
                          /\ seen[i] # "failed"
    BY <2>1 DEF Latency
  <2>4. /\ Failed = {} /\ Warm = {i \in 2 .. 4 : seen[i] = "warm"}
        /\ W = {i \in 1 .. 4 : seen[i] = "warm"}
    BY <1>1, <2>3
  <2>5. CurveErrors = 0
    BY <1>4, <2>4, FS_EmptySet
  <2> HIDE DEF Warm, Failed, W
  <2>6. CASE world.prewarmed \/ world.reuse
    <3>1. Warm = 2 .. 4
      BY <2>3, <2>4, <2>6
    <3>2. WarmVals = 3
      BY <1>4, <1>5, <3>1
    <3>3. Reliable
      BY <1>1, <2>5, <3>2 DEF Reliable, WarmEnough, Maximum
    <3>4. CASE world.prewarmed
      <4>1. W \in SUBSET Nat /\ 1 \in W /\ \A j \in W : 1 <= j
        BY <2>3, <2>4, <3>4
      <4>2. Least(W) = 1
        BY <4>1, LeastIs
      <4> QED
        BY <2>2, <3>3, <3>4, <4>1, <4>2
    <3>5. CASE ~world.prewarmed
      <4>1. W \in SUBSET Nat /\ 2 \in W /\ \A j \in W : 2 <= j
        BY <2>3, <2>4, <2>6, <3>5
      <4>2. Least(W) = 2
        BY <4>1, LeastIs
      <4> QED
        BY <2>2, <2>6, <3>3, <3>5, <4>1, <4>2
    <3> QED
      BY <1>2, <3>4, <3>5
  <2>7. CASE ~world.prewarmed /\ ~world.reuse
    <3>1. Warm = {} /\ W = {}
      BY <2>3, <2>4, <2>7
    <3>2. ~Reliable
      BY <1>4, <3>1, FS_EmptySet DEF Reliable
    <3> QED
      BY <2>2, <2>7, <3>1, <3>2
  <2> QED
    BY <1>2, <2>6, <2>7
<1> HIDE DEF W
<1> QED
  BY <1>3, <1>7, <1>8

(***************************************************************************)
(* The session-level probes.                                               *)
(***************************************************************************)
\* A call of the cancellation probe keeps what is known of it.
LEMMA CancelKept ==
  ASSUME PlaceType, CancelInv, LoadNext
  PROVE  CancelInv'
<1>1. blips \in Nat /\ UNCHANGED <<measured, world>>
  BY LoadFrame DEF PlaceType
<1>2. SUFFICES ASSUME measured.name = "cancel" PROVE CancelInv'
  BY <1>1 DEF CancelInv
<1>3. \E impl \in Impls : CancelStep(impl)
  BY <1>2, WhoseAction
  DEF LoadNext, ProbeCancel, AliyunCancel, AwsCancel, Deadline, LoadJobs, Impls
<1> DEFINE n == Len(seen)
           T == {"ok", "failed", "timeout", "refused"}
           slowly == IF world.slow THEN "timeout" ELSE "ok"
           after == IF world.stuck THEN "failed" ELSE "ok"
<1>4. /\ seen \in Seq(T) /\ n \in Nat
      /\ \A i \in 1 .. n : i \in {1, 3} => seen[i] \in {"ok", "failed"}
      /\ blips = 0 => \A i \in 1 .. n : (i = 2 => seen[i] = slowly) /\ (i = 3 => seen[i] = after)
  BY <1>2 DEF CancelInv
<1>5. /\ n < 3
      /\ \/ n = 0 /\ Sees("ok", {"ok", "failed"})
         \/ n = 1 /\ Sees(slowly, {"refused"})
         \/ n = 2 /\ Sees(after, {"ok", "failed"})
  <2>1. n < 3 => n = 0 \/ n = 1 \/ n = 2
    <3>1. n \in Nat
      BY <1>4
    <3> HIDE DEF n
    <3> QED
      BY <3>1
  <2> QED
    BY <1>3, <2>1 DEF CancelStep
<1>6. \E o \in T : /\ seen' = Append(seen, o) /\ (blips' = blips \/ blips' = blips + 1)
                   /\ n \in {0, 2} => o \in {"ok", "failed"}
                   /\ blips' = 0 => (n = 1 => o = slowly) /\ (n = 2 => o = after)
  <2>1. CASE n = 0 /\ Sees("ok", {"ok", "failed"})
    BY <1>1, <2>1, SeenMore
  <2>2. CASE n = 1 /\ Sees(slowly, {"refused"})
    BY <1>1, <2>2, SeenMore
  <2>3. CASE n = 2 /\ Sees(after, {"ok", "failed"})
    BY <1>1, <2>3, SeenMore
  <2> QED
    BY <1>5, <2>1, <2>2, <2>3
<1> HIDE DEF slowly, after
<1>7. PICK o \in T : /\ seen' = Append(seen, o) /\ (blips' = blips \/ blips' = blips + 1)
                     /\ n \in {0, 2} => o \in {"ok", "failed"}
                     /\ blips' = 0 => (n = 1 => o = slowly) /\ (n = 2 => o = after)
  BY <1>6
<1>8. /\ seen' \in Seq(T) /\ Len(seen') = n + 1 /\ seen'[n + 1] = o
      /\ \A i \in 1 .. n : seen'[i] = seen[i]
  BY <1>4, <1>7
<1> HIDE DEF n, T
<1>9. blips' = 0 => blips = 0
  BY <1>1, <1>7
<1>10. \A i \in 1 .. n + 1 : i \in 1 .. n \/ i = n + 1
  BY <1>4
<1>11. \A i \in 1 .. n + 1 : i \in {1, 3} => seen'[i] \in {"ok", "failed"}
  BY <1>4, <1>7, <1>8, <1>10
<1>12. blips' = 0 =>
          \A i \in 1 .. n + 1 : (i = 2 => seen'[i] = slowly) /\ (i = 3 => seen'[i] = after)
  BY <1>4, <1>7, <1>8, <1>9, <1>10
<1>13. /\ slowly = (IF world'.slow THEN "timeout" ELSE "ok")
       /\ after = (IF world'.stuck THEN "failed" ELSE "ok")
  BY <1>1 DEF slowly, after
<1> QED
  BY <1>8, <1>11, <1>12, <1>13 DEF CancelInv, T

\* A call of the isolation probe does.
LEMMA IsolationKept ==
  ASSUME PlaceType, IsolationInv, LoadNext
  PROVE  IsolationInv'
<1>1. blips \in Nat /\ UNCHANGED <<measured, world>>
  BY LoadFrame DEF PlaceType
<1>2. SUFFICES ASSUME measured.name = "isolation" PROVE IsolationInv'
  BY <1>1 DEF IsolationInv
<1>3. \E impl \in Impls : IsolationStep(impl)
  BY <1>2, WhoseAction DEF LoadNext, AliyunIsolation, AwsIsolation, Deadline, LoadJobs, Impls
<1> DEFINE n == Len(seen)
           T == {"stored", "failed", "sentinel", "empty"}
           read == IF world.leaky THEN "sentinel" ELSE "empty"
           truth == IF n = 0 THEN "stored" ELSE read
<1>4. /\ seen \in Seq(T) /\ n \in Nat
      /\ \A i \in 1 .. n : seen[i] = "sentinel" => world.leaky
      /\ blips = 0 => \A i \in 1 .. n : i = 2 => seen[i] = read
  BY <1>2 DEF IsolationInv
<1>5. n < 2 /\ Sees(truth, {"failed"})
  BY <1>3 DEF IsolationStep
<1>6. PICK o \in {truth} \cup {"failed"} :
         seen' = Append(seen, o) /\ ((blips' = blips /\ o = truth) \/ blips' = blips + 1)
  BY <1>1, <1>5, SeenMore
<1>7. /\ o \in T /\ (o = "sentinel" => world.leaky)
      /\ blips' = 0 => blips = 0 /\ (n + 1 = 2 => o = read)
  BY <1>1, <1>4, <1>6
<1> HIDE DEF read, truth
<1>8. /\ seen' \in Seq(T) /\ Len(seen') = n + 1 /\ seen'[n + 1] = o
      /\ \A i \in 1 .. n : seen'[i] = seen[i]
  BY <1>4, <1>6, <1>7
<1> HIDE DEF n, T
<1>9. \A i \in 1 .. n + 1 : i \in 1 .. n \/ i = n + 1
  BY <1>4
<1>10. \A i \in 1 .. n + 1 : seen'[i] = "sentinel" => world.leaky
  BY <1>4, <1>7, <1>8, <1>9
<1>11. blips' = 0 => \A i \in 1 .. n + 1 : i = 2 => seen'[i] = read
  BY <1>4, <1>7, <1>8, <1>9
<1>12. read = (IF world'.leaky THEN "sentinel" ELSE "empty") /\ world'.leaky = world.leaky
  BY <1>1 DEF read
<1> QED
  BY <1>8, <1>10, <1>11, <1>12 DEF IsolationInv, T

\* A call of the concurrent writers does.
LEMMA WritesKept ==
  ASSUME PlaceType, WritesInv, LoadNext
  PROVE  WritesInv'
<1>1. blips \in Nat /\ UNCHANGED <<measured, world>>
  BY LoadFrame DEF PlaceType
<1>2. SUFFICES ASSUME measured.name = "writes" PROVE WritesInv'
  BY <1>1 DEF WritesInv
<1>3. \E impl \in Impls : WritesStep(impl)
  BY <1>2, WhoseAction DEF LoadNext, AliyunWrites, AwsWrites, Deadline, LoadJobs, Impls
<1> DEFINE n == Len(seen)
           T == {"a", "b", "both", "failed"}
           read == IF world.leaky THEN seen[1] ELSE "both"
<1>4. seen \in Seq(T) /\ n \in Nat /\ (n > 0 => seen[1] \in {"a", "b"})
  BY <1>2 DEF WritesInv
<1>5. \/ n = 0 /\ \E last \in {"a", "b"} : seen' = Append(seen, last)
      \/ n = 1 /\ Sees(read, {"failed"})
  BY <1>3 DEF WritesStep
<1>6. CASE n = 0 /\ \E last \in {"a", "b"} : seen' = Append(seen, last)
  <2>1. PICK last \in {"a", "b"} : seen' = Append(seen, last)
    BY <1>6
  <2>2. seen' \in Seq(T) /\ Len(seen') = 1 /\ seen'[1] = last
    BY <1>4, <1>6, <2>1
  <2> QED
    BY <2>1, <2>2 DEF WritesInv
<1>7. CASE n = 1 /\ Sees(read, {"failed"})
  <2>1. PICK o \in {read} \cup {"failed"} :
           seen' = Append(seen, o) /\ ((blips' = blips /\ o = read) \/ blips' = blips + 1)
    BY <1>1, <1>7, SeenMore
  <2>2. o \in T
    BY <1>4, <1>7, <2>1
  <2>3. seen' \in Seq(T) /\ Len(seen') = 2 /\ seen'[2] = o /\ seen'[1] = seen[1]
    <3>1. /\ seen' \in Seq(T) /\ Len(seen') = n + 1 /\ seen'[n + 1] = o
          /\ \A i \in 1 .. n : seen'[i] = seen[i]
      BY <1>4, <2>1, <2>2
    <3> HIDE DEF n
    <3> QED
      BY <1>7, <3>1
  <2>4. blips' = 0 => o = read
    BY <1>1, <2>1
  <2>5. read = (IF world'.leaky THEN seen'[1] ELSE "both")
    BY <1>1, <2>3
  <2>6. seen'[1] \in {"a", "b"}
    BY <1>4, <1>7, <2>3
  <2> HIDE DEF read, n
  <2> QED
    BY <2>3, <2>4, <2>5, <2>6 DEF WritesInv
<1> QED
  BY <1>5, <1>6, <1>7

\* No call of a session-level probe breaks it.
LEMMA SessionStep ==
  ASSUME PlaceType, SessionInv, LoadNext
  PROVE  SessionInv'
BY CancelKept, IsolationKept, WritesKept DEF SessionInv

\* A cancellation is honoured on a slow platform, and residue is seen.
LEMMA CancelHolds ==
  ASSUME PlaceType, SessionInv, measured.name = "cancel", Len(seen) = 3
  PROVE  /\ CancelVerdict.residual = {} => CancelVerdict.teardown
         /\ blips = 0 => /\ CancelVerdict.honored <=> world.slow
                         /\ CancelVerdict.teardown <=> ~world.stuck
<1>1. /\ seen[3] \in {"ok", "failed"}
      /\ blips = 0 => seen[2] = (IF world.slow THEN "timeout" ELSE "ok")
      /\ blips = 0 => seen[3] = (IF world.stuck THEN "failed" ELSE "ok")
  BY DEF SessionInv, CancelInv, IsolationInv, WritesInv
<1>2. world.slow \in BOOLEAN /\ world.stuck \in BOOLEAN
  BY SessionWorld
<1>3. /\ CancelVerdict.honored <=> seen[2] # "ok"
      /\ CancelVerdict.teardown <=> seen[3] = "ok"
      /\ CancelVerdict.residual = {i \in {1, 3} : seen[i] = "failed"}
  BY DEF CancelVerdict
<1>4. CancelVerdict.residual = {} => seen[3] # "failed"
  BY <1>3
<1> QED
  BY <1>1, <1>2, <1>3, <1>4

\* A leak is claimed of a leaky backend only.
LEMMA IsolationHolds ==
  ASSUME PlaceType, SessionInv, measured.name = "isolation"
  PROVE  /\ ~TenantIsolated => world.leaky
         /\ Len(seen) = 2 /\ blips = 0 => (TenantIsolated <=> ~world.leaky)
<1> DEFINE n == Len(seen)
<1>1. /\ seen \in Seq({"stored", "failed", "sentinel", "empty"}) /\ n \in Nat
      /\ \A i \in 1 .. n : seen[i] = "sentinel" => world.leaky
      /\ blips = 0 =>
            \A i \in 1 .. n : i = 2 => seen[i] = (IF world.leaky THEN "sentinel" ELSE "empty")
  BY DEF SessionInv, CancelInv, IsolationInv, WritesInv
<1>2. world.leaky \in BOOLEAN
  BY SessionWorld DEF SdkOnly
<1>3. seen # <<>> => n > 0
  BY <1>1, NotEmpty
<1>4. n = 2 => seen # <<>>
  OBVIOUS
<1>5. ~TenantIsolated <=> seen # <<>> /\ seen[n] = "sentinel"
  BY DEF TenantIsolated, Ended
<1> HIDE DEF n
<1>6. ~TenantIsolated => world.leaky
  BY <1>1, <1>3, <1>5
<1>7. n = 2 /\ blips = 0 => (TenantIsolated <=> ~world.leaky)
  BY <1>1, <1>2, <1>4, <1>5
<1> QED
  BY <1>6, <1>7 DEF n

\* Both writes survive on a backend without a leak only.
LEMMA WritesHolds ==
  ASSUME PlaceType, SessionInv, measured.name = "writes", Len(seen) = 2, blips = 0
  PROVE  Winner = "both" <=> ~world.leaky
<1>1. seen[1] \in {"a", "b"} /\ seen[2] = (IF world.leaky THEN seen[1] ELSE "both")
  BY DEF SessionInv, CancelInv, IsolationInv, WritesInv
<1>2. world.leaky \in BOOLEAN
  BY SessionWorld DEF SdkOnly
<1> QED
  BY <1>1, <1>2 DEF Winner

(***************************************************************************)
(* The time to the first token.                                            *)
(***************************************************************************)
\* The bounds of a set that has them.
LEMMA BoundsOf ==
  ASSUME NEW S
  PROVE  /\ (\E m \in S : \A j \in S : m <= j) => Least(S) \in S /\ \A j \in S : Least(S) <= j
         /\ (\E m \in S : \A j \in S : j <= m) => Greatest(S) \in S /\ \A j \in S : j <= Greatest(S)
BY Zenon DEF Least, Greatest

\* What a probe counts is what it has seen.
LEMMA BarsAre ==
  ASSUME NEW T, seen \in Seq(T)
  PROVE  /\ PollsDone = Cardinality(Bars) /\ Where(LAMBDA s : s = "|") = Bars
         /\ IsFiniteSet(Bars) /\ Cardinality(Bars) \in Nat /\ Bars \in SUBSET Nat
         /\ IsFiniteSet(Got) /\ Cardinality(Got) \in Nat
<1>1. Len(seen) \in Nat /\ DOMAIN seen = 1 .. Len(seen)
  BY ElementsOf
<1>2. {i \in DOMAIN seen : seen[i] = "|"} = Bars
  BY <1>1 DEF Bars
<1>3. PollsDone = Cardinality(Bars) /\ Where(LAMBDA s : s = "|") = Bars
  BY <1>2 DEF PollsDone, Where
<1>4. IsFiniteSet(1 .. Len(seen))
  <2>1. 1 \in Int /\ Len(seen) \in Int
    BY <1>1
  <2> QED
    BY <2>1, FS_Interval, Zenon
<1>5. Bars \subseteq 1 .. Len(seen) /\ Got \subseteq 1 .. Len(seen)
  BY DEF Bars, Got
<1>6. Bars \in SUBSET Nat
  BY <1>1, <1>5
<1> QED
  BY <1>3, <1>4, <1>5, <1>6, FS_Subset, FS_CardinalityType

\* A phase is over after a warm answer, or when its tries are used up.
LEMMA PhaseIs ==
  ASSUME NEW T, seen \in Seq(T), NEW b \in 0 .. Len(seen),
         b = 0 => Bars = {}, b # 0 => b \in Bars /\ \A j \in Bars : j <= b
  PROVE  TtftPhaseOver <=> \/ Len(seen) - b > 0 /\ Ended("warm")
                           \/ Len(seen) - b = IF b = 0 THEN WarmPolls ELSE Retries
<1> DEFINE n == Len(seen)
<1>0. n \in Nat
  OBVIOUS
<1>1. PollsDone = Cardinality(Bars) /\ Where(LAMBDA s : s = "|") = Bars
  BY BarsAre
<1>2. PollsDone = 0 <=> b = 0
  BY <1>1, BarsAre, FS_EmptySet
<1>3. b # 0 => Greatest(Bars) = b
  BY BarsAre, GreatestIs
<1>4. Tries = n - (IF PollsDone = 0 THEN 0 ELSE Greatest(Bars))
  BY <1>1 DEF Tries
<1> HIDE DEF n
<1>5. Tries = n - b
  BY <1>0, <1>2, <1>3, <1>4
<1> QED
  BY <1>2, <1>5 DEF TtftPhaseOver, n

\* One more observation or bar.
LEMMA TtftMore ==
  ASSUME PlaceType, Is("probe", "ttft"), LoadNext
  PROVE  /\ ~TtftOver
         /\ \/ TtftPhaseOver /\ seen' = Append(seen, "|") /\ blips' = blips
            \/ /\ ~TtftPhaseOver
               /\ \E o \in CallKinds :
                     /\ seen' = Append(seen, o)
                     /\ \/ /\ blips' = blips
                           /\ o = FirstToken(\A i \in DOMAIN seen : seen[i] = "failed")
                        \/ blips' = blips + 1
<1>1. Ttft
  BY WhoseAction DEF LoadNext, Deadline, LoadJobs, Is
<1> DEFINE truth == FirstToken(\A i \in DOMAIN seen : seen[i] = "failed")
<1>2. truth \in CallKinds /\ blips \in Nat
  <2>1. \A first : FirstToken(first) \in {"warm", "cold"}
    BY LatencyIs DEF FirstToken
  <2> QED
    BY <2>1 DEF CallKinds, PlaceType
<1>3. CASE TtftPhaseOver
  BY <1>1, <1>3 DEF Ttft
<1>4. CASE ~TtftPhaseOver
  <2>1. ~TtftOver /\ Sees(truth, TokenKinds)
    BY <1>1, <1>4 DEF Ttft
  <2>3. TokenKinds \subseteq CallKinds
    BY DEF TokenKinds, CallKinds
  <2> HIDE DEF truth
  <2>2. \E o \in CallKinds :
           seen' = Append(seen, o) /\ ((blips' = blips /\ o = truth) \/ blips' = blips + 1)
    BY <1>2, <2>1, <2>3, SeenMore
  <2> QED
    BY <1>4, <2>1, <2>2 DEF truth
<1> QED
  BY <1>3, <1>4

\* The tallies of TtftInv.
LEMMA TtftCounts ==
  ASSUME PlaceType, TtftInv, Is("probe", "ttft"), LoadNext
  PROVE  /\ seen' \in Seq(CallKinds \cup {"|"})
         /\ (Bars # {} => /\ \E b \in Bars : \A j \in Bars : b <= j
                          /\ \E b \in Bars : \A j \in Bars : j <= b)'
         /\ (Cardinality(Bars) <= 3 /\ (Cardinality(Bars) = 3 => Ended("|")))'
         /\ (Cardinality(Got) <= Cardinality(Bars))'
         /\ (~Ended("warm") /\ Bars # {} => Cardinality(Got) < Cardinality(Bars))'
<1> DEFINE n == Len(seen)
           T == CallKinds \cup {"|"}
<1>1. /\ seen \in Seq(T)
      /\ Bars # {} => /\ \E b \in Bars : \A j \in Bars : b <= j
                      /\ \E b \in Bars : \A j \in Bars : j <= b
      /\ Cardinality(Bars) <= 3 /\ Cardinality(Got) <= Cardinality(Bars)
      /\ ~Ended("warm") /\ Bars # {} => Cardinality(Got) < Cardinality(Bars)
  BY DEF TtftInv
<1>2. /\ PollsDone = Cardinality(Bars) /\ IsFiniteSet(Bars) /\ Cardinality(Bars) \in Nat
      /\ IsFiniteSet(Got) /\ Cardinality(Got) \in Nat
  BY <1>1, BarsAre
<1>3. PollsDone # 3
  BY TtftMore DEF TtftOver, Samples
<1>4. n \in Nat /\ DOMAIN seen = 1 .. n /\ \A i \in 1 .. n : seen[i] \in T
  BY <1>1, ElementsOf
<1>5. \E o \in T : /\ seen' = Append(seen, o)
                   /\ o # "|" => ~TtftPhaseOver
  BY TtftMore DEF CallKinds
<1>6. PICK o \in T : seen' = Append(seen, o) /\ (o # "|" => ~TtftPhaseOver)
  BY <1>5
<1>7. /\ seen' \in Seq(T) /\ Len(seen') = n + 1 /\ seen'[n + 1] = o /\ seen' # <<>>
      /\ \A i \in 1 .. n : seen'[i] = seen[i]
  BY <1>1, <1>6
<1>8. \A x : Ended(x)' <=> o = x
  BY <1>7 DEF Ended
<1> HIDE DEF n, T
<1>9. \A i : i \in 1 .. n + 1 <=> i \in 1 .. n \/ i = n + 1
  BY <1>4
<1>10. Bars = {i \in 1 .. n : seen[i] = "|"} /\ Bars' = {i \in 1 .. n + 1 : seen'[i] = "|"}
  BY <1>7 DEF Bars, n
<1>11. Bars' = IF o = "|" THEN Bars \cup {n + 1} ELSE Bars
  BY <1>7, <1>9, <1>10
<1>12. /\ Got = {i \in 1 .. n : seen[i] = "warm" /\ \E j \in Bars : j < i}
       /\ Got' = {i \in 1 .. n + 1 : seen'[i] = "warm" /\ \E j \in Bars' : j < i}
  BY <1>7 DEF Got, n
<1>13. n + 1 \notin Bars /\ n + 1 \notin Got /\ \A j \in Bars : j \in 1 .. n
  BY <1>4, <1>10, <1>12
\* A bar.
<1>14. CASE o = "|"
  <2>1. Got' = Got
    BY <1>4, <1>7, <1>9, <1>11, <1>12, <1>13, <1>14
  <2>2. Cardinality(Bars') = Cardinality(Bars) + 1
    BY <1>2, <1>11, <1>13, <1>14, FS_AddElement
  <2>3. Cardinality(Bars') <= 3 /\ Cardinality(Got') < Cardinality(Bars')
    BY <1>1, <1>2, <1>3, <2>1, <2>2
  <2>4. \E b \in Bars' : \A j \in Bars' : j <= b
    BY <1>4, <1>11, <1>13, <1>14
  <2>5. \E b \in Bars' : \A j \in Bars' : b <= j
    <3>1. CASE Bars = {}
      BY <1>4, <1>11, <1>14, <3>1
    <3>2. CASE Bars # {}
      <4>1. PICK b \in Bars : \A j \in Bars : b <= j
        BY <1>1, <3>2
      <4>2. b \in Bars' /\ \A j \in Bars' : b <= j
        BY <1>4, <1>11, <1>13, <1>14, <4>1
      <4> QED
        BY <4>2
    <3> QED
      BY <3>1, <3>2
  <2>6. Cardinality(Got') \in Nat /\ Cardinality(Bars') \in Nat
    BY <1>2, <2>1, <2>2
  <2>7. Cardinality(Got') <= Cardinality(Bars')
    BY <2>3, <2>6
  <2> QED
    BY <1>7, <1>8, <1>14, <2>3, <2>4, <2>5, <2>7 DEF T
\* An answer.
<1>15. CASE o # "|"
  <2>1. Bars' = Bars
    BY <1>11, <1>15
  <2>2. Bars # {} => ~Ended("warm")
    <3> SUFFICES ASSUME Bars # {}, Ended("warm") PROVE FALSE
      OBVIOUS
    <3>1. PICK b \in Bars : \A j \in Bars : j <= b
      BY <1>1
    <3>2. seen[n] = "warm" /\ seen[b] = "|" /\ b \in 1 .. n /\ b \in 0 .. n
      BY <1>10, <1>13, <3>1 DEF Ended, n
    <3>3. n - b > 0
      <4>1. b # n
        BY <3>2
      <4> QED
        BY <1>4, <3>2, <4>1
    <3>4. b # 0
      BY <3>2
    <3>5. TtftPhaseOver
      BY <1>1, <3>1, <3>2, <3>3, <3>4, PhaseIs DEF n
    <3> QED
      BY <1>6, <1>15, <3>5
  <2>3. Bars # {} => Cardinality(Got) < Cardinality(Bars)
    BY <1>1, <2>2
  <2>4. CASE o = "warm" /\ Bars # {}
    <3>1. Got' = Got \cup {n + 1}
      BY <1>4, <1>7, <1>9, <1>12, <1>13, <2>1, <2>4
    <3>2. Cardinality(Got') = Cardinality(Got) + 1
      BY <1>2, <1>13, <3>1, FS_AddElement
    <3>3. Cardinality(Got') <= Cardinality(Bars')
      BY <1>2, <2>1, <2>3, <2>4, <3>2
    <3> QED
      BY <1>1, <1>2, <1>3, <1>7, <1>8, <2>1, <2>4, <3>3 DEF T
  <2>5. CASE ~(o = "warm" /\ Bars # {})
    <3>1. Got' = Got
      BY <1>4, <1>7, <1>9, <1>12, <1>13, <2>1, <2>5
    <3> QED
      BY <1>1, <1>2, <1>3, <1>7, <1>8, <2>1, <2>3, <2>5, <3>1 DEF T
  <2> QED
    BY <2>4, <2>5
<1> QED
  BY <1>14, <1>15
\* Where the last bar of the script's first n elements is.
LastBar(n) ==
    IF Instant
    THEN CASE n < 2 -> 0 [] n \in 2 .. 3 -> 2 [] n \in 4 .. 5 -> 4 [] OTHER -> 6
    ELSE IF world.reuse
    THEN CASE n < 3 -> 0 [] n \in 3 .. 4 -> 3 [] n \in 5 .. 6 -> 5 [] OTHER -> 7
    ELSE CASE n < 4 -> 0 [] n \in 4 .. 6 -> 4 [] n \in 7 .. 9 -> 7 [] OTHER -> 10

\* The script is what an undisturbed probe sees next.
LEMMA ScriptNext ==
  ASSUME Instant \in BOOLEAN, world.reuse \in BOOLEAN, NEW n \in 0 .. Len(Script)
  PROVE  /\ LastBar(n) \in 0 .. n
         /\ LastBar(n) # 0 => Script[LastBar(n)] = "|"
         /\ \A i \in 1 .. n : Script[i] = "|" => i <= LastBar(n)
         /\ \A i \in 1 .. n : Script[i] # "failed"
         /\ n < Len(Script) =>
              IF \/ n - LastBar(n) > 0 /\ n > 0 /\ Script[n] = "warm"
                 \/ n - LastBar(n) = IF LastBar(n) = 0 THEN WarmPolls ELSE Retries
              THEN Script[n + 1] = "|"
              ELSE Script[n + 1] = FirstToken(n = 0)
<1>1. CASE Instant
  <2>1. Script = <<"warm", "|", "warm", "|", "warm", "|">> /\ Len(Script) = 6
    BY <1>1 DEF Script
  <2>2. \A i \in 1 .. 6 : Script[i] = IF i \in {2, 4, 6} THEN "|" ELSE "warm"
    BY <2>1
  <2>3. n = 0 \/ n = 1 \/ n = 2 \/ n = 3 \/ n = 4 \/ n = 5 \/ n = 6
    BY <2>1
  <2>4. LastBar(n) = CASE n < 2 -> 0 [] n \in 2 .. 3 -> 2 [] n \in 4 .. 5 -> 4 [] OTHER -> 6
    BY <1>1 DEF LastBar
  <2>5. FirstToken(n = 0) = "warm"
    BY <1>1 DEF FirstToken, Latency, Instant
  <2> HIDE DEF Script, LastBar
  <2> QED
    BY <2>1, <2>2, <2>3, <2>4, <2>5 DEF WarmPolls, Retries
<1>2. CASE ~Instant /\ world.reuse
  <2>1. Script = <<"cold", "warm", "|", "warm", "|", "warm", "|">> /\ Len(Script) = 7
    BY <1>2 DEF Script
  <2>2. \A i \in 1 .. 7 :
           Script[i] = IF i = 1 THEN "cold" ELSE IF i \in {3, 5, 7} THEN "|" ELSE "warm"
    BY <2>1
  <2>3. n = 0 \/ n = 1 \/ n = 2 \/ n = 3 \/ n = 4 \/ n = 5 \/ n = 6 \/ n = 7
    BY <2>1
  <2>4. LastBar(n) = CASE n < 3 -> 0 [] n \in 3 .. 4 -> 3 [] n \in 5 .. 6 -> 5 [] OTHER -> 7
    BY <1>2 DEF LastBar
  <2>5. FirstToken(n = 0) = IF n = 0 THEN "cold" ELSE "warm"
    BY <1>2 DEF FirstToken, Latency, Instant
  <2> HIDE DEF Script, LastBar
  <2> QED
    BY <2>1, <2>2, <2>3, <2>4, <2>5 DEF WarmPolls, Retries
<1>3. CASE ~Instant /\ ~world.reuse
  <2>1. /\ Script = <<"cold", "cold", "cold", "|", "cold", "cold", "|", "cold", "cold", "|">>
        /\ Len(Script) = 10
    BY <1>3 DEF Script
  <2>2. \A i \in 1 .. 10 : Script[i] = IF i \in {4, 7, 10} THEN "|" ELSE "cold"
    BY <2>1
  <2>3. \/ n = 0 \/ n = 1 \/ n = 2 \/ n = 3 \/ n = 4 \/ n = 5
        \/ n = 6 \/ n = 7 \/ n = 8 \/ n = 9 \/ n = 10
    BY <2>1
  <2>4. LastBar(n) = CASE n < 4 -> 0 [] n \in 4 .. 6 -> 4 [] n \in 7 .. 9 -> 7 [] OTHER -> 10
    BY <1>3 DEF LastBar
  <2>5. FirstToken(n = 0) = "cold"
    BY <1>3 DEF FirstToken, Latency, Instant
  <2> HIDE DEF Script, LastBar
  <2> QED
    BY <2>1, <2>2, <2>3, <2>4, <2>5 DEF WarmPolls, Retries
<1> QED
  BY <1>1, <1>2, <1>3

\* Where its bars are.
LEMMA ScriptBars ==
  ASSUME Instant \in BOOLEAN, world.reuse \in BOOLEAN
  PROVE  \E a, b \in 1 .. Len(Script) :
            {i \in 1 .. Len(Script) : Script[i] = "|"} = {a, b, Len(Script)}
            /\ a < b /\ b < Len(Script)
<1>1. CASE Instant
  <2>1. Len(Script) = 6 /\ \A i \in 1 .. 6 : Script[i] = "|" <=> i = 2 \/ i = 4 \/ i = 6
    BY <1>1 DEF Script
  <2> HIDE DEF Script
  <2>2. {i \in 1 .. Len(Script) : Script[i] = "|"} = {2, 4, Len(Script)}
    BY <2>1
  <2> QED
    BY <2>1, <2>2
<1>2. CASE ~Instant /\ world.reuse
  <2>1. Len(Script) = 7 /\ \A i \in 1 .. 7 : Script[i] = "|" <=> i = 3 \/ i = 5 \/ i = 7
    BY <1>2 DEF Script
  <2> HIDE DEF Script
  <2>2. {i \in 1 .. Len(Script) : Script[i] = "|"} = {3, 5, Len(Script)}
    BY <2>1
  <2> QED
    BY <2>1, <2>2
<1>3. CASE ~Instant /\ ~world.reuse
  <2>1. Len(Script) = 10 /\ \A i \in 1 .. 10 : Script[i] = "|" <=> i = 4 \/ i = 7 \/ i = 10
    BY <1>3 DEF Script
  <2> HIDE DEF Script
  <2>2. {i \in 1 .. Len(Script) : Script[i] = "|"} = {4, 7, Len(Script)}
    BY <2>1
  <2> QED
    BY <2>1, <2>2
<1> QED
  BY <1>1, <1>2, <1>3

\* Three numbers are three, and two of them fewer.
LEMMA ThreeBars ==
  ASSUME NEW a \in Nat, NEW b \in Nat, NEW c \in Nat, a < b, b < c
  PROVE  /\ Cardinality({a, b, c}) = 3 /\ IsFiniteSet({a, b, c})
         /\ \A S \in SUBSET {a, b} : IsFiniteSet(S) /\ Cardinality(S) \in Nat /\ Cardinality(S) < 3
<1>1. IsFiniteSet({a}) /\ Cardinality({a}) = 1
  BY FS_Singleton
<1>2. IsFiniteSet({a} \cup {b}) /\ Cardinality({a} \cup {b}) = 2
  <2>1. b \notin {a}
    OBVIOUS
  <2>2. /\ IsFiniteSet({a} \cup {b})
        /\ Cardinality({a} \cup {b}) = Cardinality({a}) + 1
    BY <1>1, <2>1, FS_AddElement, Zenon
  <2> QED
    BY <1>1, <2>2
<1>3. IsFiniteSet(({a} \cup {b}) \cup {c}) /\ Cardinality(({a} \cup {b}) \cup {c}) = 3
  <2>1. c \notin {a} \cup {b}
    OBVIOUS
  <2>2. /\ IsFiniteSet(({a} \cup {b}) \cup {c})
        /\ Cardinality(({a} \cup {b}) \cup {c}) = Cardinality({a} \cup {b}) + 1
    BY <1>2, <2>1, FS_AddElement, Zenon
  <2> QED
    BY <1>2, <2>2
<1>4. {a, b, c} = ({a} \cup {b}) \cup {c} /\ {a, b} = {a} \cup {b}
  OBVIOUS
<1>5. ASSUME NEW S \in SUBSET {a, b}
      PROVE  IsFiniteSet(S) /\ Cardinality(S) \in Nat /\ Cardinality(S) < 3
  <2>1. S \subseteq {a} \cup {b}
    BY <1>4
  <2>2. IsFiniteSet(S) /\ Cardinality(S) <= Cardinality({a} \cup {b})
    BY <1>2, <2>1, FS_Subset
  <2>3. Cardinality(S) \in Nat
    BY <2>2, FS_CardinalityType
  <2> QED
    BY <1>2, <2>2, <2>3
<1> QED
  BY <1>3, <1>4, <1>5

\* An undisturbed probe with three bars has seen the whole script.
LEMMA ScriptEnds ==
  ASSUME Instant \in BOOLEAN, world.reuse \in BOOLEAN, NEW T, seen \in Seq(T),
         Len(seen) <= Len(Script), \A i \in 1 .. Len(seen) : seen[i] = Script[i]
  PROVE  PollsDone = 3 <=> Len(seen) = Len(Script)
<1> DEFINE n == Len(seen)
           m == Len(Script)
<1>1. n \in Nat /\ m \in Nat /\ n <= m
  BY DEF Script
<1>2. PollsDone = Cardinality(Bars)
  BY BarsAre
<1>3. PICK a \in 1 .. m, b \in 1 .. m :
         {i \in 1 .. m : Script[i] = "|"} = {a, b, m} /\ a < b /\ b < m
  BY ScriptBars
<1>4. Bars = {i \in 1 .. n : Script[i] = "|"}
  BY DEF Bars
<1> HIDE DEF n, m
<1>7. a \in Nat /\ b \in Nat
  BY <1>1, <1>3
<1>5. CASE n = m
  <2>1. Bars = {a, b, m}
    BY <1>3, <1>4, <1>5
  <2>2. Cardinality({a, b, m}) = 3
    BY <1>1, <1>3, <1>7, ThreeBars
  <2> QED
    BY <1>2, <1>5, <2>1, <2>2 DEF n, m
<1>6. CASE n # m
  <2>1. Bars \in SUBSET {a, b}
    <3>1. \A i \in 1 .. n : i \in 1 .. m /\ i # m
      BY <1>1, <1>6
    <3> QED
      BY <1>3, <1>4, <3>1
  <2>2. Cardinality(Bars) \in Nat /\ Cardinality(Bars) < 3
    <3>1. \A S \in SUBSET {a, b} : IsFiniteSet(S) /\ Cardinality(S) \in Nat /\ Cardinality(S) < 3
      BY <1>1, <1>3, <1>7, ThreeBars
    <3> QED
      BY <2>1, <3>1
  <2> QED
    BY <1>2, <1>6, <2>2 DEF n, m
<1> QED
  BY <1>5, <1>6

\* An undisturbed probe keeps to the script.
LEMMA ScriptKept ==
  ASSUME PlaceType, TtftInv, Is("probe", "ttft"), LoadNext, blips' = 0
  PROVE  Len(seen') <= Len(Script) /\ \A i \in 1 .. Len(seen') : seen'[i] = Script[i]
<1> DEFINE n == Len(seen)
           b == LastBar(n)
           T == CallKinds \cup {"|"}
           all == \A i \in DOMAIN seen : seen[i] = "failed"
<1>1. Instant \in BOOLEAN /\ world.reuse \in BOOLEAN
  BY TokenWorld DEF Is
<1>2. blips \in Nat
  BY DEF PlaceType
<1>18. blips' # blips + 1
  <2> HIDE DEF all
  <2> QED
    BY <1>2
<1>3. \/ TtftPhaseOver /\ seen' = Append(seen, "|") /\ blips' = blips
      \/ ~TtftPhaseOver /\ seen' = Append(seen, FirstToken(all)) /\ blips' = blips
  BY <1>18, TtftMore
<1>19. blips = 0
  <2> HIDE DEF all
  <2> QED
    BY <1>3
<1>4. /\ seen \in Seq(T) /\ n \in Nat /\ n <= Len(Script)
      /\ \A i \in 1 .. n : seen[i] = Script[i]
  BY <1>19 DEF TtftInv
<1>5. n # Len(Script)
  <2>1. PollsDone # 3
    BY TtftMore DEF TtftOver, Samples
  <2> QED
    BY <1>1, <1>4, <2>1, ScriptEnds
<1>6. Len(Script) \in Nat
  BY DEF Script
<1>7. n \in 0 .. Len(Script) /\ n < Len(Script)
  <2> HIDE DEF n
  <2> QED
    BY <1>4, <1>5, <1>6
<1>8. Bars = {i \in 1 .. n : Script[i] = "|"}
  BY <1>4 DEF Bars
<1>9. (Ended("warm") <=> n > 0 /\ Script[n] = "warm") /\ (all <=> n = 0)
  <2>1. seen # <<>> => n > 0
    BY <1>4, NotEmpty
  <2>2. n > 0 => seen # <<>>
    OBVIOUS
  <2>3. DOMAIN seen = 1 .. n
    BY <1>4, ElementsOf
  <2>4. \A i \in 1 .. n : Script[i] # "failed"
    BY <1>1, <1>7, ScriptNext
  <2>5. Ended("warm") <=> seen # <<>> /\ seen[n] = "warm"
    BY DEF Ended
  <2> HIDE DEF n
  <2>6. n > 0 => n \in 1 .. n /\ 1 \in 1 .. n
    BY <1>4
  <2>7. n = 0 => 1 .. n = {}
    OBVIOUS
  <2>8. all <=> n = 0
    BY <1>4, <2>3, <2>4, <2>6, <2>7
  <2> QED
    BY <1>4, <2>1, <2>2, <2>5, <2>6, <2>8
<1> HIDE DEF all
<1>10. /\ b \in 0 .. n /\ (b # 0 => Script[b] = "|")
       /\ \A i \in 1 .. n : Script[i] = "|" => i <= b
  BY <1>1, <1>7, ScriptNext
<1>11. IF \/ n - b > 0 /\ n > 0 /\ Script[n] = "warm"
          \/ n - b = IF b = 0 THEN WarmPolls ELSE Retries
       THEN Script[n + 1] = "|"
       ELSE Script[n + 1] = FirstToken(n = 0)
  BY <1>1, <1>7, ScriptNext
<1> HIDE DEF b
<1>12. /\ b = 0 => Bars = {}
       /\ b # 0 => b \in Bars /\ \A j \in Bars : j <= b
  <2> HIDE DEF n
  <2> QED
    BY <1>4, <1>8, <1>10
<1>13. TtftPhaseOver <=> \/ n - b > 0 /\ Ended("warm")
                         \/ n - b = IF b = 0 THEN WarmPolls ELSE Retries
  BY <1>4, <1>10, <1>12, PhaseIs
<1>14. FirstToken(all) = FirstToken(n = 0)
  BY <1>9 DEF FirstToken, Latency, Instant
<1>15. seen' = Append(seen, Script[n + 1])
  <2>1. CASE TtftPhaseOver
    <3>1. Script[n + 1] = "|"
      BY <1>9, <1>11, <1>13, <2>1
    <3> QED
      BY <1>3, <2>1, <3>1
  <2>2. CASE ~TtftPhaseOver
    <3>1. Script[n + 1] = FirstToken(n = 0)
      <4> HIDE DEF n
      <4> QED
        BY <1>9, <1>11, <1>13, <2>2
    <3> QED
      BY <1>3, <1>14, <2>2, <3>1
  <2> QED
    BY <2>1, <2>2
<1>16. Len(seen') = n + 1 /\ seen'[n + 1] = Script[n + 1] /\ \A i \in 1 .. n : seen'[i] = seen[i]
  BY <1>4, <1>15
<1> HIDE DEF n
<1>17. \A i \in 1 .. n + 1 : i \in 1 .. n \/ i = n + 1
  BY <1>4
<1> QED
  BY <1>4, <1>6, <1>7, <1>16, <1>17

\* A step of the time-to-first-token probe keeps what is known of it.
LEMMA TtftStep ==
  ASSUME PlaceType, TtftInv, LoadNext
  PROVE  TtftInv'
<1>1. UNCHANGED <<measured, world>>
  BY LoadFrame DEF PlaceType
<1>2. SUFFICES ASSUME Is("probe", "ttft") PROVE TtftInv'
  BY <1>1 DEF TtftInv, Is
<1>3. Script' = Script
  BY <1>1 DEF Script, Instant
<1>4. blips' = 0 => /\ Len(seen') <= Len(Script')
                    /\ \A i \in 1 .. Len(seen') : seen'[i] = Script'[i]
  BY <1>2, <1>3, ScriptKept
<1> QED
  BY <1>2, <1>4, TtftCounts DEF TtftInv

\* The polls are what was seen before the first bar.
LEMMA PollsAre ==
  ASSUME NEW T, seen \in Seq(T), NEW f \in Bars, \A j \in Bars : f <= j
  PROVE  /\ f \in 1 .. Len(seen) /\ Len(Polls) = f - 1 /\ DOMAIN Polls = 1 .. f - 1
         /\ \A i \in 1 .. f - 1 : Polls[i] = seen[i]
         /\ {i \in DOMAIN seen : seen[i] = "warm" /\ i > Len(Polls)} = Got
<1> DEFINE n == Len(seen)
<1>1. n \in Nat /\ DOMAIN seen = 1 .. n
  BY ElementsOf
<1>2. f \in 1 .. n /\ seen[f] = "|"
  BY DEF Bars
<1>3. Least(Bars) = f
  <2>1. Least(Bars) \in Bars /\ \A j \in Bars : Least(Bars) <= j
    BY BoundsOf
  <2>2. \A j \in Bars : j \in Nat
    BY <1>1 DEF Bars
  <2>3. Least(Bars) <= f /\ f <= Least(Bars) /\ Least(Bars) \in Nat /\ f \in Nat
    BY <2>1, <2>2
  <2> QED
    BY <2>3
<1>4. Polls = SubSeq(seen, 0 + 1, f - 1)
  <2>1. Polls = SubSeq(seen, 1, Least(Bars) - 1)
    BY BarsAre DEF Polls
  <2> QED
    BY <1>3, <2>1
<1>5. f - 1 \in Nat /\ f - 1 <= n /\ 0 <= f - 1
  BY <1>1, <1>2
<1>6. /\ Polls \in Seq(T) /\ Len(Polls) = (f - 1) - 0
      /\ \A i \in 1 .. (f - 1) - 0 : Polls[i] = seen[0 + i]
  <2> HIDE DEF n
  <2>1. f - 1 <= Len(seen) /\ 0 \in Nat
    BY <1>5 DEF n
  <2> QED
    BY <1>4, <1>5, <2>1, Slice
<1>7. (f - 1) - 0 = f - 1 /\ \A i \in 1 .. f - 1 : 0 + i = i
  BY <1>5
<1>8. Len(Polls) = f - 1 /\ \A i \in 1 .. f - 1 : Polls[i] = seen[i]
  BY <1>6, <1>7
<1>9. DOMAIN Polls = 1 .. f - 1
  BY <1>6, <1>8, ElementsOf
<1>10. Got = {i \in 1 .. n : seen[i] = "warm" /\ i > f - 1}
  <2>1. \A i \in 1 .. n : seen[i] = "warm" => ((\E j \in Bars : j < i) <=> i > f - 1)
    <3>1. ASSUME NEW i \in 1 .. n, seen[i] = "warm" PROVE (\E j \in Bars : j < i) <=> i > f - 1
      <4>1. i # f
        BY <1>2, <3>1
      <4>2. \A j \in Bars : j \in 1 .. n
        BY DEF Bars
      <4>3. \A j \in Bars : j \in Int /\ f <= j
        BY <4>2
      <4>4. i \in Int /\ f \in Int
        BY <1>2
      <4> HIDE DEF n
      <4> QED
        BY <4>1, <4>3, <4>4
    <3> QED
      BY <3>1
  <2> QED
    BY <2>1 DEF Got
<1> QED
  BY <1>1, <1>2, <1>8, <1>9, <1>10

\* A sample is got after the polls, at most one for each.
LEMMA TtftSamples ==
  ASSUME PlaceType, TtftInv, Is("probe", "ttft"), TtftOver
  PROVE  /\ \E f \in Bars : \A j \in Bars : f <= j
         /\ TtftVerdict.samples = Cardinality(Got) /\ TtftVerdict.samples <= Samples
<1>1. /\ seen \in Seq(CallKinds \cup {"|"})
      /\ Bars # {} => \E f \in Bars : \A j \in Bars : f <= j
      /\ Cardinality(Bars) = 3 => Ended("|")
      /\ ~Ended("warm") /\ Bars # {} => Cardinality(Got) < Cardinality(Bars)
  BY DEF TtftInv
<1>2. PollsDone = Cardinality(Bars) /\ Cardinality(Got) \in Nat
  BY <1>1, BarsAre
<1>3. Cardinality(Bars) = 3
  BY <1>2 DEF TtftOver, Samples
<1>4. Bars # {}
  BY <1>3, FS_EmptySet
<1>5. ~Ended("warm")
  BY <1>1, <1>3 DEF Ended
<1>6. PICK f \in Bars : \A j \in Bars : f <= j
  BY <1>1, <1>4
<1>7. {i \in DOMAIN seen : seen[i] = "warm" /\ i > Len(Polls)} = Got
  BY <1>1, <1>6, PollsAre
<1>8. TtftVerdict.samples = Cardinality(Got)
  BY <1>7 DEF TtftVerdict
<1> QED
  BY <1>1, <1>2, <1>3, <1>4, <1>5, <1>6, <1>8 DEF Samples

\* Where the first bar of an undisturbed probe is, and what is around it.
LEMMA FirstBar ==
  ASSUME Instant \in BOOLEAN, world.reuse \in BOOLEAN
  PROVE  \E f \in 2 .. Len(Script) :
            /\ Script[f] = "|" /\ \A i \in 1 .. f - 1 : Script[i] # "|" /\ Script[i] # "failed"
            /\ Script[1] = FirstToken(TRUE)
            /\ (\E i \in 1 .. f - 1 : Script[i] = "warm") <=> world.reuse \/ Instant
            /\ world.reuse \/ Instant =>
                  f + 1 \in 1 .. Len(Script) /\ Script[f + 1] = "warm"
<1>1. CASE Instant
  <2>1. /\ Len(Script) = 6 /\ Script[1] = "warm" /\ Script[2] = "|" /\ Script[3] = "warm"
        /\ FirstToken(TRUE) = "warm"
    BY <1>1 DEF Script, FirstToken, Latency, Instant
  <2> HIDE DEF Script, FirstToken
  <2>2. /\ 2 \in 2 .. Len(Script) /\ 2 + 1 \in 1 .. Len(Script) /\ 1 \in 1 .. 2 - 1
        /\ Script[2 + 1] = "warm" /\ \A i \in 1 .. 2 - 1 : i = 1
    BY <2>1
  <2> QED
    BY <1>1, <2>1, <2>2
<1>2. CASE ~Instant /\ world.reuse
  <2>1. /\ Len(Script) = 7 /\ Script[1] = "cold" /\ Script[2] = "warm" /\ Script[3] = "|"
        /\ Script[4] = "warm" /\ FirstToken(TRUE) = "cold"
    BY <1>2 DEF Script, FirstToken, Latency, Instant
  <2> HIDE DEF Script, FirstToken
  <2>2. /\ 3 \in 2 .. Len(Script) /\ 3 + 1 \in 1 .. Len(Script) /\ 2 \in 1 .. 3 - 1
        /\ Script[3 + 1] = "warm" /\ \A i \in 1 .. 3 - 1 : i = 1 \/ i = 2
    BY <2>1
  <2> QED
    BY <1>2, <2>1, <2>2
<1>3. CASE ~Instant /\ ~world.reuse
  <2>1. /\ Len(Script) = 10 /\ Script[1] = "cold" /\ Script[2] = "cold" /\ Script[3] = "cold"
        /\ Script[4] = "|" /\ FirstToken(TRUE) = "cold"
    BY <1>3 DEF Script, FirstToken, Latency, Instant
  <2> HIDE DEF Script, FirstToken
  <2>2. /\ 4 \in 2 .. Len(Script) /\ \A i \in 1 .. 4 - 1 : i = 1 \/ i = 2 \/ i = 3
    BY <2>1
  <2> QED
    BY <1>3, <2>1, <2>2
<1> QED
  BY <1>1, <1>2, <1>3

\* The measurement of the time to the first token.
LEMMA TtftHolds ==
  ASSUME PlaceType, TtftInv, Is("probe", "ttft"), TtftOver
  PROVE  /\ TtftVerdict.samples <= Samples
         /\ blips = 0 =>
             /\ TtftVerdict.reliable <=> (world.reuse \/ Instant)
             /\ TtftVerdict.cold = FirstToken(TRUE)
<1>1. SUFFICES ASSUME blips = 0
               PROVE  /\ TtftVerdict.reliable <=> (world.reuse \/ Instant)
                      /\ TtftVerdict.cold = FirstToken(TRUE)
  BY TtftSamples
<1>2. Instant \in BOOLEAN /\ world.reuse \in BOOLEAN
  BY TokenWorld DEF Is
<1>3. /\ seen \in Seq(CallKinds \cup {"|"}) /\ Len(seen) <= Len(Script)
      /\ \A i \in 1 .. Len(seen) : seen[i] = Script[i]
  BY <1>1 DEF TtftInv
<1>4. Len(seen) = Len(Script)
  <2>1. PollsDone = 3
    BY DEF TtftOver, Samples
  <2> QED
    BY <1>2, <1>3, <2>1, ScriptEnds
<1>5. PICK f \in 2 .. Len(seen) :
         /\ seen[f] = "|" /\ \A i \in 1 .. f - 1 : seen[i] # "|" /\ seen[i] # "failed"
         /\ seen[1] = FirstToken(TRUE)
         /\ (\E i \in 1 .. f - 1 : seen[i] = "warm") <=> world.reuse \/ Instant
         /\ world.reuse \/ Instant =>
               f + 1 \in 1 .. Len(seen) /\ seen[f + 1] = "warm"
  <2>1. PICK f \in 2 .. Len(Script) :
            /\ Script[f] = "|" /\ \A i \in 1 .. f - 1 : Script[i] # "|" /\ Script[i] # "failed"
            /\ Script[1] = FirstToken(TRUE)
            /\ (\E i \in 1 .. f - 1 : Script[i] = "warm") <=> world.reuse \/ Instant
            /\ world.reuse \/ Instant =>
                  f + 1 \in 1 .. Len(Script) /\ Script[f + 1] = "warm"
    BY <1>2, FirstBar
  <2>2. f \in 1 .. Len(seen) /\ 1 \in 1 .. Len(seen) /\ \A i \in 1 .. f - 1 : i \in 1 .. Len(seen)
    BY <1>4
  <2> QED
    BY <1>3, <1>4, <2>1, <2>2
<1> DEFINE n == Len(seen)
           answered == {i \in DOMAIN Polls : Polls[i] # "failed"}
<1>6. n \in Nat /\ DOMAIN seen = 1 .. n
  BY <1>3, ElementsOf
<1>7. f \in Bars /\ \A j \in Bars : f <= j
  <2>1. \A j \in 1 .. n : j \in 1 .. f - 1 \/ f <= j
    BY <1>5, <1>6
  <2> QED
    BY <1>5, <2>1 DEF Bars
<1>8. DOMAIN Polls = 1 .. f - 1 /\ \A i \in 1 .. f - 1 : Polls[i] = seen[i]
  BY <1>3, <1>7, PollsAre
<1>9. /\ TtftVerdict.cold = IF answered = {} THEN "none" ELSE Polls[Least(answered)]
      /\ TtftVerdict.reliable <=>
            (\E i \in DOMAIN Polls : Polls[i] = "warm") /\ WarmEnough(TtftVerdict.samples, Samples)
  BY DEF TtftVerdict
<1>10. answered = 1 .. f - 1
  BY <1>5, <1>8
<1> HIDE DEF answered
<1>11. 1 \in answered /\ answered \in SUBSET Nat /\ \A j \in answered : 1 <= j
  BY <1>5, <1>10
<1>12. Least(answered) = 1
  BY <1>11, LeastIs
<1>13. TtftVerdict.cold = FirstToken(TRUE)
  BY <1>5, <1>8, <1>9, <1>10, <1>11, <1>12
<1>14. TtftVerdict.reliable <=> (world.reuse \/ Instant)
  <2>1. (\E i \in DOMAIN Polls : Polls[i] = "warm") <=> world.reuse \/ Instant
    BY <1>5, <1>8
  <2>2. ASSUME world.reuse \/ Instant PROVE WarmEnough(TtftVerdict.samples, Samples)
    <3>1. f + 1 \in Got
      <4>1. f < f + 1
        BY <1>5
      <4> QED
        BY <1>5, <1>7, <2>2, <4>1 DEF Got
    <3>2. TtftVerdict.samples = Cardinality(Got) /\ IsFiniteSet(Got) /\ Cardinality(Got) \in Nat
      BY <1>3, BarsAre, TtftSamples
    <3>3. Cardinality(Got) # 0
      BY <3>1, <3>2, FS_EmptySet
    <3>4. TtftVerdict.samples \in Nat /\ TtftVerdict.samples # 0
      BY <3>2, <3>3
    <3> QED
      BY <3>4 DEF WarmEnough, Maximum, Samples
  <2> QED
    BY <1>9, <2>1, <2>2
<1> QED
  BY <1>13, <1>14

(***************************************************************************)
(* All of them.                                                            *)
(***************************************************************************)
\* Nothing has been seen at first.
LEMMA LoadInitial == DataPlaneInit => LoadInv
<1> SUFFICES ASSUME DataPlaneInit PROVE LoadInv
  OBVIOUS
<1>1. /\ PlaceType /\ seen = <<>> /\ blips = 0 /\ tally = NoTally /\ started = 0
      /\ crew = [w \in Workers |-> "idle"]
  BY DEF DataPlaneInit, LoadInit, LoadParked, PlaceType
<1>2. Len(seen) = 0 /\ 1 .. 0 = {} /\ 2 .. 0 = {} /\ \A S : seen \in Seq(S)
  BY <1>1
<1>3. RetentionInv /\ HonorInv /\ RateInv /\ CeilingInv /\ ScalingInv /\ CurveInv
  BY <1>2 DEF RetentionInv, HonorInv, RateInv, CeilingInv, ScalingInv, CurveInv
<1>4. CancelInv /\ IsolationInv /\ WritesInv
  BY <1>2 DEF CancelInv, IsolationInv, WritesInv
<1>5. CrewInv
  <2>1. InFlight = {}
    BY <1>1 DEF InFlight
  <2>2. Cardinality(InFlight) = 0
    BY <2>1, FS_EmptySet
  <2>3. tally \in [CallTypes -> Nat] /\ Errors = 0 /\ tally["ok"] = 0
    BY <1>1 DEF NoTally, CallTypes, Errors
  <2> QED
    BY <1>1, <2>1, <2>2, <2>3 DEF CrewInv
<1>6. TtftInv
  <2>1. Bars = {} /\ Got = {}
    BY <1>2 DEF Bars, Got
  <2>2. Cardinality(Bars) = 0 /\ Cardinality(Got) = 0
    BY <2>1, FS_EmptySet
  <2>3. Len(Script) \in Nat
    BY DEF Script
  <2> HIDE DEF Script
  <2> QED
    BY <1>2, <2>1, <2>2, <2>3 DEF TtftInv
<1> QED
  BY <1>1, <1>3, <1>4, <1>5, <1>6 DEF LoadInv, SessionInv

\* A measuring probe's step keeps it; a fault probe's step does not touch it.
LEMMA LoadInductive == LoadInv /\ [DataPlaneNext]_dataPlaneVars => LoadInv'
<1> SUFFICES ASSUME LoadInv, [DataPlaneNext]_dataPlaneVars PROVE LoadInv'
  OBVIOUS
<1>1. CASE LoadNext
  BY <1>1, PlaceStep, RetentionStep, HonorStep, RateStep, CeilingStep, ScalingStep, CrewStep,
     CurveStep, TtftStep, SessionStep DEF LoadInv
<1>2. CASE UNCHANGED loadVars
  <2>1. UNCHANGED <<measured, world, seen, blips, crew, tally, started>>
    BY <1>2 DEF loadVars
  <2>2. PlaceType' /\ RetentionInv' /\ HonorInv'
    BY <2>1 DEF LoadInv, PlaceType, RetentionInv, HonorInv, Is, ClassifyWake, HonorIdle,
                PromiseIdle
  <2>3. RateInv' /\ CeilingInv'
    BY <2>1 DEF LoadInv, RateInv, CeilingInv
  <2>4. ScalingInv'
    BY <2>1 DEF LoadInv, ScalingInv, Outlier, Rung, Succeeds
  <2>5. CrewInv'
    BY <2>1 DEF LoadInv, CrewInv, InFlight, Errors, Crew
  <2>6. CurveInv'
    BY <2>1 DEF LoadInv, CurveInv, Is, Latency
  <2>7. TtftInv'
    BY <2>1 DEF LoadInv, TtftInv, Is, Bars, Got, Ended, Script, Instant
  <2>8. SessionInv'
    BY <2>1 DEF LoadInv, SessionInv, CancelInv, IsolationInv, WritesInv
  <2> QED
    BY <2>2, <2>3, <2>4, <2>5, <2>6, <2>7, <2>8 DEF LoadInv
<1> QED
  BY <1>1, <1>2 DEF DataPlaneNext, dataPlaneVars

\* The verdicts follow from it.
LEMMA LoadInvVerdicts == LoadInv => LoadVerdictsHold
<1> SUFFICES ASSUME LoadInv PROVE LoadVerdictsHold
  OBVIOUS
<1>1. IdleVerdictsHold
  BY RetentionHolds, HonorHolds DEF LoadInv, IdleVerdictsHold
<1>2. LaddersHold
  <2>1. measured.name = "rate" /\ RateOver =>
          /\ RateVerdict.onset # 0 => RateVerdict.onset > world.limit
          /\ blips = 0 /\ world.header # "date" =>
                 Onset = (LET f == FirstFrom(RateLevels, world.limit + 1)
                          IN  IF f = Never THEN 0 ELSE f)
    BY RateHolds DEF LoadInv
  <2>2. measured.name = "ceiling" /\ CeilingOver =>
          /\ CeilingVerdict.hardLimit => world.hard /\ CeilingVerdict.maxInFlight > world.limit
          /\ blips = 0 =>
                 CeilingVerdict.maxInFlight =
                     (LET f == FirstFrom(CeilingLevels, world.limit + 1)
                      IN  IF f = Never THEN 500 ELSE f)
    BY CeilingHolds DEF LoadInv
  <2>3. measured.name = "scaling" /\ ScalingOver /\ blips <= 1 =>
          \A l \in DOMAIN RanLevels : ScalePoint(l) = Succeeds(RanLevels[l])
    BY ScalingHolds DEF LoadInv
  <2> QED
    BY <2>1, <2>2, <2>3 DEF LaddersHold
<1>3. LoadAddsUp
  BY CrewHolds DEF LoadInv
<1>4. SessionVerdictsHold
  <2>1. measured.name = "cancel" /\ Len(seen) = 3 =>
          /\ CancelVerdict.residual = {} => CancelVerdict.teardown
          /\ blips = 0 => /\ CancelVerdict.honored <=> world.slow
                          /\ CancelVerdict.teardown <=> ~world.stuck
    BY CancelHolds DEF LoadInv
  <2>2. measured.name = "isolation" =>
          /\ ~TenantIsolated => world.leaky
          /\ Len(seen) = 2 /\ blips = 0 => (TenantIsolated <=> ~world.leaky)
    BY IsolationHolds DEF LoadInv
  <2>3. measured.name = "writes" /\ Len(seen) = 2 /\ blips = 0 =>
          (Winner = "both" <=> ~world.leaky)
    BY WritesHolds DEF LoadInv
  <2>4. Is("probe", "curve") /\ Len(seen) = Calls =>
          /\ CurveVerdict.reliable => CurveErrors = 0 /\ 2 * WarmVals >= Len(seen) - 2
          /\ blips = 0 =>
              /\ CurveVerdict.reliable <=> (world.reuse \/ world.prewarmed)
              /\ CurveVerdict.cold = Latency(TRUE)
              /\ CurveVerdict.warmedAfter =
                     (IF world.prewarmed THEN 1 ELSE IF world.reuse THEN 2 ELSE Never)
    BY CurveHolds DEF LoadInv
  <2>5. Is("probe", "ttft") /\ TtftOver =>
          /\ TtftVerdict.samples <= Samples
          /\ blips = 0 =>
              /\ TtftVerdict.reliable <=> (world.reuse \/ world.prewarmed \/ ~world.stream)
              /\ world.stream => TtftVerdict.cold = Latency(TRUE)
    BY TtftHolds DEF LoadInv, FirstToken, Instant
  <2> QED
    BY <2>1, <2>2, <2>3, <2>4, <2>5 DEF SessionVerdictsHold
<1> QED
  BY <1>1, <1>2, <1>3, <1>4 DEF LoadVerdictsHold

\* LoadInv holds throughout, for any set of workers and any number of calls and blips.
THEOREM LoadProbesInvariant == DataPlaneSpec => []LoadInv
BY LoadInitial, LoadInductive, PTL DEF DataPlaneSpec

\* What a measuring probe says of the platform is so: idle thresholds are bracketed, ladders
\* stop at the right rung, every call of a load is counted under one outcome, and curves and
\* session-level probes report what the platform did, but for the first-token probe of an agent
\* that does not stream (`LoadVerdictsHold`).
THEOREM LoadVerdictsEarned == DataPlaneSpec => []LoadVerdictsHold
BY LoadProbesInvariant, LoadInvVerdicts, PTL
=============================================================================
