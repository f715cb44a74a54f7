--------------------------- MODULE PlanRunsProofs ---------------------------
(***************************************************************************)
(* Proofs about PlanRuns for any plan, any number of slots, sessions and   *)
(* faults: the inductive invariant PlanRunsInv, and from it that the       *)
(* aggregate of a plan is whole and pools runs that compare, that a        *)
(* campaign's manifest tells what happened (PlanIsSound), and that a       *)
(* resumed session leaves alone the slots that were complete               *)
(* (ResumedSlotsRest).                                                     *)
(***************************************************************************)
EXTENDS PlanRuns, FiniteSetTheorems, TLAPS

(***************************************************************************)
(* The sessions of RunPlan.                                                *)
(***************************************************************************)
\* The records a session can leave on disk; the type of a session's state.
Records == [slot : Slots, status : Terminal \cup {"interrupted"}, context : BOOLEAN, id : Nat,
            fingerprint : Fingerprints]
PlanType ==
    /\ disk \subseteq Records /\ made \in Nat /\ now \in Fingerprints
    /\ sessions \in Nat /\ faults \in Nat
    /\ pc \in {"idle", "slots", "aggregate"} /\ resumed \in BOOLEAN
    /\ existing \in [Slots -> Records \cup {Nothing}] /\ taken \in Seq(Records)

\* A record that can stand for slot s.
Stands(r, s) == r \in disk /\ r.slot = s /\ r.status # "interrupted"

\* What a session starts from and what it has taken stand for their slots.
SlotsInv ==
    /\ \A s \in Slots : existing[s] # Nothing => Stands(existing[s], s)
    /\ Len(taken) <= Warmup + Repeat
    /\ \A s \in DOMAIN taken : Stands(taken[s], s)
    /\ pc = "aggregate" => Len(taken) = Warmup + Repeat

\* In a resumed session a slot that is still to be run has no record to resume from.
ResumedInv ==
    resumed /\ pc = "slots" =>
        \A s \in Slots : s >= Turn /\ existing[s] = Nothing => Completed(s) = {}

\* The inductive invariant of the sessions.
SessionInv == PlanType /\ SlotsInv /\ ResumedInv /\ AggregateIsSound

(***************************************************************************)
(* The campaign of PlanManifest.                                           *)
(***************************************************************************)
\* The states of a manifest's entry; the type of a campaign's state.
States == TERMINAL_STATES \cup {"pending", "running"}
CampaignType ==
    /\ plan \in Seq(Tasks)
    /\ at \in {"start", "hook", "loop", "task", "out", "end"} \cup Stopped
    /\ manifest \in [DOMAIN plan -> States] /\ onDisk \in {<< >>, manifest}
    /\ results \in Seq(TERMINAL_STATES)
    /\ probe \in {"none", "down", "up", "reaped", "left"} /\ exit \in {0, 1, 2, 130, NoCode}
    /\ watch \in {"off", "on", "done"}

\* Where the command stands, and how far it has got.
LoopInv ==
    /\ Len(results) <= Len(plan)
    /\ at = "start" => results = << >> /\ manifest = Pending
    /\ at \in {"start", "hook", "loop", "task", "out"} => exit # 0
    /\ at = "task" => Entry <= Len(plan)

\* The manifest of a plan that names no task twice.
MarkedInv ==
    Distinct =>
        /\ \A i \in DOMAIN plan :
              IF i < Entry THEN manifest[i] = results[i]
              ELSE manifest[i] \in (IF i = Entry THEN {"running", "pending"} ELSE {"pending"})
        /\ at = "task" => manifest[Entry] = "running"
        /\ watch = "done" => seen = results /\ Len(results) = Len(plan)

\* The inductive invariant of the campaign.
CampaignInv == CampaignType /\ LoopInv /\ MarkedInv /\ ManifestIsTrue

\* Of the two commands a behaviour is of one, and the other's state stays as it began.
PlanRunsInv ==
    /\ plan = NoPlan => onDisk = << >> /\ exit = NoCode /\ at = "start"
    /\ plan = NoPlan => SessionInv
    /\ plan # NoPlan => aggregate = Nothing
    /\ plan # NoPlan => CampaignInv

(***************************************************************************)
(* The aggregate of a plan that was run to its end.                        *)
(***************************************************************************)
\* The scored runs among those taken (the measured slots with a verdict).
ScoredOf(runs) ==
    {runs[s] : s \in {t \in Slots : t > Warmup /\ runs[t].status \in Scored}}

\* What build_aggregate groups by fingerprint is the scored runs of the whole plan.
LEMMA GroupsAreScored ==
    ASSUME PlanType, Len(taken) = Warmup + Repeat
    PROVE  /\ IsFiniteSet(ScoredOf(taken))
           /\ \A f \in Fingerprints : Group(f) = {r \in ScoredOf(taken) : r.fingerprint = f}
           /\ \A r \in ScoredOf(taken) : r.fingerprint \in Fingerprints
<1>0. Warmup \in Nat /\ Repeat \in Nat /\ taken \in Seq(Records) /\ DOMAIN taken = Slots
  BY PlanAssumption DEF PlanType, Slots
<1>1. /\ Len(Measured) = Repeat /\ DOMAIN Measured = 1 .. Repeat
      /\ \A i \in 1 .. Repeat : i + Warmup \in Slots /\ Measured[i] = taken[i + Warmup]
  BY <1>0 DEF Measured, Slots
<1>2. ToSet(Measured) = {taken[s] : s \in {t \in Slots : t > Warmup}}
  <2>1. \A i \in 1 .. Repeat : i + Warmup \in {t \in Slots : t > Warmup}
    BY <1>0, <1>1
  <2>2. \A s \in Slots : s > Warmup => s - Warmup \in 1 .. Repeat /\ s = (s - Warmup) + Warmup
    BY <1>0 DEF Slots
  <2>3. ToSet(Measured) = {Measured[i] : i \in 1 .. Repeat}
    BY <1>1 DEF ToSet
  <2>4. \A s \in Slots : s > Warmup => Measured[s - Warmup] = taken[s]
    BY <1>1, <2>2
  <2> QED
    BY <1>1, <2>1, <2>2, <2>3, <2>4
<1>3. \A f \in Fingerprints : Group(f) = {r \in ScoredOf(taken) : r.fingerprint = f}
  BY <1>2 DEF Group, ScoredOf
<1>4. IsFiniteSet(ScoredOf(taken))
  <2>1. IsFiniteSet(Slots)
    BY <1>0, FS_Interval DEF Slots
  <2>2. IsFiniteSet({t \in Slots : t > Warmup /\ taken[t].status \in Scored})
    BY <2>1, FS_Subset
  <2> DEFINE T == {t \in Slots : t > Warmup /\ taken[t].status \in Scored}
  <2>3. IsFiniteSet({taken[s] : s \in T})
    <3> HIDE DEF T
    <3>1. IsFiniteSet(T)
      BY <2>2 DEF T
    <3>2. [s \in T |-> taken[s]] \in Surjection(T, {taken[s] : s \in T})
      BY DEF Surjection
    <3> QED
      BY <3>1, <3>2, FS_Surjection DEF ExistsSurjection
  <2> QED
    BY <2>3 DEF ScoredOf
<1>5. \A r \in ScoredOf(taken) : r.fingerprint \in Fingerprints
  <2>1. \A s \in Slots : taken[s] \in Records
    BY <1>0
  <2>2. \A r \in Records : r.fingerprint \in Fingerprints
    BY DEF Records
  <2> QED
    BY <2>1, <2>2 DEF ScoredOf
<1> QED
  BY <1>3, <1>4, <1>5

\* The largest group is empty only if nothing was scored.
LEMMA ChosenIsLargest ==
    ASSUME PlanType, Len(taken) = Warmup + Repeat, NEW f \in Fingerprints, Chosen(f),
           ScoredOf(taken) # {}
    PROVE  Group(f) # {}
<1>1. PICK r \in ScoredOf(taken) : r.fingerprint \in Fingerprints
  BY GroupsAreScored
<1> DEFINE g == r.fingerprint
<1>2. \A h \in Fingerprints : IsFiniteSet(Group(h))
  BY GroupsAreScored, FS_Subset
<1>3. Group(g) # {}
  BY <1>1, GroupsAreScored
<1>4. Cardinality(Group(g)) # 0 /\ Cardinality(Group(g)) \in Nat
  BY <1>1, <1>2, <1>3, FS_EmptySet, FS_CardinalityType
<1>5. Cardinality(Group(f)) >= Cardinality(Group(g)) /\ Cardinality(Group(f)) \in Nat
  BY <1>1, <1>2, FS_CardinalityType DEF Chosen
<1>6. Cardinality(Group(f)) # 0
  BY <1>4, <1>5
<1> QED
  BY <1>6, FS_EmptySet

\* ... and so what it pools agrees, and it knows whether it left a run out.
LEMMA AggregateStep == SessionInv /\ Aggregate => AggregateIsSound'
<1> SUFFICES ASSUME SessionInv, Aggregate PROVE AggregateIsSound'
  OBVIOUS
<1>0. PlanType /\ SlotsInv /\ Len(taken) = Warmup + Repeat /\ taken \in Seq(Records)
  BY DEF SessionInv, SlotsInv, PlanType, Aggregate
<1>1. PICK f \in Fingerprints :
         /\ Chosen(f)
         /\ aggregate' = [runs |-> taken, pooled |-> Group(f),
                          comparable |-> \A g \in Fingerprints \ {f} : Group(g) = {}]
  BY DEF Aggregate
<1>2. /\ aggregate'.runs = taken /\ aggregate'.pooled = Group(f)
      /\ aggregate'.comparable = (\A g \in Fingerprints \ {f} : Group(g) = {})
  BY <1>1
<1>3. AggregateIsWhole'
  <2>1. DOMAIN taken = Slots
    BY <1>0, PlanAssumption DEF Slots
  <2>2. \A s \in Slots : Stands(taken[s], s)
    BY <1>0, <2>1 DEF SlotsInv
  <2>3. disk' = disk
    BY DEF Aggregate
  <2> QED
    BY <1>0, <1>2, <2>2, <2>3 DEF AggregateIsWhole, Stands
<1>4. PooledAgree'
  <2> DEFINE S == ScoredOf(taken)
  <2>1. Group(f) = {r \in S : r.fingerprint = f} /\ \A r \in S : r.fingerprint \in Fingerprints
    BY <1>0, GroupsAreScored
  <2>2. S # {} => Group(f) # {}
    BY <1>0, <1>1, ChosenIsLargest
  <2>3. (\A g \in Fingerprints \ {f} : Group(g) = {}) => Group(f) = S
    <3>1. \A g \in Fingerprints : Group(g) = {r \in S : r.fingerprint = g}
      BY <1>0, GroupsAreScored
    <3> HIDE DEF S
    <3> QED
      BY <2>1, <3>1
  <2> HIDE DEF S
  <2>4. /\ Group(f) \subseteq S
        /\ \A r, q \in Group(f) : r.fingerprint = q.fingerprint
    BY <2>1
  <2>5. ScoredOf(aggregate'.runs) = S
    BY <1>2 DEF S
  <2>6. ASSUME NEW scored, scored = S
        PROVE  /\ aggregate'.pooled \subseteq scored
               /\ \A r, q \in aggregate'.pooled : r.fingerprint = q.fingerprint
               /\ aggregate'.comparable => aggregate'.pooled = scored
               /\ scored # {} => aggregate'.pooled # {}
    BY <1>2, <2>2, <2>3, <2>4, <2>6
  <2> QED
    BY <2>5, <2>6 DEF PooledAgree, ScoredOf
<1> QED
  BY <1>3, <1>4 DEF AggregateIsSound

\* No other step writes the aggregate, and records stay on disk.
LEMMA AggregateStays ==
    SessionInv /\ aggregate' = aggregate /\ disk \subseteq disk' => AggregateIsSound'
<1> SUFFICES ASSUME SessionInv, aggregate' = aggregate, disk \subseteq disk'
             PROVE  AggregateIsSound'
  OBVIOUS
<1>1. AggregateIsWhole'
  BY DEF SessionInv, AggregateIsSound, AggregateIsWhole
<1>2. PooledAgree'
  BY DEF SessionInv, AggregateIsSound, PooledAgree
<1> QED
  BY <1>1, <1>2 DEF AggregateIsSound

(***************************************************************************)
(* The sessions.                                                           *)
(***************************************************************************)
\* A plan starts from what is on disk.
LEMMA SessionInit == Init => SessionInv
<1> SUFFICES ASSUME Init PROVE SessionInv
  OBVIOUS
<1>1. << >> \in Seq(Records) /\ Len(<< >>) = 0 /\ DOMAIN << >> = {}
  OBVIOUS
<1>1a. PlanType
  BY <1>1 DEF Init, PlanType
<1>1b. SlotsInv /\ ResumedInv
  BY <1>1, PlanAssumption DEF Init, SlotsInv, ResumedInv
<1>2. AggregateIsSound
  BY DEF Init, AggregateIsSound, AggregateIsWhole, PooledAgree
<1> QED
  BY <1>1a, <1>1b, <1>2 DEF SessionInv

\* A run leaves a record that stands for the slot whose turn it is.
LEMMA RecordedIs ==
    ASSUME SessionInv, Turn \in Slots, NEW st \in Terminal \cup {"interrupted"},
           NEW c \in BOOLEAN
    PROVE  /\ Recorded(st, c) \in Records
           /\ Recorded(st, c).slot = Turn /\ Recorded(st, c).status = st
           /\ Recorded(st, c).context = c
  BY DEF SessionInv, PlanType, Recorded, Records

\* The steps of a session keep its invariant: what is on disk stays, and what a session has
\* taken for a slot stands for it.
LEMMA SessionStep == SessionInv /\ [Next]_vars => SessionInv'
<1> SUFFICES ASSUME SessionInv, [Next]_vars PROVE SessionInv'
  OBVIOUS
<1>0. PlanType /\ SlotsInv /\ ResumedInv /\ Warmup \in Nat /\ Repeat \in Nat
      /\ taken \in Seq(Records) /\ disk \subseteq Records
  BY PlanAssumption DEF SessionInv, PlanType
<1>1. CASE Begin
  <2>1. \A s \in Slots : existing'[s] \in Completed(s) \cup {Nothing}
    BY <1>1 DEF Begin, Prior
  <2>2. existing' \in [Slots -> Records \cup {Nothing}]
    BY <1>0, <1>1 DEF Begin
  <2>3. PlanType'
    <3>1. << >> \in Seq(Records)
      OBVIOUS
    <3>2. taken' = << >> /\ resumed' \in BOOLEAN /\ sessions' = sessions + 1 /\ now' \in Fingerprints
          /\ pc' = "slots" /\ UNCHANGED <<disk, made, faults>>
      BY <1>1 DEF Begin
    <3> QED
      BY <1>0, <2>2, <3>1, <3>2 DEF PlanType
  <2>4. SlotsInv'
    BY <1>0, <1>1, <2>1 DEF Begin, SlotsInv, Stands, Completed
  <2>5. ResumedInv'
    <3>1. \A s \in Slots : Nothing \notin Completed(s)
      BY <1>0, NothingAssumption DEF Completed, Records
    <3>2. \A s \in Slots : resumed' /\ existing'[s] = Nothing => Completed(s) = {}
      BY <1>1, <3>1 DEF Begin, Prior
    <3>3. disk' = disk
      BY <1>1 DEF Begin
    <3> QED
      BY <3>2, <3>3 DEF ResumedInv, Completed
  <2>6. AggregateIsSound'
    BY <1>1, AggregateStays DEF Begin
  <2> QED
    BY <2>3, <2>4, <2>5, <2>6 DEF SessionInv
<1>2. CASE Reuse
  <2>1. existing[Turn] \in Records /\ Stands(existing[Turn], Turn) /\ Turn \in Slots
    BY <1>0, <1>2 DEF Reuse, SlotsInv, PlanType
  <2>2. /\ taken' \in Seq(Records) /\ Len(taken') = Len(taken) + 1
        /\ \A s \in DOMAIN taken' : taken'[s] = IF s \in DOMAIN taken THEN taken[s] ELSE existing[Turn]
        /\ \A s \in DOMAIN taken' : s \in DOMAIN taken \/ s = Turn
    BY <1>0, <1>2, <2>1 DEF Reuse, Turn
  <2>3. PlanType'
    BY <1>0, <1>2, <2>2 DEF PlanType, Reuse
  <2>4. SlotsInv'
    <3>1. Len(taken') <= Warmup + Repeat
      BY <1>0, <2>1, <2>2 DEF Turn, Slots
    <3>2. \A s \in DOMAIN taken' : Stands(taken'[s], s)
      BY <1>0, <2>1, <2>2 DEF SlotsInv
    <3> QED
      BY <1>0, <1>2, <3>1, <3>2 DEF Reuse, SlotsInv, Stands
  <2>5. ResumedInv'
    BY <1>0, <1>2, <2>2 DEF Reuse, ResumedInv, Completed, Turn, Slots
  <2>6. AggregateIsSound'
    BY <1>2, AggregateStays DEF Reuse
  <2> QED
    BY <2>3, <2>4, <2>5, <2>6 DEF SessionInv
<1>3. CASE Run
  <2>0. Turn \in Slots
    BY <1>3 DEF Run
  <2>1. PICK r \in Records : /\ r.slot = Turn /\ r.status # "interrupted"
                             /\ taken' = Append(taken, r)
    <3>1. CASE \E st \in Terminal : taken' = Append(taken, Recorded(st, TRUE))
      BY <2>0, <3>1, RecordedIs DEF Terminal
    <3>2. CASE taken' = Append(taken, Recorded("failed", FALSE))
      BY <2>0, <3>2, RecordedIs DEF Terminal
    <3> QED
      BY <1>3, <3>1, <3>2 DEF Run
  <2>2. /\ taken' \in Seq(Records) /\ Len(taken') = Len(taken) + 1 /\ Last(taken') = r
        /\ \A s \in DOMAIN taken' : taken'[s] = IF s \in DOMAIN taken THEN taken[s] ELSE r
        /\ \A s \in DOMAIN taken' : s \in DOMAIN taken \/ s = Turn
    BY <1>0, <2>1 DEF Turn, Last
  <2>3. disk' = disk \cup {r}
    BY <1>3, <2>2 DEF Run
  <2>4. PlanType'
    <3>1. disk' \subseteq Records /\ made' = made + 1 /\ faults' \in Nat
      <4>1. made' = made + 1 /\ (faults' = faults \/ faults' = faults + 1)
        BY <1>3 DEF Run, Fault
      <4> QED
        BY <1>0, <2>3, <4>1 DEF PlanType
    <3>2. UNCHANGED <<now, sessions, pc, resumed, existing>>
      BY <1>3 DEF Run
    <3> QED
      BY <1>0, <2>2, <3>1, <3>2 DEF PlanType
  <2>5. SlotsInv'
    <3>1. Len(taken') <= Warmup + Repeat
      BY <1>0, <2>0, <2>2 DEF Turn, Slots
    <3>2. \A s \in DOMAIN taken' :
              taken'[s] \in disk' /\ taken'[s].slot = s /\ taken'[s].status # "interrupted"
      BY <1>0, <2>1, <2>2, <2>3 DEF SlotsInv, Stands
    <3>3. pc' = "slots" /\ existing' = existing
      BY <1>3 DEF Run
    <3>4. \A s \in Slots : existing[s] # Nothing =>
             existing[s] \in disk' /\ existing[s].slot = s /\ existing[s].status # "interrupted"
      BY <1>0, <2>3 DEF SlotsInv, Stands
    <3> QED
      BY <3>1, <3>2, <3>3, <3>4 DEF SlotsInv, Stands
  <2>6. ResumedInv'
    <3> SUFFICES ASSUME resumed', pc' = "slots", NEW s \in Slots, s >= Turn', existing'[s] = Nothing
                 PROVE  Completed(s)' = {}
      BY DEF ResumedInv
    <3>1. resumed /\ pc = "slots" /\ existing[s] = Nothing
      BY <1>3 DEF Run
    <3>2. s >= Turn /\ s # Turn
      BY <1>0, <2>2 DEF Turn, Slots
    <3>3. Completed(s) = {}
      BY <1>0, <3>1, <3>2 DEF ResumedInv
    <3> QED
      BY <2>1, <2>3, <3>2, <3>3 DEF Completed
  <2>7. AggregateIsSound'
    BY <1>3, <2>3, AggregateStays DEF Run
  <2> QED
    BY <2>4, <2>5, <2>6, <2>7 DEF SessionInv
<1>4. CASE SlotsDone
  <2>1. PlanType'
    BY <1>0, <1>4 DEF PlanType, SlotsDone
  <2>2. SlotsInv'
    BY <1>0, <1>4 DEF SlotsInv, SlotsDone, Stands, Turn, Slots
  <2>3. ResumedInv' /\ AggregateIsSound'
    BY <1>4, AggregateStays DEF ResumedInv, SlotsDone
  <2> QED
    BY <2>1, <2>2, <2>3 DEF SessionInv
<1>5. CASE Aggregate
  <2>1. PlanType'
    BY <1>0, <1>5 DEF PlanType, Aggregate
  <2>2. SlotsInv' /\ ResumedInv'
    BY <1>0, <1>5 DEF SlotsInv, Aggregate, Stands, ResumedInv
  <2>3. AggregateIsSound'
    BY <1>5, AggregateStep
  <2> QED
    BY <2>1, <2>2, <2>3 DEF SessionInv
<1>6. CASE RunCut
  <2>1. disk \subseteq disk' /\ disk' \subseteq Records
    <3>1. Recorded("interrupted", TRUE) \in Records /\ Recorded("failed", FALSE) \in Records
      BY <1>6, RecordedIs DEF RunCut, Terminal
    <3> QED
      BY <1>0, <1>6, <3>1 DEF RunCut
  <2>2. PlanType'
    BY <1>0, <1>6, <2>1 DEF PlanType, RunCut, Fault
  <2>3. SlotsInv' /\ ResumedInv'
    BY <1>0, <1>6, <2>1 DEF SlotsInv, RunCut, Stands, ResumedInv
  <2>4. AggregateIsSound'
    BY <1>6, <2>1, AggregateStays DEF RunCut
  <2> QED
    BY <2>2, <2>3, <2>4 DEF SessionInv
<1>7. CASE Die
  <2>1. PlanType'
    BY <1>0, <1>7 DEF PlanType, Die, Fault
  <2>2. SlotsInv' /\ ResumedInv' /\ AggregateIsSound'
    BY <1>0, <1>7, AggregateStays DEF SlotsInv, Die, Stands, ResumedInv
  <2> QED
    BY <2>1, <2>2 DEF SessionInv
<1>8. CASE UNCHANGED vars
  BY <1>0, <1>8, AggregateStays DEF vars, SessionInv, PlanType, SlotsInv, Stands, ResumedInv,
  Turn,
     Completed
<1> QED
  BY <1>1, <1>2, <1>3, <1>4, <1>5, <1>6, <1>7, <1>8 DEF Next, Finished

\* Only Run and RunCut write a record; RunCut's does not count, and Run's is of a slot that
\* had nothing to resume from.
LEMMA RestStep ==
    SessionInv /\ [Next]_vars =>
        (resumed => \A s \in Slots : Completed(s) # {} => Completed(s)' = Completed(s))
<1> SUFFICES ASSUME SessionInv, [Next]_vars, resumed, NEW s \in Slots, Completed(s) # {}
             PROVE  Completed(s)' = Completed(s)
  OBVIOUS
<1>1. ASSUME disk' = disk PROVE Completed(s)' = Completed(s)
  BY <1>1 DEF Completed
<1>2. CASE Run
  <2>0. Turn \in Slots /\ existing[Turn] = Nothing /\ pc = "slots"
    BY <1>2 DEF Run
  <2>1. s # Turn
    BY <2>0, PlanAssumption DEF SessionInv, ResumedInv, PlanType, Turn, Slots
  <2>2. PICK r \in Records : r.slot = Turn /\ taken' = Append(taken, r)
    BY <1>2, <2>0, RecordedIs DEF Run, Terminal
  <2>3. disk' = disk \cup {r}
    <3>1. taken \in Seq(Records)
      BY DEF SessionInv, PlanType
    <3>2. Last(Append(taken, r)) = r
      BY <3>1 DEF Last
    <3> QED
      BY <1>2, <2>2, <3>2 DEF Run
  <2> QED
    BY <2>1, <2>2, <2>3 DEF Completed
<1>3. CASE RunCut
  <2>1. ~Recorded("failed", FALSE).context /\ Recorded("interrupted", TRUE).status = "interrupted"
    BY DEF Recorded
  <2> QED
    BY <1>3, <2>1 DEF RunCut, Completed
<1> QED
  BY <1>1, <1>2, <1>3 DEF Next, Finished, vars, Begin, Reuse, SlotsDone, Aggregate, Die

(***************************************************************************)
(* The campaign.                                                           *)
(***************************************************************************)
\* In a plan that names no task twice, Mark finds the entry itself.
LEMMA SlotIs ==
    ASSUME Distinct, NEW i \in DOMAIN plan, plan \in Seq(Tasks) PROVE Slot(plan[i]) = i
<1>1. \A j \in 1 .. i - 1 : plan[j] # plan[i]
  <2> SUFFICES ASSUME NEW j \in 1 .. i - 1, plan[j] = plan[i] PROVE FALSE
    OBVIOUS
  <2>1. j \in DOMAIN plan /\ j < i
    OBVIOUS
  <2> QED
    BY <2>1 DEF Distinct
<1>2. \A k \in DOMAIN plan : plan[k] = plan[i] => k = i
  BY DEF Distinct
<1> QED
  BY <1>1, <1>2 DEF Slot

\* A campaign starts with every task pending.
LEMMA CampaignInit == ManifestInit /\ plan # NoPlan => CampaignInv
<1> SUFFICES ASSUME ManifestInit, plan # NoPlan PROVE CampaignInv
  OBVIOUS
<1>1. plan \in Seq(Tasks)
  BY DEF ManifestInit, Plans
<1>2. CampaignType
  BY <1>1 DEF ManifestInit, CampaignType, Pending, States, NoCode, Stopped
<1>3. LoopInv
  BY <1>1 DEF ManifestInit, LoopInv, NoCode
<1>4. MarkedInv /\ ManifestIsTrue
  BY <1>1 DEF ManifestInit, MarkedInv, ManifestIsTrue, Entry, Pending, NoCode
<1> QED
  BY <1>2, <1>3, <1>4 DEF CampaignInv

\* The campaign's type is inductive.
LEMMA CampaignTypeStep ==
    CampaignInv /\ (CampaignStep \/ Killed \/ Watch) => CampaignType'
<1> SUFFICES ASSUME CampaignInv, CampaignStep \/ Killed \/ Watch PROVE CampaignType'
  OBVIOUS
<1>0. CampaignType /\ LoopInv
  BY DEF CampaignInv
<1> USE <1>0 DEF CampaignType, Stopped, Unwatched
<1>1. CASE OpenCampaign \/ NoCarrier \/ StartProbe \/ BadEntry
  BY <1>1 DEF OpenCampaign, NoCarrier, StartProbe, BadEntry
<1>2. ASSUME NEW e \in DOMAIN plan, NEW status \in States, Mark(plan[e], status)
      PROVE  manifest' \in [DOMAIN plan -> States] /\ onDisk' = manifest'
  BY <1>2 DEF Mark
<1>3. CASE MarkRunning
  <2>1. Entry \in DOMAIN plan
    BY <1>3 DEF MarkRunning, Entry
  <2>2. manifest' \in [DOMAIN plan -> States] /\ onDisk' = manifest'
    BY <1>2, <1>3, <2>1 DEF MarkRunning, States
  <2> QED
    BY <1>3, <2>2 DEF MarkRunning
<1>4. CASE MarkDone
  <2>1. Entry \in DOMAIN plan
    BY <1>4 DEF MarkDone, LoopInv, Entry
  <2>2. manifest' \in [DOMAIN plan -> States] /\ onDisk' = manifest'
    BY <1>2, <1>4, <2>1 DEF MarkDone, States
  <2>3. results' \in Seq(TERMINAL_STATES)
    BY <1>4 DEF MarkDone
  <2> QED
    BY <1>4, <2>2, <2>3 DEF MarkDone
<1>5. CASE Interrupt \/ LoopEnds \/ Leave
  BY <1>5 DEF Interrupt, LoopEnds, Leave, StopProbe
<1>6. CASE Killed \/ Watch
  BY <1>6 DEF Killed, Watch
<1> QED
  BY <1>1, <1>3, <1>4, <1>5, <1>6 DEF CampaignStep

\* The loop is at a task only while one is left.
LEMMA LoopStep == CampaignInv /\ (CampaignStep \/ Killed \/ Watch) => LoopInv'
<1> SUFFICES ASSUME CampaignInv, CampaignStep \/ Killed \/ Watch PROVE LoopInv'
  OBVIOUS
<1>0. CampaignType /\ LoopInv
  BY DEF CampaignInv
<1> USE <1>0 DEF CampaignType, LoopInv, Unwatched, Entry
<1>1. CASE OpenCampaign \/ NoCarrier \/ StartProbe \/ BadEntry
  BY <1>1 DEF OpenCampaign, NoCarrier, StartProbe, BadEntry
<1>2. CASE MarkRunning
  BY <1>2 DEF MarkRunning
<1>3. CASE MarkDone
  <2>1. Len(results') = Len(results) + 1
    BY <1>3 DEF MarkDone
  <2> QED
    BY <1>3, <2>1 DEF MarkDone
<1>4. CASE Interrupt \/ LoopEnds \/ Leave
  BY <1>4 DEF Interrupt, LoopEnds, Leave
<1>5. CASE Killed \/ Watch
  BY <1>5 DEF Killed, Watch, Pending
<1> QED
  BY <1>1, <1>2, <1>3, <1>4, <1>5 DEF CampaignStep

\* Each entry is marked in its place; a watcher that is done saw the last of them.
LEMMA MarkedStep == CampaignInv /\ (CampaignStep \/ Killed \/ Watch) => MarkedInv'
<1> SUFFICES ASSUME CampaignInv, CampaignStep \/ Killed \/ Watch, Distinct' PROVE MarkedInv'
  BY DEF MarkedInv
<1>0. CampaignType /\ LoopInv /\ plan \in Seq(Tasks) /\ results \in Seq(TERMINAL_STATES)
      /\ manifest \in [DOMAIN plan -> States] /\ Len(results) \in Nat /\ Len(plan) \in Nat
      /\ DOMAIN plan = 1 .. Len(plan)
  BY DEF CampaignInv, CampaignType
<1>1. UNCHANGED plan
  BY DEF CampaignStep, OpenCampaign, NoCarrier, StartProbe, BadEntry, MarkRunning, MarkDone,
     Interrupt, LoopEnds, Leave, StopProbe, Killed, Watch
<1>2. Distinct /\ MarkedInv
  BY <1>1 DEF CampaignInv, Distinct
<1> USE DEF Unwatched
<1>3. ASSUME UNCHANGED <<manifest, results, watch, seen>>, at' # "task"
      PROVE  MarkedInv'
  BY <1>1, <1>2, <1>3 DEF MarkedInv, Entry
<1>4. CASE OpenCampaign \/ NoCarrier \/ StartProbe \/ BadEntry \/ Interrupt \/ LoopEnds \/ Leave
           \/ Killed
  BY <1>3, <1>4 DEF OpenCampaign, NoCarrier, StartProbe, BadEntry, Interrupt, LoopEnds, Leave,
  StopProbe, Killed
<1>5. CASE MarkRunning
  <2>1. Entry \in DOMAIN plan /\ at' = "task"
    BY <1>0, <1>5 DEF MarkRunning, Entry
  <2>2. Slot(plan[Entry]) = Entry
    BY <1>0, <1>2, <2>1, SlotIs
  <2>3. manifest' = [manifest EXCEPT ![Entry] = "running"] /\ UNCHANGED <<results, watch, seen>>
    BY <1>5, <2>2 DEF MarkRunning, Mark
  <2>4. Len(results) # Len(plan) /\ Entry' = Entry /\ Entry \in Nat
    BY <1>0, <2>1, <2>3 DEF Entry
  <2>5. \A i \in DOMAIN plan :
           IF i < Entry THEN manifest'[i] = results[i]
           ELSE manifest'[i] \in (IF i = Entry THEN {"running", "pending"} ELSE {"pending"})
    BY <1>0, <1>2, <2>3, <2>4 DEF MarkedInv
  <2>6. manifest'[Entry] = "running"
    BY <1>0, <2>1, <2>3
  <2>7. watch' # "done"
    BY <1>2, <2>3, <2>4 DEF MarkedInv
  <2> QED
    BY <1>1, <2>3, <2>4, <2>5, <2>6, <2>7 DEF MarkedInv
<1>6. CASE MarkDone
  <2>1. Entry \in DOMAIN plan /\ Entry = Len(results) + 1
    BY <1>0, <1>6 DEF MarkDone, LoopInv, Entry
  <2>2. PICK status \in TERMINAL_STATES : /\ results' = Append(results, status)
                                          /\ Mark(plan[Entry], status)
    BY <1>6 DEF MarkDone
  <2>3. Slot(plan[Entry]) = Entry
    BY <1>0, <1>2, <2>1, SlotIs
  <2>4. manifest' = [manifest EXCEPT ![Entry] = status]
    BY <2>2, <2>3 DEF Mark
  <2>5. /\ Entry' = Entry + 1
        /\ \A i \in 1 .. Len(results) : results'[i] = results[i]
        /\ results'[Entry] = status
    BY <1>0, <2>1, <2>2 DEF Entry
  <2>6. \A i \in DOMAIN plan :
           IF i < Entry' THEN manifest'[i] = results'[i]
           ELSE manifest'[i] \in (IF i = Entry' THEN {"running", "pending"} ELSE {"pending"})
    <3> SUFFICES ASSUME NEW i \in DOMAIN plan
                 PROVE  IF i < Entry' THEN manifest'[i] = results'[i]
                        ELSE manifest'[i] = "pending"
      OBVIOUS
    <3>0. i \in Nat /\ Entry \in Nat
      BY <1>0, <2>1
    <3>1. CASE i < Entry
      <4>1. i \in 1 .. Len(results) /\ i # Entry /\ i < Entry'
        BY <1>0, <2>1, <2>5, <3>0, <3>1
      <4>2. manifest[i] = results[i]
        BY <1>2, <3>1 DEF MarkedInv
      <4> QED
        BY <1>0, <2>4, <2>5, <4>1, <4>2
    <3>2. CASE i = Entry
      <4>1. i < Entry' /\ manifest'[i] = status
        BY <1>0, <2>4, <2>5, <3>0, <3>2
      <4>2. results'[i] = status
        BY <2>5, <3>2
      <4> QED
        BY <4>1, <4>2
    <3>3. CASE i > Entry
      BY <1>0, <1>2, <2>1, <2>4, <2>5, <3>3 DEF MarkedInv
    <3> QED
      BY <1>0, <2>1, <3>1, <3>2, <3>3
  <2>7. at' = "loop" /\ UNCHANGED <<watch, seen>> /\ Len(results) # Len(plan)
    BY <1>0, <1>6, <2>1 DEF MarkDone
  <2>8. watch' # "done"
    BY <1>2, <2>7 DEF MarkedInv
  <2> QED
    BY <1>1, <2>6, <2>7, <2>8 DEF MarkedInv
<1>7. CASE Watch
  <2>1. UNCHANGED <<at, manifest, onDisk, results>> /\ seen' = manifest
    BY <1>0, <1>7 DEF Watch, CampaignType
  <2>2. ASSUME watch' = "done" PROVE seen' = results /\ Len(results) = Len(plan)
    <3>1. \A i \in DOMAIN plan : manifest[i] \in {"completed", "failed"}
      BY <1>0, <1>7, <2>1, <2>2 DEF Watch, TERMINAL_STATES
    <3>2. Entry \notin DOMAIN plan
      <4>1. Entry \in DOMAIN plan => manifest[Entry] \in {"running", "pending"}
        BY <1>0, <1>2 DEF MarkedInv
      <4> QED
        BY <3>1, <4>1
    <3>3. Len(results) = Len(plan)
      BY <1>0, <3>2 DEF LoopInv, Entry
    <3>4. \A i \in DOMAIN plan : manifest[i] = results[i]
      BY <1>0, <1>2, <3>3 DEF MarkedInv, Entry
    <3>5. DOMAIN results = DOMAIN plan /\ DOMAIN manifest = DOMAIN plan
      BY <1>0, <3>3
    <3> QED
      BY <1>0, <2>1, <3>3, <3>4, <3>5
  <2> QED
    BY <1>1, <1>2, <2>1, <2>2 DEF MarkedInv, Entry
<1> QED
  BY <1>4, <1>5, <1>6, <1>7 DEF CampaignStep

\* ManifestIsTrue: its first part is MarkedInv.
LEMMA ManifestStep == CampaignInv /\ (CampaignStep \/ Killed \/ Watch) => ManifestIsTrue'
<1> SUFFICES ASSUME CampaignInv, CampaignStep \/ Killed \/ Watch PROVE ManifestIsTrue'
  OBVIOUS
<1>0. CampaignType /\ LoopInv /\ ManifestIsTrue
  BY DEF CampaignInv
<1>1. MarkedInv' /\ CampaignType'
  BY MarkedStep, CampaignTypeStep
<1>2. Distinct' /\ onDisk' # << >> =>
          /\ \A i \in DOMAIN plan' :
                IF i < Entry' THEN onDisk'[i] = results'[i]
                ELSE onDisk'[i] \in (IF i = Entry' THEN {"running", "pending"} ELSE {"pending"})
          /\ at' = "task" => onDisk'[Entry'] = "running"
          /\ watch' = "done" => seen' = results' /\ Len(results') = Len(plan')
  <2>1. onDisk' # << >> => onDisk' = manifest'
    BY <1>1 DEF CampaignType
  <2> QED
    BY <1>1, <2>1 DEF MarkedInv
<1>3. exit' = 0 => results' = [i \in DOMAIN plan' |-> "completed"]
  <2>1. CASE LoopEnds
    <3> SUFFICES ASSUME exit' = 0 PROVE results = [i \in DOMAIN plan |-> "completed"]
      BY <2>1 DEF LoopEnds
    <3>1. Len(results) = Len(plan) /\ results \in Seq(TERMINAL_STATES) /\ plan \in Seq(Tasks)
      BY <1>0, <2>1 DEF LoopEnds, LoopInv, CampaignType, Entry
    <3>2. \A i \in DOMAIN results : results[i] = "completed"
      BY <2>1 DEF LoopEnds
    <3>3. DOMAIN results = DOMAIN plan
      BY <3>1
    <3> QED
      BY <3>1, <3>2, <3>3
  <2>2. CASE MarkDone
    BY <1>0, <2>2 DEF MarkDone, LoopInv
  <2>3. CASE OpenCampaign \/ NoCarrier \/ StartProbe \/ BadEntry \/ MarkRunning
    BY <1>0, <2>3 DEF OpenCampaign, NoCarrier, StartProbe, BadEntry, MarkRunning, LoopInv
  <2>4. CASE Interrupt \/ Leave \/ Killed \/ Watch
    BY <1>0, <2>4 DEF Interrupt, Leave, StopProbe, Killed, Watch, ManifestIsTrue
  <2> QED
    BY <2>1, <2>2, <2>3, <2>4 DEF CampaignStep
<1>4. at' \in {"finished", "raised"} => probe' # "up"
  BY <1>0 DEF CampaignStep, OpenCampaign, NoCarrier, StartProbe, BadEntry, MarkRunning, MarkDone,
     Interrupt, LoopEnds, Leave, StopProbe, Killed, Watch, ManifestIsTrue
<1> QED
  BY <1>2, <1>3, <1>4 DEF ManifestIsTrue

(***************************************************************************)
(* The theorems.                                                           *)
(***************************************************************************)
\* The invariant holds at the start of either command ...
LEMMA PlanRunsInit == PlanInit => PlanRunsInv
<1> SUFFICES ASSUME PlanInit PROVE PlanRunsInv
  OBVIOUS
<1>1. SessionInv /\ aggregate = Nothing
  BY SessionInit DEF PlanInit, Init
<1> QED
  BY <1>1, CampaignInit DEF PlanInit, PlanRunsInv, ManifestInit

\* ... and a step of one leaves the other's state alone.
LEMMA PlanRunsStep == PlanRunsInv /\ [PlanNext]_allVars => PlanRunsInv'
<1> SUFFICES ASSUME PlanRunsInv, [PlanNext]_allVars PROVE PlanRunsInv'
  OBVIOUS
<1> USE DEF PlanRunsInv
<1>1. ASSUME plan = NoPlan, [Next]_vars, UNCHANGED campaignVars PROVE PlanRunsInv'
  <2>1. plan' = plan /\ UNCHANGED <<onDisk, exit, at>>
    BY <1>1 DEF campaignVars
  <2>2. SessionInv'
    BY <1>1, SessionStep
  <2> QED
    BY <1>1, <2>1, <2>2
<1>2. CASE plan # NoPlan /\ (CampaignStep \/ Killed \/ Watch) /\ UNCHANGED vars
  <2>1. UNCHANGED <<plan, aggregate>>
    BY <1>2 DEF vars, CampaignStep, OpenCampaign, NoCarrier, StartProbe, BadEntry, MarkRunning,
       MarkDone, Interrupt, LoopEnds, Leave, StopProbe, Killed, Watch
  <2>2. CampaignInv'
    BY <1>2, CampaignTypeStep, LoopStep, MarkedStep, ManifestStep DEF CampaignInv
  <2> QED
    BY <1>2, <2>1, <2>2
<1>3. ASSUME plan # NoPlan, UNCHANGED allVars PROVE PlanRunsInv'
  <2>1. UNCHANGED <<plan, at, manifest, onDisk, results, probe, exit, watch, seen, aggregate>>
    BY <1>3 DEF allVars, vars, campaignVars
  <2>2. CampaignInv => CampaignInv'
    BY <2>1 DEF CampaignInv, CampaignType, LoopInv, MarkedInv, ManifestIsTrue, Distinct, Entry,
    Pending
  <2> QED
    BY <1>3, <2>1, <2>2
<1> QED
  BY <1>1, <1>2, <1>3 DEF PlanNext, allVars

\* The plan of `csbench run --repeat' and the manifest of `csbench run-plan' keep the
\* strengthened invariant, whatever the plans, the sessions and the faults.
THEOREM PlanRunsInvariant == PlanSpec => []PlanRunsInv
  BY PlanRunsInit, PlanRunsStep, PTL DEF PlanSpec

\* However often a plan is cut and resumed, by execute_plan and build_aggregate its
\* aggregate is whole and pools runs that compare; and whoever reads the manifest of
\* _cmd_run_plan reads the campaign.
THEOREM PlanSound == PlanSpec => []PlanIsSound
<1>1. PlanRunsInv => PlanIsSound
  <2> SUFFICES ASSUME PlanRunsInv PROVE PlanIsSound
    OBVIOUS
  <2>1. AggregateIsSound
    BY DEF PlanRunsInv, SessionInv, AggregateIsSound, AggregateIsWhole, PooledAgree
  <2>2. ManifestIsTrue
    BY DEF PlanRunsInv, CampaignInv, ManifestIsTrue, NoCode
  <2> QED
    BY <2>1, <2>2 DEF PlanIsSound
<1> QED
  BY PlanRunsInvariant, <1>1, PTL

\* _completed_slots: a resumed session runs no slot again that had a record to resume from.
THEOREM SlotsRest == PlanSpec => ResumedSlotsRest
<1> DEFINE Rests == resumed => \A s \in Slots : Completed(s) # {} => Completed(s)' = Completed(s)
<1>1. PlanRunsInv /\ [PlanNext]_allVars => [Rests]_vars
  <2> SUFFICES ASSUME PlanRunsInv, [PlanNext]_allVars, vars' # vars PROVE Rests
    OBVIOUS
  <2>1. plan = NoPlan /\ [Next]_vars
    BY DEF PlanNext, allVars
  <2> QED
    BY <2>1, RestStep DEF PlanRunsInv
<1> QED
  BY PlanRunsInvariant, <1>1, PTL DEF PlanSpec, ResumedSlotsRest
=============================================================================
