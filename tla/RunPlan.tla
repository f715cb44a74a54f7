------------------------------ MODULE RunPlan ------------------------------
(***************************************************************************)
(* A run plan over several sessions: ops/runplan.py.  The warmup and the   *)
(* measured runs of a plan are its slots, executed in order through the    *)
(* single-run lifecycle (RunLifecycle); a session that was interrupted is  *)
(* resumed by its plan id, and the only resume state is the records the    *)
(* runs left in the results directory.  Between two sessions the benchmark *)
(* or its environment may change.                                          *)
(***************************************************************************)
EXTENDS Naturals, FiniteSets, Sequences, SequencesExt

CONSTANTS
    Warmup, Repeat,   \* the plan
    Fingerprints,     \* the (benchmark, environment) pairs a record can carry
    Nothing,          \* no prior record, no aggregate
    MaxSessions,      \* bound: sessions of one plan
    MaxFaults         \* bound: sessions cut short, and records degraded

ASSUME PlanAssumption == Warmup \in Nat /\ Repeat \in Nat \ {0}
ASSUME BoundsAssumption == MaxSessions \in Nat /\ MaxFaults \in Nat
ASSUME FingerprintsAssumption == Fingerprints # {}

VARIABLES
    disk,        \* the records of the plan on disk, degraded ones included
    made,        \* runs executed so far: the next run id
    now,         \* the fingerprints a run gets today
    sessions, faults,
    pc,          \* "idle", "slots" or "aggregate"
    resumed,     \* was this session started with --resume?
    existing,    \* what _completed_slots found when the session started
    taken,       \* the records of the slots done so far, in order
    aggregate    \* the aggregate file, or Nothing

vars == <<disk, made, now, sessions, faults, pc, resumed, existing, taken, aggregate>>

Slots    == 1 .. Warmup + Repeat
Terminal == {"completed", "unsupported", "failed", "invalid"}
Scored   == {"completed", "unsupported"}

\* What stands for no record is none.
ASSUME NothingAssumption ==
    Nothing \notin [slot : Slots, status : Terminal \cup {"interrupted"}, context : BOOLEAN,
                    id : Nat, fingerprint : Fingerprints]

Init ==
    /\ disk = {} /\ made = 0
    /\ now \in Fingerprints
    /\ sessions = 0 /\ faults = 0
    /\ pc = "idle" /\ resumed = FALSE
    /\ existing = [s \in Slots |-> Nothing]
    /\ taken = <<>> /\ aggregate = Nothing

Fault == faults < MaxFaults /\ faults' = faults + 1

\* _completed_slots: terminal records that still carry their place in the plan.
Completed(s) ==
    {r \in disk : r.slot = s /\ r.context /\ r.status # "interrupted"}

\* Mutant of Prior: the warmups are run again in every session.
PriorMeasured(s, resume) ==
    IF resume /\ s > Warmup /\ Completed(s) # {} THEN Completed(s) ELSE {Nothing}

\* What a session can start from in slot s: of two records the last in directory order
\* wins, whichever that is.
Prior(s, resume) == IF resume /\ Completed(s) # {} THEN Completed(s) ELSE {Nothing}

\* execute_plan starts.  A plan id may be given again without --resume.
Begin ==
    /\ pc = "idle" /\ sessions < MaxSessions
    /\ sessions' = sessions + 1
    /\ resumed' \in (IF sessions = 0 THEN {FALSE} ELSE BOOLEAN)
    /\ now' \in Fingerprints
    /\ existing' \in [Slots -> disk \union {Nothing}]
    /\ \A s \in Slots : existing'[s] \in Prior(s, resumed')
    /\ taken' = <<>> /\ pc' = "slots"
    /\ UNCHANGED <<disk, made, faults, aggregate>>

Turn == Len(taken) + 1      \* the slot whose turn it is

\* The record a run leaves.  A degraded one says `failed`, and its extensions, with the
\* place in the plan, were replaced (ResultStore::Degrade).
Recorded(status, context) ==
    [slot |-> Turn, status |-> status, context |-> context, id |-> made + 1,
     fingerprint |-> now]

Reuse ==
    /\ pc = "slots" /\ Turn \in Slots /\ existing[Turn] # Nothing
    /\ taken' = Append(taken, existing[Turn])
    /\ UNCHANGED <<disk, made, now, sessions, faults, pc, resumed, existing, aggregate>>

Run ==
    /\ pc = "slots" /\ Turn \in Slots /\ existing[Turn] = Nothing
    /\ made' = made + 1
    /\ \/ /\ \E st \in Terminal : taken' = Append(taken, Recorded(st, TRUE))
          /\ UNCHANGED faults
       \/ /\ Fault
          /\ taken' = Append(taken, Recorded("failed", FALSE))
    /\ disk' = disk \union {Last(taken')}
    /\ UNCHANGED <<now, sessions, pc, resumed, existing, aggregate>>

\* execute() does not return: interrupted (with a record), killed, or refused its record.
\* The session ends; what was taken is forgotten.
RunCut ==
    /\ pc = "slots" /\ Turn \in Slots /\ existing[Turn] = Nothing /\ Fault
    /\ made' = made + 1
    /\ disk' \in {disk, disk \union {Recorded("interrupted", TRUE)},
                  disk \union {Recorded("failed", FALSE)}}
    /\ pc' = "idle"
    /\ UNCHANGED <<now, sessions, resumed, existing, taken, aggregate>>

SlotsDone ==
    /\ pc = "slots" /\ Turn \notin Slots
    /\ pc' = "aggregate"
    /\ UNCHANGED <<disk, made, now, sessions, faults, resumed, existing, taken, aggregate>>

\* build_aggregate.  Only measured runs with a verdict have numbers, and of them only the
\* largest group that agrees on its fingerprints is pooled.
Measured == SubSeq(taken, Warmup + 1, Len(taken))

\* Mutant of Group: whatever was scored is pooled.
GroupAll(f) == {r \in ToSet(Measured) : r.status \in Scored}

Group(f) == {r \in ToSet(Measured) : r.status \in Scored /\ r.fingerprint = f}

Chosen(f) == \A g \in Fingerprints : Cardinality(Group(f)) >= Cardinality(Group(g))

\* ... and persist_aggregate, one atomic write.
Aggregate ==
    /\ pc = "aggregate"
    /\ \E f \in Fingerprints :
         /\ Chosen(f)
         /\ aggregate' = [runs |-> taken, pooled |-> Group(f),
                          comparable |-> \A g \in Fingerprints \ {f} : Group(g) = {}]
    /\ pc' = "idle"
    /\ UNCHANGED <<disk, made, now, sessions, faults, resumed, existing, taken>>

\* The process dies between two runs, or before the aggregate is written.
Die ==
    /\ pc # "idle" /\ Fault
    /\ pc' = "idle"
    /\ UNCHANGED <<disk, made, now, sessions, resumed, existing, taken, aggregate>>

Finished == pc = "idle" /\ sessions = MaxSessions /\ UNCHANGED vars

Next == \/ Begin \/ Reuse \/ Run \/ SlotsDone \/ Aggregate
        \/ RunCut \/ Die \/ Finished

Spec == Init /\ [][Next]_vars

----------------------------------------------------------------------------
(* Properties.                                                             *)

\* An aggregate speaks for the whole plan, through any number of cut and resumed
\* sessions: one run for every slot, in order, each with its record on disk and none of
\* them interrupted.
AggregateIsWhole ==
    aggregate # Nothing =>
        /\ Len(aggregate.runs) = Warmup + Repeat
        /\ \A s \in Slots : LET r == aggregate.runs[s]
                            IN  r \in disk /\ r.slot = s /\ r.status # "interrupted"

\* The numbers of an aggregate come from measured runs with a verdict that agree on
\* benchmark and environment, also when these changed between two sessions; it says so
\* when it left a scored run out.
PooledAgree ==
    aggregate # Nothing =>
        LET scored == {aggregate.runs[s] : s \in {t \in Slots :
                           t > Warmup /\ aggregate.runs[t].status \in Scored}}
        IN  /\ aggregate.pooled \subseteq scored
            /\ \A r, q \in aggregate.pooled : r.fingerprint = q.fingerprint
            /\ aggregate.comparable => aggregate.pooled = scored
            /\ scored # {} => aggregate.pooled # {}

\* A resumed session adds nothing to a slot that had a record to resume from.
ResumedSlotsRest ==
    [][resumed => \A s \in Slots : Completed(s) # {} => Completed(s)' = Completed(s)]_vars

\* An aggregate stands for its plan: complete, and pooled from runs that compare.
AggregateIsSound == AggregateIsWhole /\ PooledAgree
=============================================================================
