--------------------------- MODULE AccountsProofs ---------------------------
(***************************************************************************)
(* Proofs about what a run leaves to account for: its record on disk       *)
(* (ResultStore), the money it spent (CostBudget) and the runtimes it      *)
(* created (AgentRuntimes). For any parts of a record and any number of    *)
(* disk faults, what is on disk is sound and nothing vanishes; for any     *)
(* finite set of runs, the ledger adds up and orderly runs stay within the *)
(* budget; for any pool of threads and any number of failures, nothing is  *)
(* wasted that did not fail or overlap. One inductive invariant each:      *)
(* StoreInv, BudgetInv, RuntimesInv. The ledger's total is a recursive sum *)
(* over a set; what it computes is proved by the smallest set for which it *)
(* would fail.                                                             *)
(***************************************************************************)
EXTENDS ResultStore, CostBudget, AgentRuntimes, FiniteSetTheorems, WellFoundedInduction, TLAPS

----------------------------------------------------------------------------
(* The record on disk.                                                     *)

\* The type of every variable but the records.
StoreType ==
    /\ quality \in [Parts -> Qualities] /\ parts \in SUBSET Parts /\ scrubbed \in BOOLEAN
    /\ pc \in {"start", "render", "sidecar", "record", "degrade", "shrink", "rewrite",
               "emergency", "returned", "raised", "dead"}
    /\ sidecar \in {"none", "built", "written"} /\ fault \in {"none", "os", "data"}
    /\ status \in {"given", "failed"} /\ faults \in Nat
    /\ series \in {"none", "there"} /\ dump \in BOOLEAN

\* A file emergency writing was killed in.
Torn == [NoRecord EXCEPT !.stage = "torn"]

\* A record that was written as it was, or as small as it had to be.
Whole(r) == /\ r.stage = "ok" /\ r.status = status /\ ~r.scrubbed
            /\ r.parts = (IF r.pointer THEN Parts \ {"series"} ELSE Parts)
            /\ \A p \in r.parts : quality[p] = "fine"
            /\ r.pointer => series = "there"

\* A degraded record: it says that it failed, and names nobody.
Smaller(r) == /\ r.stage = "failed" /\ r.status = "failed" /\ status = "failed" /\ ~r.pointer
              /\ \A p \in r.parts : \/ quality[p] = "fine"
                                    \/ quality[p] = "leaky" /\ r.scrubbed

\* What is on disk at each step: nothing before the call ends, one record when it returns,
\* nothing or a torn emergency file when the process dies.
DiskInv ==
    /\ pc \notin {"returned", "dead"} => record = NoRecord /\ emergency = NoRecord
    /\ pc = "dead" => record = NoRecord /\ emergency \in {NoRecord, Torn}
    /\ pc = "returned" => \/ emergency = NoRecord /\ (Whole(record) \/ Smaller(record))
                          \/ record = NoRecord /\ Smaller(emergency)
    /\ pc = "raised" => dump \/ faults > 0

\* What is about to be written at each step.
PayloadInv ==
    /\ pc \in {"start", "render", "sidecar", "record"} => status = "given"
    /\ pc \in {"sidecar", "record"} => parts = Inline /\ \A p \in parts : quality[p] = "fine"
    /\ pc = "start" => sidecar = "none"
    /\ pc = "render" => sidecar # "written"
    /\ pc = "sidecar" => sidecar = "built"
    /\ pc = "record" => sidecar # "built"
    /\ pc = "record" /\ sidecar = "written" => series = "there"
    /\ pc \in {"shrink", "rewrite", "emergency"} => status = "failed"
    /\ pc \in {"rewrite", "emergency"} =>
          \A p \in parts : quality[p] = "fine" \/ (quality[p] = "leaky" /\ scrubbed)

\* A reader's record is the one on disk, which does not change any more.
ReaderInv ==
    /\ reader.at \in {"walk", "found", "table", "skipped"}
    /\ reader.at # "walk" => pc = "returned" /\ record # NoRecord /\ reader.record = record
    /\ reader.at = "skipped" => ~record.pointer

\* The inductive invariant.
StoreInv == StoreType /\ DiskInv /\ PayloadInv /\ ReaderInv


(***************************************************************************)
(* Rendering.                                                              *)
(***************************************************************************)
\* A payload that passes holds only fine parts; one that passes scrubbed holds besides what
\* scrubbing makes fine.
LEMMA CheckIs ==
    ASSUME StoreType, NEW S \in SUBSET Parts
    PROVE  /\ Check(S) = "fine" => \A p \in S : quality[p] = "fine"
           /\ CheckScrubbed(S) = "fine" => \A p \in S : quality[p] \in {"fine", "leaky"}
  BY DEF StoreType, Qualities, Check, CheckScrubbed

\* ... and what holds only those passes scrubbed.
LEMMA FitPasses ==
    ASSUME NEW S, \A p \in S : quality[p] \in {"fine", "leaky"}
    PROVE  CheckScrubbed(S) = "fine"
  BY DEF CheckScrubbed

\* Each shape of a degraded record is some parts of the record.
LEMMA ShapesAre == \A n \in DOMAIN Shapes : Shapes[n] \in SUBSET Parts
  BY DEF Shapes, Parts

(***************************************************************************)
(* Steps.                                                                  *)
(***************************************************************************)
LEMMA StoreStart == Init => StoreInv
<1> SUFFICES ASSUME Init PROVE StoreInv
  OBVIOUS
<1>1. StoreType
  BY DEF Init, StoreType
<1>2. DiskInv /\ PayloadInv /\ ReaderInv
  BY DEF Init, DiskInv, PayloadInv, ReaderInv
<1> QED
  BY <1>1, <1>2 DEF StoreInv

\* What Shrink chooses is fit to be written.
LEMMA ShrinkIs ==
    ASSUME StoreType, Shrink
    PROVE  /\ parts' \in SUBSET Parts /\ scrubbed' \in BOOLEAN
           /\ \A p \in parts' : quality[p] = "fine" \/ (quality[p] = "leaky" /\ scrubbed')
<1>1. CASE \E n \in DOMAIN Shapes : Check(Shapes[n]) = "fine"
  <2>1. PICK n \in DOMAIN Shapes : Check(Shapes[n]) = "fine" /\ parts' = Shapes[n]
    BY <1>1 DEF Shrink
  <2>2. scrubbed' = scrubbed
    BY <1>1 DEF Shrink
  <2> QED
    BY <2>1, <2>2, ShapesAre, CheckIs DEF StoreType
<1>2. CASE ~\E n \in DOMAIN Shapes : Check(Shapes[n]) = "fine"
  <2>1. scrubbed' = TRUE /\ parts' = IF CheckScrubbed({"core"}) = "fine" THEN {"core"} ELSE Minimal
    BY <1>2 DEF Shrink
  <2>2. {"core"} \in SUBSET Parts
    BY DEF Parts
  <2> QED
    BY <2>1, <2>2, CheckIs DEF Minimal
<1> QED
  BY <1>1, <1>2

\* Types are kept.
LEMMA StoreTypeStep == StoreInv /\ Next => StoreType'
<1> SUFFICES ASSUME StoreInv, Next PROVE StoreType'
  OBVIOUS
<1> USE DEF StoreInv, StoreType, Fault, disk
<1>1. CASE BuildSidecar \/ WriteSidecar \/ SidecarFails \/ WriteRecord \/ RecordFails
  BY <1>1 DEF BuildSidecar, WriteSidecar, SidecarFails, WriteRecord, RecordFails
<1>2. CASE Rendered
  <2>1. Inline \in SUBSET Parts
    BY DEF Inline
  <2> QED
    BY <1>2, <2>1 DEF Rendered
<1>2a. CASE Malformed
  <2>1. faults' \in Nat
    BY <1>2a DEF Malformed, DumpInvalid
  <2>1a. dump' = TRUE \/ dump' = dump
    BY <1>2a DEF Malformed, DumpInvalid
  <2>2. /\ UNCHANGED <<quality, parts, scrubbed, sidecar, fault, status, series>>
        /\ pc' = "raised"
    BY <1>2a DEF Malformed
  <2> QED
    BY <2>1, <2>1a, <2>2
<1>2b. CASE Unfit
  BY <1>2b DEF Unfit
<1>3. CASE Degrade
  BY <1>3 DEF Degrade, RemoveSidecar
<1>4. CASE Shrink
  <2>1. dump' \in BOOLEAN
    BY <1>4 DEF Shrink
  <2>2. parts' \in SUBSET Parts /\ scrubbed' \in BOOLEAN
    BY <1>4, ShrinkIs
  <2>3. /\ UNCHANGED <<quality, sidecar, fault, status, faults, series>>
        /\ pc' \in {"emergency", "rewrite"}
    BY <1>4 DEF Shrink
  <2> QED
    BY <2>1, <2>2, <2>3
<1>5. CASE WriteDegraded \/ WriteEmergency \/ KilledInEmergency \/ Crash
  BY <1>5 DEF WriteDegraded, WriteEmergency, KilledInEmergency, Crash
<1>6. CASE FindRecord \/ OpenSidecar \/ UNCHANGED vars
  BY <1>6 DEF FindRecord, OpenSidecar, vars
<1> QED
  BY <1>1, <1>2, <1>2a, <1>2b, <1>3, <1>4, <1>5, <1>6 DEF Next, Persist, Finished

\* What is written is what was rendered, and what was rendered may be written.
LEMMA PayloadStep == StoreInv /\ Next => PayloadInv'
<1> SUFFICES ASSUME StoreInv, Next PROVE PayloadInv'
  OBVIOUS
<1>0. StoreType /\ PayloadInv
  BY DEF StoreInv
<1> USE DEF PayloadInv, disk
<1>1. CASE BuildSidecar \/ SidecarFails
  BY <1>0, <1>1 DEF BuildSidecar, SidecarFails
<1>2. CASE Rendered
  <2>1. Inline \in SUBSET Parts
    BY DEF Inline
  <2>2. \A p \in Inline : quality[p] = "fine"
    BY <1>0, <1>2, <2>1, CheckIs DEF Rendered
  <2> QED
    BY <1>0, <1>2, <2>2 DEF Rendered, Inline, StoreType
<1>3. CASE Malformed \/ Unfit \/ RecordFails \/ Degrade
  BY <1>0, <1>3 DEF Malformed, Unfit, RecordFails, Degrade
<1>4. CASE WriteSidecar
  BY <1>0, <1>4 DEF WriteSidecar, Inline
<1>5. CASE WriteRecord \/ WriteEmergency \/ KilledInEmergency \/ Crash
  BY <1>0, <1>5 DEF WriteRecord, WriteEmergency, KilledInEmergency, Crash
<1>6. CASE Shrink
  <2>1. \A p \in parts' : quality[p] = "fine" \/ (quality[p] = "leaky" /\ scrubbed')
    BY <1>0, <1>6, ShrinkIs
  <2>2. UNCHANGED <<quality, status>> /\ status = "failed" /\ pc' \in {"emergency", "rewrite"}
    BY <1>0, <1>6 DEF Shrink
  <2> QED
    BY <2>1, <2>2
<1>7. CASE WriteDegraded
  BY <1>0, <1>7 DEF WriteDegraded
<1>8. CASE FindRecord \/ OpenSidecar \/ UNCHANGED vars
  BY <1>0, <1>8 DEF FindRecord, OpenSidecar, vars, Inline
<1> QED
  BY <1>1, <1>2, <1>3, <1>4, <1>5, <1>6, <1>7, <1>8 DEF Next, Persist, Finished

\* One record at the end, nothing before.
LEMMA DiskStep == StoreInv /\ Next => DiskInv'
<1> SUFFICES ASSUME StoreInv, Next PROVE DiskInv'
  OBVIOUS
<1>0. StoreType /\ PayloadInv /\ DiskInv
  BY DEF StoreInv
<1> USE DEF DiskInv, disk
<1>1. CASE BuildSidecar \/ Rendered \/ Unfit \/ WriteSidecar \/ SidecarFails \/ RecordFails
  BY <1>0, <1>1 DEF BuildSidecar, Rendered, Unfit, WriteSidecar, SidecarFails, RecordFails
<1>2. CASE Malformed
  BY <1>0, <1>2 DEF Malformed, DumpInvalid, Fault, StoreType
<1>3. CASE Degrade \/ Shrink \/ KilledInEmergency \/ Crash
  BY <1>0, <1>3 DEF Degrade, Shrink, KilledInEmergency, Crash, Torn
<1>4. CASE WriteRecord
  <2>1. Whole(record)'
    BY <1>0, <1>4 DEF WriteRecord, Whole, PayloadInv, Inline, StoreType
  <2> QED
    BY <1>0, <1>4, <2>1 DEF WriteRecord
<1>5. CASE WriteDegraded
  <2>1. CASE record' = Degraded /\ pc' = "returned"
    <3>1. Smaller(record)'
      BY <1>0, <1>5, <2>1 DEF WriteDegraded, Degraded, Smaller, PayloadInv
    <3> QED
      BY <1>0, <1>5, <2>1, <3>1 DEF WriteDegraded
  <2>2. CASE UNCHANGED record /\ pc' = "emergency"
    BY <1>0, <1>5, <2>2 DEF WriteDegraded
  <2> QED
    BY <1>5, <2>1, <2>2 DEF WriteDegraded
<1>6. CASE WriteEmergency
  <2>1. CASE emergency' = Degraded /\ pc' = "returned"
    <3>1. Smaller(emergency)'
      BY <1>0, <1>6, <2>1 DEF WriteEmergency, Degraded, Smaller, PayloadInv
    <3> QED
      BY <1>0, <1>6, <2>1, <3>1 DEF WriteEmergency
  <2>2. CASE Fault /\ UNCHANGED emergency /\ pc' = "raised"
    BY <1>0, <1>6, <2>2 DEF WriteEmergency, Fault, StoreType
  <2> QED
    BY <1>6, <2>1, <2>2 DEF WriteEmergency
<1>7. CASE FindRecord \/ OpenSidecar \/ UNCHANGED vars
  BY <1>0, <1>7 DEF FindRecord, OpenSidecar, vars, Whole, Smaller
<1> QED
  BY <1>1, <1>2, <1>3, <1>4, <1>5, <1>6, <1>7 DEF Next, Persist, Finished

\* A call that has returned does nothing more to what a reader found.
LEMMA ReaderStep == StoreInv /\ Next => ReaderInv'
<1> SUFFICES ASSUME StoreInv, Next PROVE ReaderInv'
  OBVIOUS
<1>0. DiskInv /\ ReaderInv
  BY DEF StoreInv
<1>1. CASE (Persist \/ KilledInEmergency \/ Crash) /\ UNCHANGED reader
  <2>1. pc # "returned"
    BY <1>1 DEF Persist, BuildSidecar, Rendered, Malformed, Unfit, WriteSidecar, SidecarFails,
                WriteRecord, RecordFails, Degrade, Shrink, WriteDegraded, WriteEmergency,
                KilledInEmergency, Crash
  <2> QED
    BY <1>0, <1>1, <2>1 DEF ReaderInv
<1>2. CASE FindRecord
  <2>1. pc = "returned"
    BY <1>0, <1>2 DEF FindRecord, DiskInv
  <2> QED
    BY <1>0, <1>2, <2>1 DEF FindRecord, ReaderInv, disk
<1>3. CASE OpenSidecar
  <2>1. record # NoRecord /\ reader.record = record /\ pc = "returned"
    BY <1>0, <1>3 DEF OpenSidecar, ReaderInv
  <2>2. record.pointer => series = "there"
    BY <1>0, <2>1 DEF DiskInv, Whole, Smaller
  <2>3. /\ reader'.at = (IF record.pointer THEN "table" ELSE "skipped")
        /\ reader'.record = record /\ UNCHANGED <<pc, record>>
    BY <1>3, <2>1, <2>2 DEF OpenSidecar, Verified, disk
  <2> QED
    BY <2>1, <2>3 DEF ReaderInv
<1>4. CASE UNCHANGED vars
  BY <1>0, <1>4 DEF vars, disk, ReaderInv
<1> QED
  BY <1>1, <1>2, <1>3, <1>4 DEF Next, Finished

(***************************************************************************)
(* The theorems.                                                           *)
(***************************************************************************)
\* ResultStore.persist and its reader keep the strengthened invariant, whatever parts the
\* record has, and however often the disk fails.
THEOREM StoreInvariant == Spec => []StoreInv
<1>1. StoreInv /\ [Next]_vars => StoreInv'
  <2> SUFFICES ASSUME StoreInv, [Next]_vars PROVE StoreInv'
    OBVIOUS
  <2>1. CASE Next
    BY <2>1, StoreTypeStep, PayloadStep, DiskStep, ReaderStep DEF StoreInv
  <2>2. CASE UNCHANGED vars
    BY <2>2 DEF vars, disk, StoreInv, StoreType, DiskInv, PayloadInv, ReaderInv, Whole, Smaller,
                Inline
  <2> QED
    BY <2>1, <2>2
<1> QED
  BY <1>1, StoreStart, PTL DEF Spec

\* After any number of faults and a crash between any two writes of persist, what is on
\* disk has its series, names nobody, and does not look better than it was.
THEOREM DiskSound == Spec => []DiskIsSound
<1>1. StoreInv => DiskIsSound
  <2> SUFFICES ASSUME StoreInv PROVE DiskIsSound
    OBVIOUS
  <2>0. DiskInv /\ ReaderInv
    BY DEF StoreInv
  <2>1. \A r \in {record, emergency} : r = NoRecord \/ r = Torn \/ Whole(r) \/ Smaller(r)
    BY <2>0 DEF DiskInv
  <2>2. SeriesAreFindable
    <3>1. CASE Whole(record)
      BY <3>1 DEF SeriesAreFindable, Whole, Parts
    <3>2. CASE Smaller(record)
      BY <3>2 DEF SeriesAreFindable, Smaller
    <3> QED
      BY <2>0, <3>1, <3>2 DEF DiskInv, SeriesAreFindable
  <2>3. ReadersKeepUp
    BY <2>0, <2>1, <2>2 DEF ReadersKeepUp, ReaderInv, SeriesAreFindable
  <2>4. NothingPrivateWritten
    BY <2>1 DEF NothingPrivateWritten, NoRecord, Torn, Whole, Smaller
  <2>5. SmallerMeansFailed
    BY <2>1 DEF SmallerMeansFailed, NoRecord, Torn, Whole, Smaller
  <2> QED
    BY <2>2, <2>3, <2>4, <2>5 DEF DiskIsSound
<1> QED
  BY <1>1, StoreInvariant, PTL

\* A call of persist that returns has left one record that readers accept, in agreement with
\* the caller's; one that raises has dumped the record or met a failing disk.
THEOREM NothingIsLost == Spec => []NothingVanishes
<1>1. StoreInv => NothingVanishes
  <2> SUFFICES ASSUME StoreInv PROVE NothingVanishes
    OBVIOUS
  <2>0. DiskInv
    BY DEF StoreInv
  <2>1. \A r : Whole(r) \/ Smaller(r) => r # NoRecord /\ r.status = status
                                         /\ CheckScrubbed(r.parts) = "fine"
    <3> SUFFICES ASSUME NEW r, Whole(r) \/ Smaller(r)
                 PROVE  r # NoRecord /\ r.status = status /\ CheckScrubbed(r.parts) = "fine"
      OBVIOUS
    <3>1. r # NoRecord
      BY DEF Whole, Smaller, NoRecord
    <3>2. r.status = status /\ \A p \in r.parts : quality[p] \in {"fine", "leaky"}
      BY DEF Whole, Smaller
    <3> QED
      BY <3>1, <3>2, FitPasses
  <2> QED
    BY <2>0, <2>1 DEF NothingVanishes, DiskInv
<1> QED
  BY <1>1, StoreInvariant, PTL

----------------------------------------------------------------------------
(* Sums over finite sets.                                                  *)

\* What MapThenSumSet computes, for a function c of the things it adds up.
Value(c, f, s) == IF s = {} THEN 0
                  ELSE LET x == CHOOSE x \in s : TRUE IN c[x] + f[s \ {x}]

\* The function the recursion defines on the subsets of S, and its value at S.
IsSum(c, f, S) == f = [s \in SUBSET S |-> Value(c, f, s)]
Total(c, S)    == (CHOOSE f : IsSum(c, f, S))[S]

\* The cost of a set of runs is such a sum.
LEMMA CostIs == \A S : CostOf(S) = Total(cost, S)
  BY DEF CostOf, MapThenSumSet, MapThenFoldSet, Total, IsSum, Value

\* Among subsets of a finite set there is a smallest one.
LEMMA Smallest ==
    ASSUME NEW S, IsFiniteSet(S), NEW B \in SUBSET SUBSET S, B # {}
    PROVE  \E T \in B : \A R \in B : R \subseteq T => R = T
<1>1. IsWellFoundedOn(StrictSubsetOrdering(S), FiniteSubsetsOf(S))
  BY FS_StrictSubsetOrderingWellFounded
<1>2. B \subseteq FiniteSubsetsOf(S)
  BY FS_FiniteSubsetsOfFinite
<1>3. PICK T \in B : \A R \in B : ~(<<R, T>> \in StrictSubsetOrdering(S))
  BY <1>1, <1>2, WFMin
<1>4. ASSUME NEW R \in B, R \subseteq T PROVE R = T
  <2>1. <<R, T>> \notin StrictSubsetOrdering(S)
    BY <1>3
  <2> QED
    BY <2>1, <1>4 DEF StrictSubsetOrdering
<1> QED
  BY <1>4

\* The recursion has one solution on the subsets of a set ...
LEMMA SumUnique ==
    ASSUME NEW c, NEW S, IsFiniteSet(S), NEW T, NEW f, IsSum(c, f, S), NEW g, IsSum(c, g, T)
    PROVE  \A s \in SUBSET S : s \subseteq T => f[s] = g[s]
<1> DEFINE B == {s \in SUBSET S : s \subseteq T /\ f[s] # g[s]}
<1> SUFFICES ASSUME B # {} PROVE FALSE
  OBVIOUS
<1>1. PICK s \in B : \A r \in B : r \subseteq s => r = s
  <2> HIDE DEF B
  <2>1. B \in SUBSET SUBSET S
    BY DEF B
  <2> QED
    BY <2>1, Smallest
<1>2. f[s] = Value(c, f, s) /\ g[s] = Value(c, g, s)
  BY DEF IsSum
<1>3. s # {}
  BY <1>2 DEF Value
<1> DEFINE x == CHOOSE x \in s : TRUE
<1>4. x \in s
  BY <1>3
<1>5. f[s \ {x}] = g[s \ {x}]
  <2> HIDE DEF x
  <2>1. s \ {x} \notin B
    <3>1. s \ {x} \subseteq s /\ s \ {x} # s
      BY <1>4
    <3> HIDE DEF B
    <3> QED
      BY <1>1, <3>1
  <2> QED
    BY <2>1
<1> QED
  BY <1>2, <1>3, <1>5 DEF Value

\* ... and it has one.
LEMMA SumExists == \A c, S : IsFiniteSet(S) => \E f : IsSum(c, f, S)
<1> SUFFICES ASSUME NEW c, NEW S, IsFiniteSet(S) PROVE \E f : IsSum(c, f, S)
  OBVIOUS
<1> DEFINE B == {s \in SUBSET S : ~\E f : IsSum(c, f, s)}
<1> SUFFICES ASSUME B # {} PROVE FALSE
  OBVIOUS
<1>1. PICK T \in B : \A r \in B : r \subseteq T => r = T
  <2> HIDE DEF B
  <2>1. B \in SUBSET SUBSET S
    BY DEF B
  <2> QED
    BY <2>1, Smallest
<1>2. T \in SUBSET S /\ IsFiniteSet(T)
  BY <1>1, FS_Subset
<1>3. ASSUME NEW u \in SUBSET T, u # T PROVE IsFiniteSet(u) /\ \E g : IsSum(c, g, u)
  <2>1. u \notin B /\ u \in SUBSET S
    BY <1>1, <1>2, <1>3
  <2> QED
    BY <2>1, <1>2, FS_Subset
<1>4. ASSUME NEW u \in SUBSET T, u # T PROVE \A g : IsSum(c, g, u) => Total(c, u) = g[u]
  <2>1. IsSum(c, CHOOSE f : IsSum(c, f, u), u)
    BY <1>3, <1>4
  <2> QED
    BY <1>3, <1>4, <2>1, SumUnique DEF Total
<1> DEFINE pick(s) == CHOOSE x \in s : TRUE
           f == [s \in SUBSET T |-> IF s = {} THEN 0 ELSE c[pick(s)] + Total(c, s \ {pick(s)})]
<1>5. ASSUME NEW s \in SUBSET T, s # {}
      PROVE  f[s \ {pick(s)}] = Total(c, s \ {pick(s)})
  <2> DEFINE u == s \ {pick(s)}
  <2>1. pick(s) \in s
    BY <1>5
  <2>2. u \in SUBSET T /\ u # T
    BY <2>1
  <2>3. PICK g : IsSum(c, g, u)
    <3> HIDE DEF u
    <3> QED
      BY <2>2, <1>3
  <2>4. Total(c, u) = g[u] /\ g[u] = Value(c, g, u)
    <3> HIDE DEF u
    <3> QED
      BY <2>2, <2>3, <1>4 DEF IsSum
  <2>5. CASE u = {}
    BY <2>2, <2>4, <2>5 DEF Value
  <2>6. CASE u # {}
    <3> DEFINE v == u \ {pick(u)}
    <3>1. pick(u) \in u
      BY <2>6
    <3>2. v \in SUBSET T /\ v # T /\ v \in SUBSET u
      BY <3>1, <2>2
    <3>3. PICK h : IsSum(c, h, v)
      <4> HIDE DEF v, u
      <4> QED
        BY <3>2, <1>3
    <3>4. Total(c, v) = h[v]
      <4> HIDE DEF v, u
      <4> QED
        BY <3>2, <3>3, <1>4
    <3>5. h[v] = g[v]
      <4>1. IsFiniteSet(v)
        <5> HIDE DEF v, u
        <5> QED
          BY <3>2, <1>3
      <4> HIDE DEF v, u
      <4> QED
        BY <4>1, <3>2, <3>3, <2>3, SumUnique
    <3>6. f[u] = c[pick(u)] + Total(c, v)
      BY <2>2, <2>6
    <3>7. Value(c, g, u) = c[pick(u)] + g[v]
      BY <2>6 DEF Value
    <3> QED
      BY <2>4, <3>4, <3>5, <3>6, <3>7
  <2> QED
    BY <2>5, <2>6
<1>6. IsSum(c, f, T)
  <2>1. ASSUME NEW s \in SUBSET T PROVE f[s] = Value(c, f, s)
    <3>1. CASE s = {}
      BY <3>1 DEF Value
    <3>2. CASE s # {}
      <4>1. f[s] = c[pick(s)] + Total(c, s \ {pick(s)})
        BY <3>2
      <4>2. f[s \ {pick(s)}] = Total(c, s \ {pick(s)})
        BY <3>2, <1>5
      <4> HIDE DEF f
      <4> QED
        BY <3>2, <4>1, <4>2 DEF Value
    <3> QED
      BY <3>1, <3>2
  <2>2. f = [s \in SUBSET T |-> f[s]]
    OBVIOUS
  <2> HIDE DEF f
  <2> QED
    BY <2>1, <2>2 DEF IsSum
<1> QED
  <2> HIDE DEF f
  <2> QED
    BY <1>1, <1>6

\* So a sum is one thing of the set and the sum of the rest.
LEMMA TotalIs ==
    ASSUME NEW c, NEW S, IsFiniteSet(S)
    PROVE  /\ S = {} => Total(c, S) = 0
           /\ S # {} => \E x \in S : /\ x = CHOOSE y \in S : TRUE
                                     /\ Total(c, S) = c[x] + Total(c, S \ {x})
<1>1. \A T : IsFiniteSet(T) => IsSum(c, CHOOSE f : IsSum(c, f, T), T)
  BY SumExists
<1> DEFINE f == CHOOSE f : IsSum(c, f, S)
<1>2. IsSum(c, f, S) /\ Total(c, S) = f[S] /\ f[S] = Value(c, f, S)
  <2>1. IsSum(c, f, S)
    BY <1>1
  <2>2. Total(c, S) = f[S]
    BY DEF Total
  <2> HIDE DEF f
  <2> QED
    BY <2>1, <2>2 DEF IsSum
<1>3. CASE S = {}
  BY <1>2, <1>3 DEF Value
<1>4. CASE S # {}
  <2> DEFINE x == CHOOSE x \in S : TRUE
             T == S \ {x}
             g == CHOOSE g : IsSum(c, g, T)
  <2>1. x \in S /\ T \in SUBSET S /\ IsFiniteSet(T)
    BY <1>4, FS_RemoveElement
  <2>2. IsSum(c, g, T) /\ Total(c, T) = g[T]
    <3> HIDE DEF T
    <3> QED
      BY <2>1, <1>1 DEF Total
  <2>3. g[T] = f[T]
    <3> HIDE DEF T, f, g
    <3> QED
      BY <2>1, <2>2, <1>2, SumUnique
  <2>4. f[S] = c[x] + f[T]
    BY <1>2, <1>4 DEF Value
  <2>5. Total(c, S) = c[x] + Total(c, T)
    <3> HIDE DEF T, f, g, x
    <3> QED
      BY <1>2, <2>2, <2>3, <2>4
  <2> QED
    BY <2>1, <2>5
<1> QED
  BY <1>3, <1>4

\* The sum of natural numbers is one, and it does not matter which thing is taken out.
LEMMA TotalNat ==
    ASSUME NEW R, NEW c \in [R -> Nat], NEW S \in SUBSET R, IsFiniteSet(S)
    PROVE  Total(c, S) \in Nat
<1> DEFINE B == {s \in SUBSET S : Total(c, s) \notin Nat}
<1> SUFFICES ASSUME B # {} PROVE FALSE
  OBVIOUS
<1>1. PICK T \in B : \A r \in B : r \subseteq T => r = T
  <2> HIDE DEF B
  <2>1. B \in SUBSET SUBSET S
    BY DEF B
  <2> QED
    BY <2>1, Smallest
<1>2. T \in SUBSET S /\ IsFiniteSet(T) /\ Total(c, T) \notin Nat
  BY <1>1, FS_Subset
<1>3. T # {}
  BY <1>2, TotalIs
<1>4. PICK x \in T : Total(c, T) = c[x] + Total(c, T \ {x})
  BY <1>2, <1>3, TotalIs
<1>5. Total(c, T \ {x}) \in Nat
  <2>1. T \ {x} \subseteq T /\ T \ {x} # T
    BY <1>4
  <2>2. T \ {x} \notin B
    <3> HIDE DEF B
    <3> QED
      BY <1>1, <2>1
  <2> QED
    BY <2>2, <1>2
<1>6. c[x] \in Nat
  BY <1>2
<1> QED
  BY <1>2, <1>4, <1>5, <1>6

\* It does not matter which thing is taken out first.
LEMMA TotalAny ==
    ASSUME NEW R, NEW c \in [R -> Nat], NEW S \in SUBSET R, IsFiniteSet(S)
    PROVE  \A x \in S : Total(c, S) = c[x] + Total(c, S \ {x})
<1> DEFINE Fits(s) == \A x \in s : Total(c, s) = c[x] + Total(c, s \ {x})
           B == {s \in SUBSET S : ~Fits(s)}
<1> SUFFICES ASSUME B # {} PROVE FALSE
  OBVIOUS
<1>1. PICK T \in B : \A r \in B : r \subseteq T => r = T
  <2> HIDE DEF B
  <2>1. B \in SUBSET SUBSET S
    BY DEF B
  <2> QED
    BY <2>1, Smallest
<1>2. T \in SUBSET S /\ T \in SUBSET R /\ IsFiniteSet(T) /\ ~Fits(T)
  BY <1>1, FS_Subset
<1>3. PICK x \in T : Total(c, T) # c[x] + Total(c, T \ {x})
  BY <1>2
<1>4. PICK y \in T : Total(c, T) = c[y] + Total(c, T \ {y})
  BY <1>2, <1>3, TotalIs
<1>5. x # y
  BY <1>3, <1>4
<1> DEFINE U == T \ {y}
           V == T \ {x}
           W == T \ {x, y}
<1>6. ASSUME NEW u \in SUBSET T, u # T PROVE Fits(u)
  <2>1. u \notin B
    <3> HIDE DEF B
    <3> QED
      BY <1>1, <1>6
  <2> QED
    BY <2>1, <1>2, <1>6
<1>7. Total(c, U) = c[x] + Total(c, W)
  <2>1. U \in SUBSET T /\ U # T /\ x \in U /\ U \ {x} = W
    BY <1>3, <1>4, <1>5
  <2>2. Fits(U)
    <3> HIDE DEF U, Fits
    <3> QED
      BY <2>1, <1>6
  <2> QED
    BY <2>1, <2>2
<1>8. Total(c, V) = c[y] + Total(c, W)
  <2>1. V \in SUBSET T /\ V # T /\ y \in V /\ V \ {y} = W
    BY <1>3, <1>4, <1>5
  <2>2. Fits(V)
    <3> HIDE DEF V, Fits
    <3> QED
      BY <2>1, <1>6
  <2> QED
    BY <2>1, <2>2
<1>9. Total(c, W) \in Nat /\ c[x] \in Nat /\ c[y] \in Nat
  <2>1. W \in SUBSET R /\ IsFiniteSet(W)
    BY <1>2, FS_Subset
  <2> HIDE DEF W
  <2> QED
    BY <2>1, <1>2, <1>3, <1>4, TotalNat
<1> QED
  <2> HIDE DEF U, V, W
  <2>1. Total(c, T) = c[y] + Total(c, U)
    BY <1>4 DEF U
  <2>2. Total(c, T) # c[x] + Total(c, V)
    BY <1>3 DEF V
  <2> QED
    BY <2>1, <2>2, <1>7, <1>8, <1>9

\* A new thing adds its own.
LEMMA TotalAdd ==
    ASSUME NEW R, NEW c \in [R -> Nat], NEW S \in SUBSET R, IsFiniteSet(S), NEW x \in R \ S
    PROVE  Total(c, S \cup {x}) = Total(c, S) + c[x]
<1> DEFINE T == S \cup {x}
<1>1. T \in SUBSET R /\ IsFiniteSet(T) /\ x \in T /\ T \ {x} = S
  BY FS_AddElement
<1>2. Total(c, T) = c[x] + Total(c, S)
  <2> HIDE DEF T
  <2> QED
    BY <1>1, TotalAny
<1>3. Total(c, S) \in Nat /\ c[x] \in Nat
  BY TotalNat
<1> QED
  BY <1>2, <1>3

\* What is not in the set does not matter.
LEMMA TotalSame ==
    ASSUME NEW R, NEW c \in [R -> Nat], NEW d \in [R -> Nat], NEW S \in SUBSET R,
           IsFiniteSet(S), \A x \in S : c[x] = d[x]
    PROVE  Total(c, S) = Total(d, S)
<1> DEFINE B == {s \in SUBSET S : Total(c, s) # Total(d, s)}
<1> SUFFICES ASSUME B # {} PROVE FALSE
  OBVIOUS
<1>1. PICK T \in B : \A r \in B : r \subseteq T => r = T
  <2> HIDE DEF B
  <2>1. B \in SUBSET SUBSET S
    BY DEF B
  <2> QED
    BY <2>1, Smallest
<1>2. T \in SUBSET S /\ T \in SUBSET R /\ IsFiniteSet(T) /\ Total(c, T) # Total(d, T)
  BY <1>1, FS_Subset
<1>3. T # {}
  BY <1>2, TotalIs
<1>4. PICK x \in T : Total(c, T) = c[x] + Total(c, T \ {x})
  BY <1>2, <1>3, TotalIs
<1>5. Total(d, T) = d[x] + Total(d, T \ {x})
  BY <1>2, TotalAny
<1>6. Total(c, T \ {x}) = Total(d, T \ {x})
  <2>1. T \ {x} \subseteq T /\ T \ {x} # T
    BY <1>4
  <2>2. T \ {x} \notin B
    <3> HIDE DEF B
    <3> QED
      BY <1>1, <2>1
  <2> QED
    BY <2>2, <1>2
<1> QED
  BY <1>2, <1>4, <1>5, <1>6

\* Nor does what is 0.
LEMMA TotalZero ==
    ASSUME NEW R, NEW c \in [R -> Nat], NEW S \in SUBSET R, IsFiniteSet(S),
           NEW T \in SUBSET S, \A x \in S \ T : c[x] = 0
    PROVE  Total(c, S) = Total(c, T)
<1> DEFINE B == {s \in SUBSET S : Total(c, T \cup s) # Total(c, T)}
<1> SUFFICES ASSUME B # {} PROVE FALSE
  <2>1. S \notin B /\ T \cup S = S
    OBVIOUS
  <2> QED
    BY <2>1
<1>1. PICK U \in B : \A r \in B : r \subseteq U => r = U
  <2> HIDE DEF B
  <2>1. B \in SUBSET SUBSET S
    BY DEF B
  <2> QED
    BY <2>1, Smallest
<1>2. U \in SUBSET S /\ Total(c, T \cup U) # Total(c, T)
  BY <1>1
<1>3. PICK x \in U : x \notin T
  <2>1. CASE U \subseteq T
    <3>1. T \cup U = T
      BY <2>1
    <3> QED
      BY <1>2, <3>1
  <2> QED
    BY <2>1
<1> DEFINE V == T \cup U
<1>4. V \in SUBSET R /\ IsFiniteSet(V) /\ x \in V /\ V \ {x} = T \cup (U \ {x})
  BY <1>2, <1>3, FS_Subset
<1>5. Total(c, V) = c[x] + Total(c, V \ {x})
  <2> HIDE DEF V
  <2> QED
    BY <1>4, TotalAny
<1>6. c[x] = 0 /\ Total(c, V \ {x}) \in Nat
  <2>1. V \ {x} \in SUBSET R /\ IsFiniteSet(V \ {x})
    BY <1>4, FS_Subset
  <2> HIDE DEF V
  <2> QED
    BY <2>1, <1>2, <1>3, TotalNat
<1>7. Total(c, T \cup (U \ {x})) = Total(c, T)
  <2>1. U \ {x} \subseteq U /\ U \ {x} # U /\ U \ {x} \in SUBSET S
    BY <1>2, <1>3
  <2>2. U \ {x} \notin B
    <3> HIDE DEF B
    <3> QED
      BY <1>1, <2>1
  <2> QED
    BY <2>1, <2>2
<1> QED
  <2>1. Total(c, V) # Total(c, T)
    BY <1>2
  <2>2. Total(c, V \ {x}) = Total(c, T)
    BY <1>4, <1>7
  <2> HIDE DEF V
  <2> QED
    BY <2>1, <2>2, <1>5, <1>6

----------------------------------------------------------------------------
(* The cost cap.                                                           *)

\* Runs that are over.
Done == {r \in Runs : place[r] = "done"}

\* The type of every variable.
BudgetType ==
    /\ place \in [Runs -> {"new", "refused", "running", "load", "rewrite", "fill", "done"}]
    /\ est \in [Runs -> Nat] /\ cost \in [Runs -> Nat]
    /\ total \in Nat /\ size \in Nat /\ losses \in Nat
    /\ view \in [Runs -> Nat \X SUBSET Runs]

\* Only a run that has ended spending has a cost.
SpendingInv == \A r \in Runs : place[r] \in {"new", "refused", "running"} => cost[r] = 0

\* The file, and every copy that was loaded, add up; they list runs that are over.
LedgerInv ==
    /\ entries \subseteq Done /\ total = CostOf(entries)
    /\ \A r \in Runs : view[r][2] \subseteq Done /\ view[r][1] = CostOf(view[r][2])

\* Without what one of the listed runs cost over its estimate, the budget holds them all.
Within == total = 0 \/ \E w \in entries : Total(cost, entries \ {w}) + est[w] < Budget

\* What an orderly sequence of runs keeps: one run in flight, all earlier costs in the
\* file, and room in the budget for what the run in flight was estimated at.
SequenceInv ==
    /\ \A r, s \in InFlight : r = s
    /\ \A r \in Runs : cost[r] > 0 => r \in entries \union InFlight
    /\ Within
    /\ \A r \in Runs : /\ r \in InFlight => total + est[r] < Budget
                       /\ place[r] \in {"rewrite", "fill"} => view[r] = <<total, entries>>
                       /\ place[r] = "fill" => size = 0
    /\ readable \/ \E r \in Runs : place[r] = "fill"

\* The inductive invariant.
BudgetInv == BudgetType /\ SpendingInv /\ LedgerInv /\ (Orderly => SequenceInv)

\* The same sum after a step.
LEMMA CostIsNext == \A S : CostOf(S)' = Total(cost', S)
  BY DEF CostOf, MapThenSumSet, MapThenFoldSet, Total, IsSum, Value

\* Every set of runs is finite.
LEMMA SomeRuns == \A S \in SUBSET Runs : IsFiniteSet(S)
  BY RunsAssumption, FS_Subset

\* What the gate compares and what a run loads.
LEMMA LoadedIs ==
    /\ readable => Loaded[1] = total /\ Loaded[2] = entries
    /\ ~readable => Loaded[1] = 0 /\ Loaded[2] = {}
  BY DEF Loaded

\* No run has spent anything at the start.
LEMMA BudgetStart == BudgetInit => BudgetInv
<1> SUFFICES ASSUME BudgetInit PROVE BudgetInv
  OBVIOUS
<1> USE BudgetAssumption DEF BudgetInit
<1>1. BudgetType
  BY DEF BudgetType
<1>2. SpendingInv
  BY DEF SpendingInv
<1>3. LedgerInv
  <2>1. Total(cost, {}) = 0
    BY TotalIs, FS_EmptySet
  <2> QED
    BY <2>1, CostIs DEF LedgerInv
<1>4. SequenceInv
  BY DEF SequenceInv, InFlight, Within
<1> QED
  BY <1>1, <1>2, <1>3, <1>4 DEF BudgetInv

\* Types are kept.
LEMMA BudgetTypeStep ==
    ASSUME BudgetInv, NEW r \in Runs, Step(r)
    PROVE  BudgetType'
<1> USE BudgetAssumption DEF BudgetType, Move
<1>0. BudgetType /\ LedgerInv
  BY DEF BudgetInv
<1>1. CASE Refused(r)
  BY <1>0, <1>1 DEF Refused, ledger
<1>2. CASE Admitted(r)
  BY <1>0, <1>2 DEF Admitted, ledger
<1>3. CASE Recorded(r)
  BY <1>0, <1>3 DEF Recorded, Realized, ledger
<1>4. CASE Lost(r)
  BY <1>0, <1>4 DEF Lost, Realized, ledger
<1>5. CASE Load(r)
  <2>1. Loaded \in Nat \X SUBSET Runs
    BY <1>0 DEF Loaded, LedgerInv, Done
  <2> QED
    BY <1>0, <1>5, <2>1 DEF Load, ledger
<1>6. CASE Truncate(r)
  BY <1>0, <1>6 DEF Truncate
<1>7. CASE Fill(r)
  <2>1. view[r][1] \in Nat /\ view[r][2] \in SUBSET Runs /\ cost[r] \in Nat
    BY <1>0
  <2>2. total' \in Nat
    BY <1>7, <2>1 DEF Fill
  <2>3. Cardinality(entries') \in Nat
    <3>1. entries' \in SUBSET Runs
      BY <1>7, <2>1 DEF Fill
    <3> QED
      BY <3>1, SomeRuns, FS_CardinalityType
  <2>4. size' \in Nat
    BY <1>0, <1>7, <2>3 DEF Fill
  <2> QED
    BY <1>0, <1>7, <2>2, <2>4 DEF Fill
<1>8. CASE DieInRewrite(r)
  BY <1>0, <1>8 DEF DieInRewrite, ledger
<1> QED
  BY <1>1, <1>2, <1>3, <1>4, <1>5, <1>6, <1>7, <1>8 DEF Step

\* A cost is written once, when the run stops running.
LEMMA SpendingStep ==
    ASSUME BudgetInv, NEW r \in Runs, Step(r)
    PROVE  SpendingInv'
<1>0. BudgetType /\ SpendingInv
  BY DEF BudgetInv
<1> SUFFICES ASSUME NEW s \in Runs, place'[s] \in {"new", "refused", "running"}
             PROVE  cost'[s] = 0
  BY DEF SpendingInv
<1>1. place[s] \in {"new", "refused", "running"} => cost[s] = 0
  BY <1>0 DEF SpendingInv
<1>2. CASE Recorded(r) \/ Lost(r)
  BY <1>0, <1>1, <1>2 DEF Recorded, Lost, Realized, Move, BudgetType
<1>3. CASE ~(Recorded(r) \/ Lost(r))
  BY <1>0, <1>1, <1>3
     DEF Step, Refused, Admitted, Load, Truncate, Fill, DieInRewrite, Move, BudgetType
<1> QED
  BY <1>2, <1>3

\* No step of a run changes the cost of runs that are over.
LEMMA OverStaysSo ==
    ASSUME BudgetInv, BudgetType', NEW r \in Runs, Step(r), NEW S \in SUBSET Done
    PROVE  /\ S \in SUBSET Done' /\ r \notin S
           /\ Total(cost', S) = Total(cost, S) /\ Total(cost, S) \in Nat
<1>0. BudgetType
  BY DEF BudgetInv
<1>1. place[r] # "done"
  BY DEF Step, Refused, Admitted, Recorded, Lost, Load, Truncate, Fill, DieInRewrite
<1>2. \A s \in Runs : s # r => place'[s] = place[s] /\ cost'[s] = cost[s]
  BY <1>0 DEF Step, Refused, Admitted, Recorded, Lost, Load, Truncate, Fill, DieInRewrite,
              Move, BudgetType
<1>3. S \in SUBSET Runs /\ IsFiniteSet(S) /\ r \notin S
  BY <1>1, SomeRuns DEF Done
<1>4. cost \in [Runs -> Nat] /\ cost' \in [Runs -> Nat]
  BY <1>0 DEF BudgetType
<1>5. Total(cost', S) = Total(cost, S) /\ Total(cost, S) \in Nat
  <2>1. \A s \in S : cost'[s] = cost[s]
    BY <1>2, <1>3
  <2> QED
    BY <1>3, <1>4, <2>1, TotalSame, TotalNat
<1>6. S \in SUBSET Done'
  BY <1>2, <1>3 DEF Done
<1> QED
  BY <1>3, <1>5, <1>6

\* The file and the copies add up after every step.
LEMMA LedgerStep ==
    ASSUME BudgetInv, BudgetType', NEW r \in Runs, Step(r)
    PROVE  LedgerInv'
<1>0. BudgetType /\ LedgerInv
  BY DEF BudgetInv
<1>1. /\ entries \in SUBSET Done /\ total = Total(cost, entries)
      /\ \A s \in Runs : view[s][2] \in SUBSET Done /\ view[s][1] = Total(cost, view[s][2])
  BY <1>0, CostIs DEF LedgerInv
<1>2. entries \in SUBSET Done' /\ total = Total(cost', entries)
  BY <1>1, OverStaysSo
<1>3. \A s \in Runs : view[s][2] \in SUBSET Done' /\ view[s][1] = Total(cost', view[s][2])
  BY <1>1, OverStaysSo
<1>4. entries' \in SUBSET Done' /\ total' = Total(cost', entries')
  <2>1. CASE Fill(r)
    <3> DEFINE S == view[r][2]
    <3>1. S \in SUBSET Runs /\ IsFiniteSet(S) /\ r \notin S
      BY <1>1, OverStaysSo, SomeRuns DEF Done
    <3>2. total' = view[r][1] + cost[r] /\ entries' = S \cup {r} /\ cost' = cost
      BY <2>1 DEF Fill
    <3>3. cost' \in [Runs -> Nat]
      BY DEF BudgetType
    <3>4. Total(cost', S \cup {r}) = Total(cost', S) + cost'[r]
      <4> HIDE DEF S
      <4> QED
        BY <3>1, <3>3, TotalAdd
    <3>5. r \in Done'
      BY <1>0, <2>1 DEF Fill, Move, Done, BudgetType
    <3> QED
      BY <1>3, <3>2, <3>4, <3>5
  <2>2. CASE ~Fill(r)
    <3>1. entries' = entries /\ total' = total
      BY <2>2 DEF Step, Refused, Admitted, Recorded, Lost, Load, Truncate, DieInRewrite, ledger
    <3> QED
      BY <3>1, <1>2
  <2> QED
    BY <2>1, <2>2
<1>5. \A s \in Runs : view'[s][2] \in SUBSET Done' /\ view'[s][1] = Total(cost', view'[s][2])
  <2>1. CASE Load(r)
    <3>1. Loaded[2] \in SUBSET Done' /\ Loaded[1] = Total(cost', Loaded[2])
      <4>1. Total(cost', {}) = 0
        BY TotalIs, FS_EmptySet
      <4> QED
        BY <4>1, <1>2, LoadedIs
    <3>2. \A s \in Runs : view'[s] = IF s = r THEN Loaded ELSE view[s]
      BY <1>0, <2>1 DEF Load, BudgetType
    <3> QED
      BY <3>1, <3>2, <1>3
  <2>2. CASE ~Load(r)
    <3>1. view' = view
      BY <2>2 DEF Step, Refused, Admitted, Recorded, Lost, Truncate, Fill, DieInRewrite
    <3> QED
      BY <3>1, <1>3
  <2> QED
    BY <2>1, <2>2
<1> QED
  BY <1>4, <1>5, CostIsNext DEF LedgerInv

\* A step that keeps the sequence orderly is none of those that lose a run, and admits
\* a run only when no other is in flight.
LEMMA OrderlyBefore ==
    ASSUME BudgetInv, NEW r \in Runs, Step(r), Orderly'
    PROVE  Orderly /\ ~Lost(r) /\ ~DieInRewrite(r) /\ (Admitted(r) => InFlight = {})
<1>1. losses \in Nat
  BY DEF BudgetInv, BudgetType
<1>2. losses' = 0 /\ ~crowded'
  BY DEF Orderly
<1>3. ~Lost(r) /\ ~DieInRewrite(r)
  BY <1>1, <1>2 DEF Lost, DieInRewrite
<1>4. CASE Admitted(r)
  BY <1>2, <1>3, <1>4 DEF Admitted, Orderly
<1>5. CASE ~Admitted(r)
  <2>1. losses' = losses /\ crowded' = crowded
    BY <1>3, <1>5 DEF Step, Refused, Recorded, Load, Truncate, Fill
  <2> QED
    BY <1>2, <1>3, <1>5, <2>1 DEF Orderly
<1> QED
  BY <1>4, <1>5

\* The other runs stay where they are; the run that steps was in flight, and alone in
\* it, unless it steps out of "new".
LEMMA Alone ==
    ASSUME BudgetInv, NEW r \in Runs, Step(r), Orderly'
    PROVE  /\ SequenceInv
           /\ \A s \in Runs : s # r => place'[s] = place[s] /\ cost'[s] = cost[s]
                                        /\ view'[s] = view[s]
           /\ est' = est
           /\ \A s \in Runs : s # r /\ ~Refused(r) => s \notin InFlight /\ s \notin InFlight'
<1>1. BudgetType /\ SequenceInv
  BY OrderlyBefore DEF BudgetInv
<1>2. \A s \in Runs : s # r => place'[s] = place[s] /\ cost'[s] = cost[s] /\ view'[s] = view[s]
  BY <1>1 DEF Step, Refused, Admitted, Recorded, Lost, Load, Truncate, Fill, DieInRewrite,
              Move, BudgetType, ledger
<1>3. est' = est
  BY DEF Step, Refused, Admitted, Recorded, Lost, Load, Truncate, Fill, DieInRewrite
<1>4. ASSUME NEW s \in Runs, s # r, ~Refused(r) PROVE s \notin InFlight /\ s \notin InFlight'
  <2>1. s \notin InFlight
    <3>1. CASE Admitted(r)
      BY <3>1, OrderlyBefore
    <3>2. CASE ~Admitted(r)
      <4>1. r \in InFlight
        BY <3>2, <1>4, OrderlyBefore
           DEF Step, Recorded, Load, Truncate, Fill, InFlight
      <4> QED
        BY <4>1, <1>1, <1>4 DEF SequenceInv
    <3> QED
      BY <3>1, <3>2
  <2> QED
    BY <2>1, <1>2, <1>4 DEF InFlight
<1> QED
  BY <1>1, <1>2, <1>3, <1>4

\* What the listed runs cost, and that the budget holds them, is not touched by a run
\* that adds itself to none of them.
LEMMA WithinStays ==
    ASSUME BudgetInv, BudgetType', NEW r \in Runs, Step(r), Within,
           total' = total, entries' = entries
    PROVE  Within'
<1>1. est' = est
  BY DEF Step, Refused, Admitted, Recorded, Lost, Load, Truncate, Fill, DieInRewrite
<1>2. ASSUME NEW w \in entries, Total(cost, entries \ {w}) + est[w] < Budget
      PROVE  Total(cost', entries' \ {w}) + est'[w] < Budget
  <2>1. entries \ {w} \in SUBSET Done
    BY DEF BudgetInv, LedgerInv
  <2>2. Total(cost', entries \ {w}) = Total(cost, entries \ {w})
    <3> DEFINE S == entries \ {w}
    <3> HIDE DEF S
    <3>1. S \in SUBSET Done
      BY <2>1 DEF S
    <3>2. Total(cost', S) = Total(cost, S)
      BY <3>1, OverStaysSo
    <3> QED
      BY <3>2 DEF S
  <2> QED
    BY <1>1, <1>2, <2>2
<1> QED
  BY <1>2 DEF Within

\* A run that adds itself to the list was admitted when there was room for its estimate.
LEMMA WithinGrows ==
    ASSUME BudgetInv, BudgetType', NEW r \in Runs, Step(r),
           entries' = entries \cup {r}, total + est[r] < Budget
    PROVE  Within'
<1>1. est' = est
  BY DEF Step, Refused, Admitted, Recorded, Lost, Load, Truncate, Fill, DieInRewrite
<1>2. entries \in SUBSET Done /\ total = Total(cost, entries)
  BY CostIs DEF BudgetInv, LedgerInv
<1>3. Total(cost', entries) = Total(cost, entries) /\ r \notin entries
  BY <1>2, OverStaysSo
<1>4. entries' \ {r} = entries /\ r \in entries'
  BY <1>3
<1>5. Total(cost', entries' \ {r}) + est'[r] < Budget
  BY <1>1, <1>2, <1>3, <1>4
<1> QED
  BY <1>4, <1>5 DEF Within

\* An orderly sequence of runs stays within the budget, but for one run's excess.
LEMMA SequenceStep ==
    ASSUME BudgetInv, BudgetType', NEW r \in Runs, Step(r), Orderly'
    PROVE  SequenceInv'
<1> DEFINE Old(s) == s # r => place'[s] = place[s] /\ cost'[s] = cost[s] /\ view'[s] = view[s]
<1>0. /\ BudgetType /\ SpendingInv /\ SequenceInv /\ est' = est
      /\ \A s \in Runs : Old(s)
      /\ \A s \in Runs : s # r /\ ~Refused(r) => s \notin InFlight /\ s \notin InFlight'
  BY Alone DEF BudgetInv
<1>1. /\ total \in Nat /\ Budget \in Nat /\ est[r] \in Nat /\ cost[r] \in Nat
      /\ view[r][1] \in Nat /\ view[r][2] \in SUBSET Runs
  BY <1>0, BudgetAssumption DEF BudgetType
<1>w. total' = total /\ entries' = entries => Within'
  BY <1>0, WithinStays DEF SequenceInv
<1>2. CASE Refused(r)
  <2>1. InFlight' = InFlight /\ UNCHANGED <<est, cost, total, entries, readable, size, view>>
    BY <1>0, <1>2 DEF Refused, Move, InFlight, BudgetType, ledger
  <2>2. \A s \in Runs : /\ place'[s] = "running" => place[s] = "running"
                        /\ place'[s] \in {"rewrite", "fill"} => place'[s] = place[s]
                        /\ place[s] = "fill" => place'[s] = "fill"
    BY <1>0, <1>2 DEF Refused, Move, BudgetType
  <2> QED
    BY <1>0, <1>w, <2>1, <2>2 DEF SequenceInv
<1>3. ASSUME ~Refused(r),
             total' = total /\ entries' = entries, r \in InFlight',
             cost'[r] \in Nat, total + est[r] < Budget,
             place'[r] \in {"rewrite", "fill"} => view'[r] = <<total, entries>>,
             place'[r] = "fill" => size' = 0,
             readable' \/ place'[r] = "fill"
      PROVE  SequenceInv'
  <2>1. \A s \in InFlight' : s = r
    BY <1>0, <1>3 DEF InFlight
  <2>2. \A s \in Runs : cost'[s] > 0 => s \in entries' \union InFlight'
    BY <1>0, <1>3 DEF SequenceInv
  <2>3. \A s \in Runs : s # r => place'[s] \notin {"running", "rewrite", "fill"}
    BY <1>0, <1>3 DEF InFlight
  <2> QED
    BY <1>0, <1>w, <1>3, <2>1, <2>2, <2>3 DEF SequenceInv
<1>4. CASE Admitted(r)
  <2>1. InFlight = {}
    BY <1>4, OrderlyBefore
  <2>2. readable
    BY <1>0, <2>1 DEF SequenceInv, InFlight
  <2>3. total + est[r] < Budget
    BY <1>1, <1>4, <2>2 DEF Admitted, WouldExceed, Loaded
  <2>4. cost[r] = 0
    BY <1>0, <1>4 DEF Admitted, SpendingInv
  <2>5. place'[r] = "running" /\ UNCHANGED <<total, entries, cost, readable>>
    BY <1>0, <1>4 DEF Admitted, Move, BudgetType, ledger
  <2>6. r \in InFlight' /\ ~Refused(r)
    BY <1>0, <1>4, <2>5 DEF InFlight, Admitted, Refused, Loaded, WouldExceed
  <2> QED
    BY <1>1, <2>2, <2>3, <2>4, <2>5, <2>6, <1>3
<1>5. CASE Recorded(r)
  <2>1. total + est[r] < Budget /\ readable
    <3>1. \A s \in Runs : s # r => place[s] # "fill"
      BY <1>0, <1>5 DEF Recorded, Refused, InFlight
    <3> QED
      BY <1>0, <1>5, <3>1 DEF Recorded, SequenceInv, InFlight
  <2>2. cost'[r] \in Nat
    BY DEF BudgetType
  <2>3. place'[r] = "load" /\ UNCHANGED <<total, entries, readable>>
    BY <1>0, <1>5 DEF Recorded, Move, BudgetType, ledger
  <2>4. r \in InFlight' /\ ~Refused(r)
    BY <1>5, <2>3 DEF InFlight, Recorded, Refused
  <2> QED
    BY <1>1, <2>1, <2>2, <2>3, <2>4, <1>3
<1>6. CASE Load(r)
  <2>1. total + est[r] < Budget /\ readable
    <3>1. \A s \in Runs : s # r => place[s] # "fill"
      BY <1>0, <1>6 DEF Load, Refused, InFlight
    <3> QED
      BY <1>0, <1>6, <3>1 DEF Load, SequenceInv, InFlight
  <2>2. view'[r] = <<total, entries>>
    BY <1>0, <1>6, <2>1 DEF Load, Loaded, BudgetType
  <2>3. place'[r] = "rewrite" /\ UNCHANGED <<total, entries, readable, cost>>
    BY <1>0, <1>6 DEF Load, Move, BudgetType, ledger
  <2>4. r \in InFlight' /\ ~Refused(r)
    BY <1>6, <2>3 DEF InFlight, Load, Refused
  <2> QED
    BY <1>1, <2>1, <2>2, <2>3, <2>4, <1>3
<1>7. CASE Truncate(r)
  <2>1. total + est[r] < Budget /\ view[r] = <<total, entries>>
    BY <1>0, <1>7 DEF Truncate, SequenceInv, InFlight
  <2>2. place'[r] = "fill" /\ size' = 0 /\ UNCHANGED <<total, entries, cost, view>>
    BY <1>0, <1>7 DEF Truncate, Move, BudgetType
  <2>3. r \in InFlight' /\ ~Refused(r)
    BY <1>7, <2>2 DEF InFlight, Truncate, Refused
  <2> QED
    BY <1>1, <2>1, <2>2, <2>3, <1>3
<1>8. CASE Fill(r)
  <2>1. total + est[r] < Budget /\ view[r] = <<total, entries>> /\ size = 0
    BY <1>0, <1>8 DEF Fill, SequenceInv, InFlight
  <2>2. total' = total + cost[r] /\ entries' = entries \cup {r} /\ cost' = cost
    BY <1>8, <2>1 DEF Fill
  <2>3. place'[r] = "done" /\ ~Refused(r)
    BY <1>0, <1>8 DEF Fill, Move, BudgetType, Refused
  <2>4. readable'
    <3>1. Cardinality(entries') \in Nat /\ Cardinality(entries') # 0
      <4>1. entries' \in SUBSET Runs /\ entries' # {}
        BY <2>1, <2>2, <1>1
      <4> QED
        BY <4>1, SomeRuns, FS_CardinalityType, FS_EmptySet
    <3>2. Cardinality(entries') > size
      BY <2>1, <3>1
    <3>3. readable' \in {TRUE}
      BY <1>8, <3>2, Zenon DEF Fill
    <3> QED
      BY <3>3
  <2>5. InFlight' = {}
    BY <1>0, <2>3 DEF InFlight
  <2>6. \A s \in Runs : cost'[s] > 0 => s \in entries'
    BY <1>0, <2>2, <2>3 DEF SequenceInv, InFlight
  <2>7. \A s \in Runs : place'[s] \notin {"running", "rewrite", "fill"}
    BY <2>5 DEF InFlight
  <2>8. Within'
    BY <2>1, <2>2, WithinGrows
  <2> QED
    BY <1>1, <2>4, <2>5, <2>6, <2>7, <2>8 DEF SequenceInv
<1> QED
  BY <1>2, <1>4, <1>5, <1>6, <1>7, <1>8, OrderlyBefore DEF Step

\* BudgetInv is inductive.
LEMMA BudgetStep == BudgetInv /\ [BudgetNext]_budgetVars => BudgetInv'
<1> SUFFICES ASSUME BudgetInv, [BudgetNext]_budgetVars PROVE BudgetInv'
  OBVIOUS
<1>1. CASE \E r \in Runs : Step(r)
  <2>1. PICK r \in Runs : Step(r)
    BY <1>1
  <2>2. BudgetType'
    BY <2>1, BudgetTypeStep
  <2>3. SpendingInv' /\ LedgerInv' /\ (Orderly' => SequenceInv')
    BY <2>1, <2>2, SpendingStep, LedgerStep, SequenceStep
  <2> QED
    BY <2>2, <2>3 DEF BudgetInv
<1>2. CASE UNCHANGED budgetVars
  <2>1. UNCHANGED <<place, est, cost, total, entries, readable, size, view, losses, crowded>>
    BY <1>2 DEF budgetVars, ledger
  <2>2. LedgerInv'
    <3>1. LedgerInv
      BY DEF BudgetInv
    <3> QED
      BY <2>1, <3>1, CostIs, CostIsNext DEF LedgerInv, Done
  <2>3. BudgetType' /\ SpendingInv' /\ (Orderly' => SequenceInv')
    BY <2>1 DEF BudgetInv, BudgetType, SpendingInv, Orderly, SequenceInv, InFlight, Within
  <2> QED
    BY <2>2, <2>3 DEF BudgetInv
<1> QED
  BY <1>1, <1>2 DEF BudgetNext, AllOver

\* CostLedger.add and the gate of execute() keep the strengthened invariant, however the
\* runs interleave and wherever one is lost.
THEOREM BudgetInvariant == BudgetSpec => []BudgetInv
  BY BudgetStart, BudgetStep, PTL DEF BudgetSpec

\* While the runs are orderly, all that was spent is the ledger's total and the cost of
\* the run in flight, whose estimate fitted.
LEMMA SpentIs ==
    ASSUME BudgetInv, Orderly
    PROVE  CostOf(Runs) = 0 \/ \E r \in Runs : CostOf(Runs \ {r}) + est[r] < Budget
<1> USE BudgetAssumption
<1>1. BudgetType /\ SpendingInv /\ LedgerInv /\ SequenceInv
  BY DEF BudgetInv
<1>2. cost \in [Runs -> Nat] /\ IsFiniteSet(Runs) /\ entries \in SUBSET Runs
  BY <1>1, RunsAssumption DEF BudgetType, LedgerInv, Done
<1>3. total = Total(cost, entries)
  BY <1>1, CostIs DEF LedgerInv
<1>4. CASE InFlight = {}
  <2>1. \A s \in Runs \ entries : cost[s] = 0
    BY <1>1, <1>2, <1>4 DEF SequenceInv
  <2>2. Total(cost, Runs) = total
    BY <1>2, <1>3, <2>1, TotalZero
  <2>3. ASSUME NEW w \in entries, Total(cost, entries \ {w}) + est[w] < Budget
        PROVE  CostOf(Runs \ {w}) + est[w] < Budget
    <3> DEFINE S == Runs \ {w}
               T == entries \ {w}
    <3>1. S \in SUBSET Runs /\ T \in SUBSET S /\ \A s \in S \ T : cost[s] = 0
      BY <1>2, <2>1
    <3>2. Total(cost, S) = Total(cost, T)
      <4> HIDE DEF S, T
      <4> QED
        BY <1>2, <3>1, SomeRuns, TotalZero
    <3> QED
      BY <2>3, <3>2, CostIs
  <2> QED
    BY <1>1, <1>2, <2>2, <2>3, CostIs DEF SequenceInv, Within
<1>5. ASSUME NEW r \in InFlight PROVE CostOf(Runs \ {r}) + est[r] < Budget
  <2> DEFINE S == Runs \ {r}
  <2>1. r \in Runs \ entries /\ total + est[r] < Budget
    BY <1>1, <1>5 DEF SequenceInv, LedgerInv, Done, InFlight
  <2>2. S \in SUBSET Runs /\ entries \in SUBSET S /\ \A s \in S \ entries : cost[s] = 0
    BY <1>1, <1>2, <1>5, <2>1 DEF SequenceInv
  <2>3. Total(cost, S) = Total(cost, entries)
    <3> HIDE DEF S
    <3> QED
      BY <1>2, <2>2, SomeRuns, TotalZero
  <2> QED
    BY <1>3, <2>1, <2>3, CostIs
<1>6. InFlight \subseteq Runs
  BY DEF InFlight
<1> QED
  BY <1>4, <1>5, <1>6

\* NeverOvercharges: the ledger's total is the cost of the runs it lists, whatever
\* updates of CostLedger.add overwrote each other and wherever a process died.
THEOREM LedgerAddsUp == BudgetSpec => []NeverOvercharges
<1>1. BudgetInv => NeverOvercharges
  BY DEF BudgetInv, LedgerInv, NeverOvercharges
<1> QED
  BY <1>1, BudgetInvariant, PTL

\* OrderlyRunsAreCapped: runs that come one after another and end by themselves pass the
\* budget by no more than what one of them cost over its estimate, whatever prices the
\* enricher computes, and whatever they spent is in the ledger that the gate of the next
\* one reads.
THEOREM BudgetIsKept == BudgetSpec => []OrderlyRunsAreCapped
<1>1. ASSUME BudgetInv PROVE OrderlyRunsAreCapped
  <2>1. BudgetCaps
    BY <1>1, SpentIs DEF BudgetCaps
  <2>2. ASSUME Orderly, InFlight = {}, NEW r \in Runs, cost[r] > 0 PROVE r \in Loaded[2]
    <3>1. SequenceInv
      BY <1>1, <2>2 DEF BudgetInv
    <3>2. readable
      BY <3>1, <2>2 DEF SequenceInv, InFlight
    <3> QED
      BY <3>1, <3>2, <2>2 DEF SequenceInv, Loaded
  <2>3. EveryRunBooked
    BY <2>2 DEF EveryRunBooked
  <2> QED
    BY <2>1, <2>3 DEF OrderlyRunsAreCapped
<1> QED
  BY <1>1, BudgetInvariant, PTL

----------------------------------------------------------------------------
(* What outlives a run.                                                    *)

\* The threads that may still fail or create; that have yet to create, or to upload; that
\* have created; that are about to return.
Active    == {t \in Threads : at[t] \notin {"idle", "return"}}
Underway  == {t \in Threads : at[t] \in {"upload", "create"}}
Uploading == {t \in Threads : at[t] = "upload"}
Created   == {t \in Threads : at[t] \in {"poll", "publish", "endpoint", "return"}}
Returning == {t \in Threads : at[t] = "return"}

\* What the failures and overlaps so far pay for, and the one runtime of a run that has
\* an endpoint or is still at it.
Room == failures + overlaps + (IF url # None \/ Active # {} THEN 1 ELSE 0)

\* What holds in every phase.
CountsInv ==
    /\ puts \in Nat /\ made <= 1 + failures + overlaps
    /\ alive \subseteq 1 .. made /\ \A t \in Threads : own[t] <= made
    /\ \A a, b \in booked : a = b
    /\ cloud = "aws" => puts = 0 /\ \A t \in Threads : at[t] \notin {"upload", "publish"}

\* Until the run is closed nothing is deleted or forgotten, and every create and upload
\* has been paid for.
OpenInv == phase \in {"prepare", "open"} =>
    /\ \A t \in Created : own[t] \in alive /\ held # None
    /\ held # None => held \in alive
    /\ url # None => held # None
    /\ objects = 1 .. puts /\ ref = puts
    /\ cloud = "aliyun" /\ (held # None \/ \E t \in Threads : at[t] = "create") => puts # 0
    /\ made + Cardinality(Underway) <= Room
    /\ puts + Cardinality(Uploading) <= Room
    /\ mode = "lazy" => booked = {}

\* The suite's prepare() is alone; after it the ledger has the runtime.  A lazy endpoint
\* is flagged, or about to be.
PhaseInv ==
    /\ phase = "prepare" =>
         /\ mode = "explicit" /\ booked = {} /\ ~lazy
         /\ \A s, t \in Threads : at[s] # "idle" /\ at[t] # "idle" => s = t
         /\ url # None => Returning # {}
    /\ phase = "open" =>
         /\ mode = "explicit" => booked # {} /\ booked \subseteq alive
         /\ url # None => lazy \/ Returning # {} \/ booked # {}
    /\ phase \notin {"prepare", "open"} => Quiet

\* What is left after close() and the reconcile is paid for, but for what stop() is
\* about to take down.
Accounted ==
    /\ Cardinality(alive \ booked)
         <= failures + overlaps + (IF MustStop /\ held \in alive \ booked THEN 1 ELSE 0)
    /\ Cardinality(objects)
         <= failures + overlaps + (IF MustStop /\ ref \in objects THEN 1 ELSE 0)

\* Both hold between the close and the stop.
EndInv == phase \in {"closed", "reconciled"} => Accounted

\* The inductive invariant.
RuntimesInv == TypeOK /\ CountsInv /\ OpenInv /\ PhaseInv /\ EndInv /\ LeaksAreCaused

\* What follows each step of the two provision() methods.
LEMMA StepsAre ==
    ASSUME cloud \in {"aliyun", "aws"}
    PROVE  /\ Steps[1] = IF cloud = "aliyun" THEN "upload" ELSE "create"
           /\ cloud = "aliyun" => After("upload") = "create" /\ After("publish") = "endpoint"
           /\ After("create") = "poll"
           /\ After("poll") = IF cloud = "aliyun" THEN "publish" ELSE "endpoint"
<1> DEFINE Place(s) == CHOOSE i \in 1 .. Len(Steps) : Steps[i] = s
<1>1. CASE cloud = "aliyun"
  <2>1. Steps = AliyunSteps /\ Len(Steps) = 6
    BY <1>1 DEF Steps, AliyunSteps
  <2>2. /\ Steps[1] = "upload" /\ Steps[2] = "create" /\ Steps[3] = "poll"
        /\ Steps[4] = "publish" /\ Steps[5] = "endpoint" /\ Steps[6] = "return"
    BY <2>1 DEF AliyunSteps
  <2>3. Place("upload") = 1
    BY <2>1, <2>2
  <2>4. Place("create") = 2
    BY <2>1, <2>2
  <2>5. Place("poll") = 3
    BY <2>1, <2>2
  <2>6. Place("publish") = 4
    BY <2>1, <2>2
  <2> HIDE DEF Place
  <2>7. \A s : After(s) = Steps[1 + Place(s)]
    BY DEF After, Place
  <2> QED
    BY <1>1, <2>2, <2>3, <2>4, <2>5, <2>6, <2>7
<1>2. CASE cloud = "aws"
  <2>1. Steps = AwsSteps /\ Len(Steps) = 4
    BY <1>2 DEF Steps, AwsSteps
  <2>2. /\ Steps[1] = "create" /\ Steps[2] = "poll" /\ Steps[3] = "endpoint"
        /\ Steps[4] = "return"
    BY <2>1 DEF AwsSteps
  <2>3. Place("create") = 1
    BY <2>1, <2>2
  <2>4. Place("poll") = 2
    BY <2>1, <2>2
  <2> HIDE DEF Place
  <2>5. \A s : After(s) = Steps[1 + Place(s)]
    BY DEF After, Place
  <2> QED
    BY <1>2, <2>2, <2>3, <2>4, <2>5
<1> QED
  BY <1>1, <1>2

\* How one move of a thread changes the number of those in a group of steps.
One(b) == IF b THEN 1 ELSE 0

\* By one, if it enters or leaves the group.
LEMMA GroupMoves ==
    ASSUME TypeOK, TypeOK', NEW t \in Threads, NEW x, at' = [at EXCEPT ![t] = x], NEW G
    PROVE  LET Now  == {s \in Threads : at[s] \in G}
               Then == {s \in Threads : at'[s] \in G} IN
           /\ Cardinality(Now) \in Nat /\ Cardinality(Then) \in Nat
           /\ Cardinality(Then) = Cardinality(Now) + One(x \in G) - One(at[t] \in G)
<1> DEFINE Now  == {s \in Threads : at[s] \in G}
           Then == {s \in Threads : at'[s] \in G}
           Rest == Now \ {t}
<1>1. IsFiniteSet(Now) /\ IsFiniteSet(Rest)
  BY ThreadsAssumption, FS_Subset
<1>2. /\ at'[t] = x
      /\ \A s \in Threads : s # t => at'[s] = at[s]
  BY DEF TypeOK
<1>3. Now = IF at[t] \in G THEN Rest \cup {t} ELSE Rest
  OBVIOUS
<1>4. Then = IF x \in G THEN Rest \cup {t} ELSE Rest
  BY <1>2
<1>5. t \notin Rest
  OBVIOUS
<1> HIDE DEF Now, Then, Rest
<1>6. Cardinality(Rest) \in Nat /\ Cardinality(Rest \cup {t}) = Cardinality(Rest) + 1
  BY <1>1, <1>5, FS_AddElement, FS_CardinalityType
<1>7. Cardinality(Now) = Cardinality(Rest) + One(at[t] \in G)
  BY <1>3, <1>6 DEF One
<1>8. Cardinality(Then) = Cardinality(Rest) + One(x \in G)
  BY <1>4, <1>6 DEF One
<1>9. One(x \in G) \in {0, 1} /\ One(at[t] \in G) \in {0, 1}
  BY DEF One
<1>10. /\ Cardinality(Now) \in Nat /\ Cardinality(Then) \in Nat
       /\ Cardinality(Then) = Cardinality(Now) + One(x \in G) - One(at[t] \in G)
  BY <1>6, <1>7, <1>8, <1>9
<1> QED
  BY <1>10 DEF Now, Then

\* The two groups that are counted.
LEMMA CountsMove ==
    ASSUME TypeOK, TypeOK', NEW t \in Threads, NEW x, at' = [at EXCEPT ![t] = x]
    PROVE  /\ Cardinality(Underway) \in Nat /\ Cardinality(Underway') \in Nat
           /\ Cardinality(Underway') = Cardinality(Underway)
                + One(x \in {"upload", "create"}) - One(at[t] \in {"upload", "create"})
           /\ Cardinality(Uploading) \in Nat /\ Cardinality(Uploading') \in Nat
           /\ Cardinality(Uploading') = Cardinality(Uploading)
                + One(x \in {"upload"}) - One(at[t] \in {"upload"})
<1> DEFINE UC == {"upload", "create"}
           U  == {"upload"}
<1>1. /\ Underway = {s \in Threads : at[s] \in UC}
      /\ Underway' = {s \in Threads : at'[s] \in UC}
      /\ Uploading = {s \in Threads : at[s] \in U}
      /\ Uploading' = {s \in Threads : at'[s] \in U}
  BY DEF Underway, Uploading
<1> HIDE DEF UC, U
<1>2. /\ Cardinality(Underway) \in Nat /\ Cardinality(Underway') \in Nat
      /\ Cardinality(Underway') = Cardinality(Underway) + One(x \in UC) - One(at[t] \in UC)
  BY <1>1, GroupMoves
<1>3. /\ Cardinality(Uploading) \in Nat /\ Cardinality(Uploading') \in Nat
      /\ Cardinality(Uploading') = Cardinality(Uploading) + One(x \in U) - One(at[t] \in U)
  BY <1>1, GroupMoves
<1> QED
  BY <1>2, <1>3 DEF UC, U

\* There are at most n things in a set of numbers from 1 to n, and one less without one.
LEMMA FewIn ==
    ASSUME NEW n \in Nat, NEW S \in SUBSET (1 .. n)
    PROVE  /\ IsFiniteSet(S) /\ Cardinality(S) \in Nat /\ Cardinality(S) <= n
           /\ \A x \in S : Cardinality(S \ {x}) = Cardinality(S) - 1
<1>1. IsFiniteSet(1 .. n) /\ Cardinality(1 .. n) = n
  BY FS_Interval
<1>2. IsFiniteSet(S) /\ Cardinality(S) \in Nat /\ Cardinality(S) <= n
  BY <1>1, FS_Subset, FS_CardinalityType
<1> QED
  BY <1>2, FS_RemoveElement

\* A delete that may not have taken effect.
LEMMA Deleted ==
    ASSUME NEW S, IsFiniteSet(S), NEW x, NEW T \in {S \ {x}, S}
    PROVE  /\ IsFiniteSet(T) /\ Cardinality(T) \in Nat /\ Cardinality(S) \in Nat
           /\ Cardinality(T) <= Cardinality(S) - One(x \in S) + One(x \in T)
<1>1. Cardinality(S) \in Nat /\ IsFiniteSet(T) /\ Cardinality(T) \in Nat
  BY FS_CardinalityType, FS_RemoveElement
<1>2. CASE x \in S
  BY <1>1, <1>2, FS_RemoveElement DEF One
<1>3. CASE x \notin S
  <2>1. T = S
    BY <1>3
  <2> QED
    BY <1>1, <1>3, <2>1 DEF One
<1> QED
  BY <1>1, <1>2, <1>3

\* Nothing exists at the start.
LEMMA RuntimesStart == RuntimesInit => RuntimesInv
<1> SUFFICES ASSUME RuntimesInit PROVE RuntimesInv
  OBVIOUS
<1> USE BoundsAssumption DEF RuntimesInit, None
<1>1. TypeOK
  <2>1. 0 \in 0 .. MaxRuntimes /\ 0 \in 0 .. MaxFailures /\ {} \subseteq 1 .. 0 /\ 0 \in 0 .. 0
    OBVIOUS
  <2>2. phase \in {"prepare", "open", "closed", "reconciled", "stopped"}
    OBVIOUS
  <2>3. /\ at \in [Threads -> {"idle", "upload", "create", "poll", "publish", "endpoint", "return"}]
        /\ own \in [Threads -> 0 .. MaxRuntimes]
    BY <2>1
  <2> QED
    BY <2>1, <2>2, <2>3 DEF TypeOK
<1>2. CountsInv
  BY DEF CountsInv
<1>3. OpenInv
  <2>1. Underway = {} /\ Uploading = {} /\ Active = {} /\ Created = {}
    BY DEF Underway, Uploading, Active, Created
  <2>2. Cardinality({}) = 0
    BY FS_EmptySet
  <2>3. Room = 0
    BY <2>1 DEF Room
  <2> QED
    BY <2>1, <2>2, <2>3 DEF OpenInv
<1>4. PhaseInv /\ EndInv /\ LeaksAreCaused
  BY DEF PhaseInv, EndInv, LeaksAreCaused
<1> QED
  BY <1>1, <1>2, <1>3, <1>4 DEF RuntimesInv

\* Types are kept where a thread goes on or raises, ...
LEMMA ThreadType ==
    ASSUME TypeOK, NEW t \in Threads,
           NEW x \in {"create", "poll", "publish", "endpoint", "return"},
           Proceed(t, x) \/ Raise(t)
    PROVE  /\ at' \in [Threads -> {"idle", "upload", "create", "poll", "publish", "endpoint",
                                   "return"}]
           /\ phase' \in {"prepare", "open", "closed", "reconciled", "stopped"}
           /\ failures' \in 0 .. MaxFailures /\ overlaps' \in Nat
<1> USE BoundsAssumption DEF TypeOK
<1>1. CASE Proceed(t, x)
  BY <1>1 DEF Proceed, counts
<1>2. CASE Raise(t)
  BY <1>2 DEF Raise, Failure
<1> QED
  BY <1>1, <1>2

\* ... by deprovision() ...
LEMMA DeprovisionType ==
    ASSUME TypeOK, CountsInv, NEW r \in 0 .. MaxRuntimes,
           Deprovision(r) \/ DeprovisionRaises \/ AliyunStop
              \/ UNCHANGED <<alive, transport, artifacts, counts>>
    PROVE  /\ alive' \subseteq alive /\ lazy' \in BOOLEAN
           /\ held' \in {held, None} /\ url' \in {url, None}
           /\ puts' = puts /\ objects' \subseteq objects /\ ref' \in {ref, None}
           /\ failures' \in failures .. MaxFailures /\ overlaps' = overlaps
<1> USE BoundsAssumption DEF TypeOK, CountsInv, None
<1>1. ASSUME NEW q, Deprovision(q)
      PROVE  /\ alive' \subseteq alive /\ lazy' \in BOOLEAN
             /\ held' \in {held, None} /\ url' \in {url, None}
             /\ puts' = puts /\ objects' \subseteq objects /\ ref' \in {ref, None}
             /\ failures' \in failures .. MaxFailures /\ overlaps' = overlaps
  <2>1. Deleting(q) /\ Counted(q)
    BY <1>1 DEF Deprovision, AliyunDeprovision, AwsDeprovision
  <2>2. AliyunForget(q) \/ AwsForget(q)
    BY <1>1 DEF Deprovision, AliyunDeprovision, AwsDeprovision
  <2>3. CleanupArtifact \/ UNCHANGED artifacts
    BY <1>1 DEF Deprovision, AliyunDeprovision, AwsDeprovision
  <2>4. alive' \subseteq alive
    BY <2>1 DEF Deleting
  <2>5. lazy' \in BOOLEAN /\ held' \in {held, None} /\ url' \in {url, None}
    BY <2>2 DEF AliyunForget, AwsForget, transport
  <2>6. puts' = puts /\ objects' \subseteq objects /\ ref' \in {ref, None}
    BY <2>3 DEF CleanupArtifact, artifacts
  <2>7. failures' \in failures .. MaxFailures /\ overlaps' = overlaps
    <3> DEFINE a == IF q \in alive' THEN 1 ELSE 0
               b == IF ref # None /\ ref' = None /\ ref \in objects' THEN 1 ELSE 0
    <3>1. failures' = failures + a + b /\ failures' <= MaxFailures /\ overlaps' = overlaps
      BY <2>1 DEF Counted
    <3>2. a \in {0, 1} /\ b \in {0, 1}
      OBVIOUS
    <3> HIDE DEF a, b
    <3> QED
      BY <3>1, <3>2
  <2> QED
    BY <2>4, <2>5, <2>6, <2>7
<1>2. CASE Deprovision(r)
  BY <1>1, <1>2
<1>3. CASE DeprovisionRaises
  BY <1>3 DEF DeprovisionRaises, Failure, transport, artifacts
<1>4. CASE AliyunStop
  <2>1. CASE Deprovision(held)
    BY <1>1, <2>1
  <2>2. CASE ~Deprovision(held)
    <3>1. Failure /\ held' = None /\ lazy' = FALSE /\ UNCHANGED <<alive, url, artifacts>>
      <4>1. ~Deprovision(held)
        BY <2>2
      <4> QED
        BY <1>4, <4>1 DEF AliyunStop
    <3>2. failures' \in failures .. MaxFailures /\ overlaps' = overlaps
      BY <3>1 DEF Failure
    <3>3. alive' = alive /\ url' = url /\ objects' = objects /\ ref' = ref /\ puts' = puts
      BY <3>1 DEF artifacts
    <3>4. held' = None /\ lazy' \in BOOLEAN
      BY <3>1
    <3> QED
      BY <3>2, <3>3, <3>4
  <2> QED
    BY <2>1, <2>2
<1>5. CASE UNCHANGED <<alive, transport, artifacts, counts>>
  BY <1>5 DEF transport, artifacts, counts
<1> QED
  BY <1>2, <1>3, <1>4, <1>5

\* ... and by every step.
LEMMA RuntimesTypeStep ==
    ASSUME TypeOK, CountsInv, OpenInv, RuntimesNext
    PROVE  TypeOK'
<1> USE BoundsAssumption
<1>0. cloud \in {"aliyun", "aws"} /\ MaxRuntimes \in Nat /\ MaxFailures \in Nat
  BY DEF TypeOK
<1>1. ASSUME NEW t \in Threads, Begin(t) PROVE TypeOK'
  <2>1. Steps[1] \in {"upload", "create"}
    BY <1>0, StepsAre
  <2> QED
    BY <1>1, <2>1 DEF Begin, TypeOK, transport, artifacts
<1>2. ASSUME NEW t \in Threads, UploadArtifact(t) PROVE TypeOK'
  <2>1. cloud = "aliyun" => After("upload") = "create"
    BY <1>0, StepsAre
  <2>2. cloud = "aliyun" /\ puts \in Nat
    BY <1>0, <1>2 DEF UploadArtifact, CountsInv
  <2>3. Proceed(t, "create") \/ Raise(t)
    BY <1>2, <2>1, <2>2 DEF UploadArtifact
  <2>4. objects' \subseteq 1 .. puts' /\ ref' \in 0 .. puts'
    <3>1. \/ puts' = puts + 1 /\ objects' = objects \union {puts + 1} /\ ref' = puts + 1
          \/ UNCHANGED <<objects, ref, puts>>
      BY <1>2 DEF UploadArtifact, artifacts
    <3>2. objects \subseteq 1 .. puts /\ ref \in 0 .. puts
      BY DEF TypeOK
    <3>3. puts + 1 \in Nat /\ 1 .. puts \subseteq 1 .. (puts + 1) /\ puts + 1 \in 1 .. (puts + 1)
      BY <2>2
    <3>4. CASE puts' = puts + 1
      <4>1. objects' \subseteq 1 .. (puts + 1) /\ ref' \in 0 .. (puts + 1)
        <5>1. objects' = objects \union {puts + 1} /\ ref' = puts + 1
          BY <2>2, <3>1, <3>4
        <5>2. objects \subseteq 1 .. (puts + 1)
          BY <3>2, <3>3
        <5> QED
          BY <2>2, <3>3, <5>1, <5>2
      <4> QED
        BY <3>4, <4>1
    <3> QED
      BY <3>1, <3>2, <3>4
  <2>5. UNCHANGED <<cloud, mode, named, alive, made, held, url, lazy, booked, own, reported>>
    BY <1>2 DEF UploadArtifact, transport
  <2> QED
    BY <2>3, <2>4, <2>5, ThreadType DEF TypeOK
<1>3. ASSUME NEW t \in Threads, CreateRuntime(t) PROVE TypeOK'
  <2>1. After("create") = "poll"
    BY <1>0, StepsAre
  <2>2. made < MaxRuntimes /\ made + 1 \in Runtimes
    BY <1>0, <1>3 DEF CreateRuntime, TypeOK, Runtimes
  <2>3. Proceed(t, "poll") \/ Raise(t)
    BY <1>3, <2>1 DEF CreateRuntime
  <2>4. /\ alive' \subseteq Runtimes /\ made' \in 0 .. MaxRuntimes
        /\ held' \in 0 .. MaxRuntimes /\ own' \in [Threads -> 0 .. MaxRuntimes]
    <3>1. \/ /\ made' = made + 1 /\ alive' = alive \union {made + 1}
             /\ \/ held' = made + 1 /\ own' = [own EXCEPT ![t] = made + 1]
                \/ UNCHANGED <<held, own>>
          \/ UNCHANGED <<made, alive, held, own>>
      BY <1>3 DEF CreateRuntime
    <3>2. /\ made + 1 \in 0 .. MaxRuntimes /\ alive \subseteq Runtimes /\ made \in 0 .. MaxRuntimes
          /\ held \in 0 .. MaxRuntimes /\ own \in [Threads -> 0 .. MaxRuntimes]
      BY <1>0, <2>2 DEF TypeOK
    <3> QED
      BY <2>2, <3>1, <3>2
  <2>5. UNCHANGED <<cloud, mode, named, url, lazy, objects, ref, puts, booked, reported>>
    BY <1>3 DEF CreateRuntime, artifacts
  <2> QED
    BY <2>3, <2>4, <2>5, ThreadType DEF TypeOK
<1>4. ASSUME NEW t \in Threads, PollReady(t) \/ PublishVersion(t) PROVE TypeOK'
  <2>1. After("poll") \in {"publish", "endpoint"}
        /\ (cloud = "aliyun" => After("publish") = "endpoint")
    BY <1>0, StepsAre
  <2>2. at[t] = "publish" => cloud = "aliyun"
    BY <1>0 DEF CountsInv
  <2>3. PICK x \in {"publish", "endpoint"} : Proceed(t, x) \/ Raise(t)
    BY <1>4, <2>1, <2>2 DEF PollReady, PublishVersion
  <2>4. UNCHANGED <<cloud, mode, named, alive, made, held, url, lazy, objects, ref, puts,
                    booked, own, reported>>
    BY <1>4 DEF PollReady, PublishVersion, transport, artifacts
  <2> QED
    BY <2>3, <2>4, ThreadType DEF TypeOK
<1>5. ASSUME NEW t \in Threads, CreateEndpoint(t) PROVE TypeOK'
  BY <1>0, <1>5 DEF CreateEndpoint, Proceed, Raise, Failure, TypeOK, artifacts, counts, None
<1>6. ASSUME NEW t \in Threads, ProvisionReturns(t) PROVE TypeOK'
  <2>1. phase = "prepare" => own[t] \in Runtimes
    BY <1>6 DEF ProvisionReturns, OpenInv, Created, TypeOK
  <2>2. phase' \in {"prepare", "open", "closed", "reconciled", "stopped"}
        /\ booked' \subseteq Runtimes /\ lazy' \in BOOLEAN
    BY <1>6, <2>1 DEF ProvisionReturns, Booking, TypeOK
  <2>3. /\ at' = [at EXCEPT ![t] = "idle"] /\ own' = [own EXCEPT ![t] = None]
        /\ UNCHANGED <<cloud, mode, named, alive, made, held, url, objects, ref, puts,
                       failures, overlaps, reported>>
    BY <1>6 DEF ProvisionReturns, artifacts, counts
  <2> QED
    BY <1>0, <2>2, <2>3 DEF TypeOK, None
<1>7. ASSUME Close \/ Reconcile PROVE TypeOK'
  <2>1. PICK r \in 0 .. MaxRuntimes :
             /\ \/ Deprovision(r) \/ DeprovisionRaises
                \/ UNCHANGED <<alive, transport, artifacts, counts>>
             /\ booked' \subseteq booked
    <3>1. CASE booked = {}
      <4>1. NothingToDo
        BY <1>7, <3>1 DEF Close, Reconcile
      <4> QED
        BY <1>0, <4>1 DEF NothingToDo
    <3>2. CASE booked # {}
      <4>1. PICK r \in booked : AdapterDeprovision(r)
        BY <1>7, <3>2 DEF Close, Reconcile
      <4>2. r \in 0 .. MaxRuntimes
        BY <1>0 DEF TypeOK, Runtimes
      <4> QED
        BY <4>1, <4>2 DEF AdapterDeprovision
    <3> QED
      BY <3>1, <3>2
  <2>2. /\ alive' \subseteq alive /\ lazy' \in BOOLEAN
        /\ held' \in {held, None} /\ url' \in {url, None}
        /\ puts' = puts /\ objects' \subseteq objects /\ ref' \in {ref, None}
        /\ failures' \in failures .. MaxFailures /\ overlaps' = overlaps
    BY <2>1, DeprovisionType
  <2>3. /\ UNCHANGED <<cloud, mode, named, made, at, own>>
        /\ phase' \in {"closed", "reconciled"} /\ reported' \in {reported, booked'}
    BY <1>7 DEF Close, Reconcile, VerifiedResidual
  <2> QED
    BY <1>0, <2>1, <2>2, <2>3 DEF TypeOK, CountsInv, None
<1>8. ASSUME Teardown PROVE TypeOK'
  <2>1. Deprovision(held) \/ AliyunStop \/ UNCHANGED <<alive, transport, artifacts, counts>>
    BY <1>8 DEF Teardown, AwsStop
  <2>2. /\ alive' \subseteq alive /\ lazy' \in BOOLEAN
        /\ held' \in {held, None} /\ url' \in {url, None}
        /\ puts' = puts /\ objects' \subseteq objects /\ ref' \in {ref, None}
        /\ failures' \in failures .. MaxFailures /\ overlaps' = overlaps
    <3>1. held \in 0 .. MaxRuntimes
      BY DEF TypeOK
    <3> QED
      BY <2>1, <3>1, DeprovisionType
  <2>3. UNCHANGED <<cloud, mode, named, made, booked, at, own, reported>> /\ phase' = "stopped"
    BY <1>8 DEF Teardown
  <2> QED
    BY <1>0, <2>2, <2>3 DEF TypeOK, CountsInv, None
<1>9. ASSUME Sweep PROVE TypeOK'
  BY <1>9 DEF Sweep, Managed, TypeOK, transport, artifacts, counts
<1> QED
  BY <1>1, <1>2, <1>3, <1>4, <1>5, <1>6, <1>7, <1>8, <1>9
     DEF RuntimesNext, Provisioning, Prepare, Call

\* A thread is in provision() only until the run is closed; the one of prepare() is alone.
LEMMA AtWork ==
    ASSUME RuntimesInv, NEW t \in Threads, at[t] # "idle"
    PROVE  /\ phase \in {"prepare", "open"}
           /\ phase = "prepare" => \A s \in Threads : s # t => at[s] = "idle"
           /\ phase = "prepare" /\ at[t] # "return" => url = None
  BY DEF RuntimesInv, PhaseInv, Quiet, Returning

\* A failing provider call pays for what it leaves behind.
LEMMA RaiseStep ==
    ASSUME RuntimesInv, TypeOK', NEW t \in Active, Raise(t),
           UNCHANGED <<cloud, mode, held, url, lazy, objects, ref, puts, booked, own>>,
           \/ made' = made /\ alive' = alive
           \/ at[t] = "create" /\ made' = made + 1 /\ alive' = alive \union {made + 1}
    PROVE  RuntimesInv'
<1> USE DEF None
<1>0. /\ t \in Threads /\ at[t] \notin {"idle", "return"} /\ at' = [at EXCEPT ![t] = "idle"]
      /\ \A s \in Threads : at'[s] = IF s = t THEN "idle" ELSE at[s]
      /\ failures' = failures + 1 /\ overlaps' = overlaps
      /\ phase' = IF phase = "prepare" THEN "closed" ELSE phase
  BY DEF Active, Raise, Failure, RuntimesInv, TypeOK
<1>1. /\ TypeOK /\ CountsInv /\ PhaseInv
      /\ phase \in {"prepare", "open"} /\ OpenInv
      /\ phase = "prepare" => url = None /\ \A s \in Threads : s # t => at[s] = "idle"
  BY <1>0, AtWork DEF RuntimesInv
<1>2. /\ made \in Nat /\ puts \in Nat /\ failures \in Nat /\ overlaps \in Nat
      /\ made' \in {made, made + 1} /\ alive' \subseteq 1 .. made' /\ alive \subseteq alive'
  <2>1. made \in Nat /\ puts \in Nat /\ failures \in Nat /\ overlaps \in Nat
        /\ alive \subseteq 1 .. made
    BY <1>1, BoundsAssumption DEF TypeOK, CountsInv
  <2>2. 1 .. made \subseteq 1 .. (made + 1) /\ made + 1 \in 1 .. (made + 1)
    BY <2>1
  <2> QED
    BY <2>1, <2>2
<1>3. CountsInv'
  <2>1. \A s \in Threads : own'[s] <= made'
    <3>1. \A s \in Threads : own[s] \in Int
      BY <1>1, BoundsAssumption DEF TypeOK
    <3> QED
      BY <3>1, <1>1, <1>2 DEF CountsInv
  <2> QED
    BY <2>1, <1>0, <1>1, <1>2 DEF CountsInv
<1>4. /\ Room = failures + overlaps + 1
      /\ Room' \in Nat /\ Room' >= failures' + overlaps'
  <2>1. Room = failures + overlaps + 1
    BY DEF Room
  <2>2. Room' = failures' + overlaps' \/ Room' = failures' + overlaps' + 1
    BY <1>0, <1>2 DEF Room
  <2> QED
    BY <2>1, <2>2, <1>0, <1>2
<1>5. /\ Cardinality(Underway') \in Nat /\ Cardinality(Uploading') \in Nat
      /\ made' + Cardinality(Underway') <= failures' + overlaps'
      /\ puts' + Cardinality(Uploading') <= failures' + overlaps'
  <2>1. /\ Cardinality(Underway) \in Nat /\ Cardinality(Underway') \in Nat
        /\ Cardinality(Underway') = Cardinality(Underway)
                + One("idle" \in {"upload", "create"}) - One(at[t] \in {"upload", "create"})
        /\ Cardinality(Uploading) \in Nat /\ Cardinality(Uploading') \in Nat
        /\ Cardinality(Uploading') = Cardinality(Uploading)
                + One("idle" \in {"upload"}) - One(at[t] \in {"upload"})
    BY <1>0, <1>1, CountsMove
  <2>2. /\ made + Cardinality(Underway) <= failures + overlaps + 1
        /\ puts + Cardinality(Uploading) <= failures + overlaps + 1
    BY <1>1, <1>4 DEF OpenInv
  <2>3. One("idle" \in {"upload", "create"}) = 0 /\ One("idle" \in {"upload"}) = 0
    BY DEF One
  <2>4. made' = made + 1 => One(at[t] \in {"upload", "create"}) = 1
    BY <1>2 DEF One
  <2>5. One(at[t] \in {"upload", "create"}) \in {0, 1} /\ One(at[t] \in {"upload"}) \in {0, 1}
    BY DEF One
  <2> QED
    BY <2>1, <2>2, <2>3, <2>4, <2>5, <1>0, <1>2
<1>6. OpenInv'
  <2>1. Created' \subseteq Created
    BY <1>0 DEF Created
  <2>2. phase = "open" => OpenInv'
    BY <2>1, <1>0, <1>1, <1>2, <1>4, <1>5 DEF OpenInv
  <2> QED
    BY <2>2, <1>0, <1>1 DEF OpenInv
<1>7. PhaseInv'
  <2>1. phase = "prepare" => Quiet'
    BY <1>0, <1>1 DEF Quiet
  <2>2. Returning' = Returning
    BY <1>0 DEF Returning
  <2> QED
    BY <2>1, <2>2, <1>0, <1>1, <1>2 DEF PhaseInv
<1>8. EndInv'
  <2>1. CASE phase = "open"
    BY <2>1, <1>0 DEF EndInv
  <2>2. CASE phase = "prepare"
    <3>1. made' \in Nat /\ puts' \in Nat /\ objects' = 1 .. puts'
      <4>1. objects = 1 .. puts
        BY <1>1 DEF OpenInv
      <4> QED
        BY <4>1, <1>2
    <3>2. /\ Cardinality(alive' \ booked') \in Nat /\ Cardinality(alive' \ booked') <= made'
          /\ Cardinality(objects') = puts'
      <4> DEFINE S == alive' \ booked'
      <4>1. S \in SUBSET (1 .. made')
        BY <1>2
      <4>2. Cardinality(S) \in Nat /\ Cardinality(S) <= made'
        <5> HIDE DEF S
        <5> QED
          BY <3>1, <4>1, FewIn
      <4>3. Cardinality(1 .. puts') = puts'
        BY <3>1, FS_Interval
      <4> QED
        BY <3>1, <4>2, <4>3
    <3> DEFINE a == IF (MustStop /\ held \in alive \ booked)' THEN 1 ELSE 0
               b == IF (MustStop /\ ref \in objects)' THEN 1 ELSE 0
    <3>3. a \in {0, 1} /\ b \in {0, 1}
      OBVIOUS
    <3>4. /\ Cardinality(alive' \ booked') <= failures' + overlaps' + a
          /\ Cardinality(objects') <= failures' + overlaps' + b
      <4> HIDE DEF a, b
      <4> QED
        BY <3>1, <3>2, <3>3, <1>0, <1>2, <1>5
    <3> QED
      BY <3>4 DEF EndInv, Accounted
  <2> QED
    BY <2>1, <2>2, <1>1
<1>9. LeaksAreCaused'
  BY <1>0, <1>1 DEF LeaksAreCaused
<1> QED
  BY <1>3, <1>6, <1>7, <1>8, <1>9 DEF RuntimesInv

\* Going on with provision() changes nothing of the phases.
LEMMA GoesOn ==
    ASSUME RuntimesInv, TypeOK', NEW t \in Active,
           NEW x \in {"create", "poll", "publish", "endpoint", "return"},
           at' = [at EXCEPT ![t] = x],
           UNCHANGED <<phase, mode, lazy, booked>>, alive \subseteq alive',
           url' = url \/ x = "return"
    PROVE  PhaseInv' /\ EndInv' /\ LeaksAreCaused'
<1>0. /\ t \in Threads /\ at[t] \notin {"idle", "return"}
      /\ \A s \in Threads : at'[s] = IF s = t THEN x ELSE at[s]
  BY DEF Active, RuntimesInv, TypeOK
<1>1. /\ PhaseInv /\ phase \in {"prepare", "open"}
      /\ phase = "prepare" => url = None /\ \A s \in Threads : s # t => at[s] = "idle"
  BY <1>0, AtWork DEF RuntimesInv
<1>2. x = "return" => Returning' # {}
  BY <1>0 DEF Returning
<1>3. Returning \subseteq Returning'
  BY <1>0 DEF Returning
<1>4. PhaseInv'
  BY <1>0, <1>1, <1>2, <1>3 DEF PhaseInv
<1>5. EndInv' /\ LeaksAreCaused'
  BY <1>1 DEF EndInv, LeaksAreCaused
<1> QED
  BY <1>4, <1>5

\* A run begins to provision when it has no endpoint: alone, or as one more overlap.
LEMMA BeginStep ==
    ASSUME RuntimesInv, TypeOK', NEW t \in Threads, at[t] = "idle", Begin(t), url = None,
           phase \in {"prepare", "open"}, phase = "prepare" => Quiet
    PROVE  RuntimesInv'
<1> USE DEF None
<1> DEFINE x == Steps[1]
<1>0. /\ TypeOK /\ CountsInv /\ PhaseInv /\ OpenInv
      /\ at' = [at EXCEPT ![t] = x] /\ overlaps' = overlaps + (IF Quiet THEN 0 ELSE 1)
      /\ UNCHANGED <<cloud, mode, phase, alive, made, held, url, lazy, objects, ref, puts,
                     booked, own, failures>>
  BY DEF RuntimesInv, Begin, transport, artifacts
<1>1. x = IF cloud = "aliyun" THEN "upload" ELSE "create"
  BY <1>0, StepsAre, BoundsAssumption DEF TypeOK
<1>2. /\ \A s \in Threads : at'[s] = IF s = t THEN x ELSE at[s]
      /\ cloud \in {"aliyun", "aws"}
  BY <1>0, BoundsAssumption DEF TypeOK
<1> HIDE DEF x
<1>3. /\ made \in Nat /\ puts \in Nat /\ failures \in Nat /\ overlaps \in Nat
      /\ overlaps' \in {overlaps, overlaps + 1} /\ (Quiet => overlaps' = overlaps)
      /\ (~Quiet => overlaps' = overlaps + 1)
  BY <1>0 DEF TypeOK, CountsInv
<1>4. CountsInv'
  BY <1>0, <1>1, <1>2, <1>3 DEF CountsInv
<1>5. /\ Room \in Nat /\ Room' \in Nat /\ Room' >= Room + 1
  <2>1. Room' = failures + overlaps' + 1
    <3>1. t \in Active'
      BY <1>1, <1>2 DEF Active
    <3> QED
      BY <1>0, <3>1 DEF Room
  <2>2. CASE Quiet
    <3>1. Active = {}
      BY <2>2 DEF Quiet, Active
    <3>2. Room = failures + overlaps
      BY <3>1, <1>3 DEF Room
    <3> QED
      BY <2>1, <2>2, <3>2, <1>3
  <2>3. CASE ~Quiet
    <3>1. Room = failures + overlaps \/ Room = failures + overlaps + 1
      BY <1>3 DEF Room
    <3> QED
      BY <2>1, <2>3, <3>1, <1>3
  <2> QED
    BY <2>2, <2>3
<1>6. /\ made + Cardinality(Underway') <= Room'
      /\ puts + Cardinality(Uploading') <= Room'
  <2>1. /\ Cardinality(Underway) \in Nat /\ Cardinality(Underway') \in Nat
        /\ Cardinality(Underway') = Cardinality(Underway)
                + One(x \in {"upload", "create"}) - One(at[t] \in {"upload", "create"})
        /\ Cardinality(Uploading) \in Nat /\ Cardinality(Uploading') \in Nat
        /\ Cardinality(Uploading') = Cardinality(Uploading)
                + One(x \in {"upload"}) - One(at[t] \in {"upload"})
    BY <1>0, CountsMove
  <2>2. /\ One(x \in {"upload", "create"}) \in {0, 1} /\ One(x \in {"upload"}) \in {0, 1}
        /\ One(at[t] \in {"upload", "create"}) = 0 /\ One(at[t] \in {"upload"}) = 0
    BY DEF One
  <2>3. made + Cardinality(Underway) <= Room /\ puts + Cardinality(Uploading) <= Room
    BY <1>0 DEF OpenInv
  <2> QED
    BY <2>1, <2>2, <2>3, <1>3, <1>5
<1>7. OpenInv'
  <2>1. Created' = Created
    BY <1>1, <1>2 DEF Created
  <2>2. cloud = "aliyun" /\ (\E s \in Threads : at'[s] = "create")
          => \E s \in Threads : at[s] = "create"
    BY <1>1, <1>2
  <2> QED
    BY <2>1, <2>2, <1>0, <1>6 DEF OpenInv
<1>8. PhaseInv'
  <2>1. Returning' = Returning
    BY <1>1, <1>2 DEF Returning
  <2>2. phase = "prepare" => \A s \in Threads : s # t => at'[s] = "idle"
    BY <1>2 DEF Quiet
  <2> QED
    BY <2>1, <2>2, <1>0 DEF PhaseInv
<1>9. EndInv' /\ LeaksAreCaused'
  BY <1>0 DEF EndInv, LeaksAreCaused
<1> QED
  BY <1>4, <1>7, <1>8, <1>9 DEF RuntimesInv

\* An upload is counted before it is one of the artifacts.
LEMMA UploadStep ==
    ASSUME RuntimesInv, TypeOK', NEW t \in Threads, UploadArtifact(t)
    PROVE  RuntimesInv'
<1> USE DEF None
<1>0. /\ TypeOK /\ CountsInv /\ at[t] = "upload" /\ t \in Active
      /\ UNCHANGED <<cloud, mode, named, alive, made, held, url, lazy, booked, own, reported>>
  BY DEF RuntimesInv, UploadArtifact, transport, Active
<1>1. phase \in {"prepare", "open"} /\ OpenInv
  BY <1>0, AtWork DEF RuntimesInv
<1>2. cloud = "aliyun" /\ After("upload") = "create"
  <2>1. cloud = "aliyun"
    BY <1>0, BoundsAssumption DEF TypeOK, CountsInv
  <2> QED
    BY <2>1, StepsAre
<1>3. CASE Raise(t) /\ UNCHANGED artifacts
  BY <1>0, <1>3, RaiseStep DEF artifacts
<1>4. CASE /\ puts' = puts + 1 /\ objects' = objects \union {puts + 1} /\ ref' = puts + 1
           /\ Proceed(t, "create")
  <2>1. /\ at' = [at EXCEPT ![t] = "create"] /\ UNCHANGED <<phase, failures, overlaps>>
        /\ \A s \in Threads : at'[s] = IF s = t THEN "create" ELSE at[s]
    BY <1>0, <1>4 DEF Proceed, counts, TypeOK
  <2>2. PhaseInv' /\ EndInv' /\ LeaksAreCaused'
    BY <1>0, <2>1, GoesOn
  <2>3. made \in Nat /\ puts \in Nat /\ failures \in Nat /\ overlaps \in Nat
    BY <1>0 DEF TypeOK, CountsInv
  <2>4. CountsInv'
    BY <1>0, <1>2, <1>4, <2>1, <2>3 DEF CountsInv
  <2>5. /\ made + Cardinality(Underway') <= Room'
        /\ puts' + Cardinality(Uploading') <= Room'
    <3>1. /\ Cardinality(Underway) \in Nat /\ Cardinality(Underway') \in Nat
          /\ Cardinality(Underway') = Cardinality(Underway)
                  + One("create" \in {"upload", "create"}) - One(at[t] \in {"upload", "create"})
          /\ Cardinality(Uploading) \in Nat /\ Cardinality(Uploading') \in Nat
          /\ Cardinality(Uploading') = Cardinality(Uploading)
                  + One("create" \in {"upload"}) - One(at[t] \in {"upload"})
      BY <1>0, <2>1, CountsMove
    <3>2. /\ One("create" \in {"upload", "create"}) = 1 /\ One("create" \in {"upload"}) = 0
          /\ One(at[t] \in {"upload", "create"}) = 1 /\ One(at[t] \in {"upload"}) = 1
      BY <1>0 DEF One
    <3>3. Room' = failures + overlaps + 1 /\ Room = failures + overlaps + 1
      <4>1. t \in Active'
        BY <1>0, <2>1 DEF Active
      <4> QED
        BY <1>0, <2>1, <4>1 DEF Room
    <3>4. made + Cardinality(Underway) <= Room /\ puts + Cardinality(Uploading) <= Room
      BY <1>1 DEF OpenInv
    <3> QED
      BY <3>1, <3>2, <3>3, <3>4, <2>3, <1>4
  <2>6. objects' = 1 .. puts'
    <3>1. objects = 1 .. puts
      BY <1>1 DEF OpenInv
    <3> QED
      BY <3>1, <2>3, <1>4
  <2>7. OpenInv'
    <3>1. Created' = Created
      BY <1>0, <2>1 DEF Created
    <3> QED
      BY <3>1, <1>0, <1>1, <1>4, <2>1, <2>3, <2>5, <2>6 DEF OpenInv
  <2> QED
    BY <2>2, <2>4, <2>7 DEF RuntimesInv
<1> QED
  BY <1>2, <1>3, <1>4 DEF UploadArtifact

\* So is a create.
LEMMA CreateStep ==
    ASSUME RuntimesInv, TypeOK', NEW t \in Threads, CreateRuntime(t)
    PROVE  RuntimesInv'
<1> USE DEF None
<1>0. /\ TypeOK /\ CountsInv /\ at[t] = "create" /\ t \in Active
      /\ UNCHANGED <<cloud, mode, named, url, lazy, objects, ref, puts, booked, reported>>
  BY DEF RuntimesInv, CreateRuntime, artifacts, Active
<1>1. phase \in {"prepare", "open"} /\ OpenInv
  BY <1>0, AtWork DEF RuntimesInv
<1>2. After("create") = "poll"
  BY <1>0, StepsAre, BoundsAssumption DEF TypeOK
<1>3. CASE Raise(t)
  <2>1. UNCHANGED <<held, own>>
    BY <1>0, <1>3 DEF CreateRuntime, Raise, Failure, Proceed, counts, TypeOK
  <2> QED
    BY <1>0, <1>3, <2>1, RaiseStep DEF CreateRuntime
<1>4. CASE /\ made' = made + 1 /\ alive' = alive \union {made + 1}
           /\ held' = made + 1 /\ own' = [own EXCEPT ![t] = made + 1]
           /\ Proceed(t, "poll")
  <2>1. /\ at' = [at EXCEPT ![t] = "poll"] /\ UNCHANGED <<phase, failures, overlaps>>
        /\ \A s \in Threads : at'[s] = IF s = t THEN "poll" ELSE at[s]
        /\ \A s \in Threads : own'[s] = IF s = t THEN made + 1 ELSE own[s]
    BY <1>0, <1>4 DEF Proceed, counts, TypeOK
  <2>2. PhaseInv' /\ EndInv' /\ LeaksAreCaused'
    BY <1>0, <1>4, <2>1, GoesOn
  <2>3. /\ made \in Nat /\ puts \in Nat /\ failures \in Nat /\ overlaps \in Nat
        /\ \A s \in Threads : own[s] \in Nat
    BY <1>0, BoundsAssumption DEF TypeOK, CountsInv
  <2>4. /\ made' + Cardinality(Underway') <= failures + overlaps + 1
        /\ puts + Cardinality(Uploading') <= failures + overlaps + 1
        /\ Cardinality(Underway') \in Nat
    <3>1. /\ Cardinality(Underway) \in Nat /\ Cardinality(Underway') \in Nat
          /\ Cardinality(Underway') = Cardinality(Underway)
                  + One("poll" \in {"upload", "create"}) - One(at[t] \in {"upload", "create"})
          /\ Cardinality(Uploading) \in Nat /\ Cardinality(Uploading') \in Nat
          /\ Cardinality(Uploading') = Cardinality(Uploading)
                  + One("poll" \in {"upload"}) - One(at[t] \in {"upload"})
      BY <1>0, <2>1, CountsMove
    <3>2. /\ One("poll" \in {"upload", "create"}) = 0 /\ One("poll" \in {"upload"}) = 0
          /\ One(at[t] \in {"upload", "create"}) = 1 /\ One(at[t] \in {"upload"}) = 0
      BY <1>0 DEF One
    <3>3. Room = failures + overlaps + 1
      BY <1>0 DEF Room
    <3>4. made + Cardinality(Underway) <= Room /\ puts + Cardinality(Uploading) <= Room
      BY <1>1 DEF OpenInv
    <3> QED
      BY <3>1, <3>2, <3>3, <3>4, <2>3, <1>4
  <2>5. Room' = failures + overlaps + 1
    <3>1. t \in Active'
      BY <1>0, <2>1 DEF Active
    <3> QED
      BY <2>1, <3>1 DEF Room
  <2>6. CountsInv'
    <3>1. alive' \subseteq 1 .. made'
      <4>1. alive \subseteq 1 .. made
        BY <1>0 DEF CountsInv
      <4>2. 1 .. made \subseteq 1 .. (made + 1) /\ made + 1 \in 1 .. (made + 1)
        BY <2>3
      <4> QED
        BY <4>1, <4>2, <1>4
    <3>2. \A s \in Threads : own'[s] <= made'
      BY <1>0, <1>4, <2>1, <2>3 DEF CountsInv
    <3>3. made' <= 1 + failures + overlaps
      BY <1>4, <2>3, <2>4
    <3> QED
      BY <1>0, <2>1, <2>3, <3>1, <3>2, <3>3 DEF CountsInv
  <2>7. OpenInv'
    <3>1. \A s \in Created' : own'[s] \in alive' /\ held' # None
      <4>1. \A s \in Created' : s = t \/ s \in Created
        BY <2>1 DEF Created
      <4>2. \A s \in Created' : s \in Threads
        BY DEF Created
      <4> QED
        BY <4>1, <4>2, <1>1, <1>4, <2>1, <2>3 DEF OpenInv
    <3>2. held' \in alive' /\ held' # None
      BY <1>4, <2>3
    <3>3. cloud = "aliyun" => puts # 0
      BY <1>0, <1>1 DEF OpenInv
    <3>4. /\ made' + Cardinality(Underway') <= Room'
          /\ puts' + Cardinality(Uploading') <= Room'
      BY <1>0, <2>4, <2>5
    <3>5. objects' = 1 .. puts' /\ ref' = puts' /\ (mode' = "lazy" => booked' = {})
      BY <1>0, <1>1 DEF OpenInv
    <3> QED
      BY <1>0, <3>1, <3>2, <3>3, <3>4, <3>5 DEF OpenInv
  <2> QED
    BY <2>2, <2>6, <2>7 DEF RuntimesInv
<1> QED
  BY <1>2, <1>3, <1>4 DEF CreateRuntime

\* The steps between the create and the return change nothing that is counted; an
\* endpoint keeps the room that the work on it had, a failed one pays for it.
LEMMA LaterStep ==
    ASSUME RuntimesInv, TypeOK', NEW t \in Active, t \in Created,
           NEW x \in {"publish", "endpoint", "return"}, at' = [at EXCEPT ![t] = x],
           cloud = "aws" => x # "publish",
           UNCHANGED <<cloud, mode, phase, alive, made, held, lazy, objects, ref, puts,
                       booked, own, overlaps>>,
           \/ x # "return" /\ UNCHANGED <<url, failures>>
           \/ x = "return" /\ url' = own[t] /\ failures' = failures
           \/ x = "return" /\ url' = None /\ failures' = failures + 1
    PROVE  RuntimesInv'
<1> USE DEF None
<1>0. /\ TypeOK /\ CountsInv /\ t \in Threads /\ at[t] \in {"poll", "publish", "endpoint"}
      /\ \A s \in Threads : at'[s] = IF s = t THEN x ELSE at[s]
  BY DEF RuntimesInv, Active, Created, TypeOK
<1>1. phase \in {"prepare", "open"} /\ OpenInv
  BY <1>0, AtWork DEF RuntimesInv
<1>2. PhaseInv' /\ EndInv' /\ LeaksAreCaused'
  <2>1. url' = url \/ x = "return"
    OBVIOUS
  <2> QED
    BY <2>1, GoesOn
<1>3. made \in Nat /\ puts \in Nat /\ failures \in Nat /\ overlaps \in Nat /\ failures' \in Nat
  BY <1>0, BoundsAssumption DEF TypeOK, CountsInv
<1>4. CountsInv'
  <2>1. made <= 1 + failures' + overlaps
    <3>1. made <= 1 + failures + overlaps
      BY <1>0 DEF CountsInv
    <3>2. CASE failures' = failures
      BY <3>1, <3>2, <1>3
    <3>3. CASE failures' = failures + 1
      BY <3>1, <3>3, <1>3
    <3> QED
      BY <3>2, <3>3
  <2> QED
    BY <1>0, <2>1 DEF CountsInv
<1>5. /\ Cardinality(Underway') = Cardinality(Underway)
      /\ Cardinality(Uploading') = Cardinality(Uploading)
  <2>1. Underway' = Underway /\ Uploading' = Uploading
    BY <1>0 DEF Underway, Uploading
  <2> QED
    BY <2>1
<1>6. Room = failures + overlaps + 1 /\ Room' \in Nat /\ Room' >= Room
  <2>1. Room = failures + overlaps + 1
    BY <1>0 DEF Room
  <2>2. CASE failures' = failures + 1
    <3>1. Room' = failures' + overlaps \/ Room' = failures' + overlaps + 1
      BY <1>3 DEF Room
    <3> QED
      BY <2>1, <2>2, <3>1, <1>3
  <2>3. CASE failures' = failures
    <3>1. own[t] \in alive /\ 0 \notin alive
      BY <1>0, <1>1, <1>3 DEF OpenInv, CountsInv
    <3>2. url' # 0 \/ Active' # {}
      <4>1. CASE x # "return"
        <5>1. t \in Active'
          BY <1>0, <4>1 DEF Active
        <5> QED
          BY <5>1
      <4>2. CASE x = "return"
        BY <4>2, <2>3, <3>1, <1>3
      <4> QED
        BY <4>1, <4>2
    <3>3. Room' = failures + overlaps + 1
      BY <2>3, <3>2 DEF Room
    <3> QED
      BY <2>1, <3>3, <1>3
  <2> QED
    BY <2>2, <2>3
<1>7. OpenInv'
  <2>1. Created' \subseteq Created
    BY <1>0 DEF Created
  <2>2. held # 0
    BY <1>1 DEF OpenInv
  <2>3. /\ Cardinality(Underway) \in Nat /\ Cardinality(Uploading) \in Nat
    BY <1>0, CountsMove
  <2>4. /\ made' + Cardinality(Underway') <= Room'
        /\ puts' + Cardinality(Uploading') <= Room'
    <3>1. made + Cardinality(Underway) <= Room /\ puts + Cardinality(Uploading) <= Room
      BY <1>1 DEF OpenInv
    <3> QED
      BY <3>1, <2>3, <1>3, <1>5, <1>6
  <2> QED
    BY <1>0, <1>1, <2>1, <2>2, <2>4 DEF OpenInv
<1> QED
  BY <1>2, <1>4, <1>7 DEF RuntimesInv

\* The wait for a ready runtime, and the publishing of its version.
LEMMA PollStep ==
    ASSUME RuntimesInv, TypeOK', NEW t \in Threads, PollReady(t) \/ PublishVersion(t)
    PROVE  RuntimesInv'
<1>0. /\ TypeOK /\ CountsInv /\ t \in Active /\ t \in Created /\ at[t] \in {"poll", "publish"}
      /\ UNCHANGED <<cloud, mode, named, alive, made, held, url, lazy, objects, ref, puts,
                     booked, own, reported>>
  BY DEF RuntimesInv, PollReady, PublishVersion, transport, artifacts, Active, Created
<1>1. CASE Raise(t)
  BY <1>0, <1>1, RaiseStep
<1>2. CASE ~Raise(t)
  <2>1. PICK x \in {"publish", "endpoint"} : Proceed(t, x) /\ (cloud = "aws" => x # "publish")
    <3>1. /\ After("poll") = IF cloud = "aliyun" THEN "publish" ELSE "endpoint"
          /\ cloud = "aliyun" => After("publish") = "endpoint"
      BY <1>0, StepsAre, BoundsAssumption DEF TypeOK
    <3>2. at[t] = "publish" => cloud = "aliyun"
      BY <1>0, BoundsAssumption DEF CountsInv, TypeOK
    <3> QED
      BY <3>1, <3>2, <1>2 DEF PollReady, PublishVersion
  <2> QED
    BY <1>0, <2>1, LaterStep DEF Proceed, counts
<1> QED
  BY <1>1, <1>2

\* The Default endpoint.
LEMMA EndpointStep ==
    ASSUME RuntimesInv, TypeOK', NEW t \in Threads, CreateEndpoint(t)
    PROVE  RuntimesInv'
<1>0. /\ t \in Active /\ t \in Created
      /\ UNCHANGED <<cloud, mode, named, alive, made, held, lazy, objects, ref, puts,
                     booked, own, reported>>
  BY DEF CreateEndpoint, artifacts, Active, Created
<1>1. CASE Raise(t) /\ UNCHANGED url
  BY <1>0, <1>1, RaiseStep
<1>2. CASE url' = own[t] /\ Proceed(t, "return")
  BY <1>0, <1>2, LaterStep DEF Proceed, counts
<1>3. CASE url' = None /\ at' = [at EXCEPT ![t] = "return"] /\ Failure /\ UNCHANGED phase
  BY <1>0, <1>3, LaterStep DEF Failure
<1> QED
  BY <1>1, <1>2, <1>3 DEF CreateEndpoint

\* What prepare() provisioned is in the ledger, what a call provisioned is flagged.
LEMMA ReturnStep ==
    ASSUME RuntimesInv, TypeOK', NEW t \in Threads, ProvisionReturns(t)
    PROVE  RuntimesInv'
<1> USE DEF None
<1>0. /\ TypeOK /\ CountsInv /\ PhaseInv /\ at[t] = "return"
      /\ at' = [at EXCEPT ![t] = "idle"]
      /\ \A s \in Threads : at'[s] = IF s = t THEN "idle" ELSE at[s]
      /\ \A s \in Threads : own'[s] = IF s = t THEN 0 ELSE own[s]
      /\ UNCHANGED <<cloud, mode, named, alive, made, held, url, objects, ref, puts,
                     failures, overlaps, reported>>
  BY DEF RuntimesInv, ProvisionReturns, artifacts, counts, TypeOK
<1>1. /\ phase \in {"prepare", "open"} /\ OpenInv
      /\ phase = "prepare" => \A s \in Threads : s # t => at[s] = "idle"
  BY <1>0, AtWork DEF RuntimesInv
<1>2. /\ phase = "prepare" => booked' = {own[t]} /\ mode = "explicit"
      /\ phase = "open" => booked' = booked /\ lazy' = TRUE
      /\ phase' = "open" /\ own[t] \in alive
  <2>1. booked = {} \/ phase = "open"
    BY <1>0, <1>1 DEF PhaseInv
  <2>2. t \in Created
    BY <1>0 DEF Created
  <2> QED
    BY <2>1, <2>2, <1>0, <1>1 DEF ProvisionReturns, Booking, PhaseInv, OpenInv
<1>3. CountsInv'
  <2>1. \A s \in Threads : own'[s] <= made
    <3>1. made \in Nat
      BY <1>0, BoundsAssumption DEF TypeOK
    <3> QED
      BY <1>0, <3>1 DEF CountsInv
  <2>2. \A a, b \in booked' : a = b
    BY <1>0, <1>1, <1>2 DEF CountsInv
  <2> QED
    BY <1>0, <2>1, <2>2 DEF CountsInv
<1>4. OpenInv'
  <2>1. Created' \subseteq Created /\ t \notin Created'
    BY <1>0 DEF Created
  <2>2. Underway' = Underway /\ Uploading' = Uploading /\ Active' = Active
    BY <1>0 DEF Underway, Uploading, Active
  <2>3. Room' = Room
    BY <1>0, <2>2 DEF Room
  <2>4. mode = "lazy" => booked' = {}
    BY <1>1, <1>2 DEF OpenInv
  <2>5. \A s \in Created' : own'[s] \in alive /\ held # 0
    <3>1. \A s \in Created' : s \in Threads /\ s # t
      BY <2>1 DEF Created
    <3> QED
      BY <2>1, <3>1, <1>0, <1>1 DEF OpenInv
  <2>6. ~(\E s \in Threads : at[s] = "create") => ~(\E s \in Threads : at'[s] = "create")
    BY <1>0
  <2> QED
    BY <1>0, <1>1, <2>2, <2>3, <2>4, <2>5, <2>6 DEF OpenInv
<1>5. PhaseInv'
  BY <1>0, <1>1, <1>2 DEF PhaseInv
<1>6. EndInv' /\ LeaksAreCaused'
  BY <1>2 DEF EndInv, LeaksAreCaused
<1> QED
  BY <1>3, <1>4, <1>5, <1>6 DEF RuntimesInv

\* What deprovision() leaves of one runtime, or of the artifact, is a failure counted.
LEMMA Destroyed ==
    ASSUME TypeOK, CountsInv, NEW q \in Runtimes, Deprovision(q)
    PROVE  /\ \A B : Cardinality(alive' \ B)
                       <= Cardinality(alive \ B) - One(q \in alive \ B) + (failures' - failures)
           /\ Cardinality(objects')
                <= Cardinality(objects) - One(ref \in objects) + (failures' - failures)
           /\ alive' \in {alive \ {q}, alive} /\ (held # q => held' = held /\ lazy' = lazy)
           /\ overlaps' = overlaps
<1> USE DEF None
<1> DEFINE b == IF ref # None /\ ref' = None /\ ref \in objects' THEN 1 ELSE 0
<1>1. /\ Deleting(q) /\ Counted(q) /\ (AliyunForget(q) \/ AwsForget(q))
      /\ CleanupArtifact \/ (cloud = "aws" /\ UNCHANGED artifacts)
  <2>1. CASE cloud = "aliyun"
    <3>1. AliyunDeprovision(q)
      BY <2>1 DEF Deprovision
    <3>2. Deleting(q) /\ Counted(q) /\ AliyunForget(q) /\ CleanupArtifact
      BY <3>1 DEF AliyunDeprovision
    <3> QED
      BY <3>2
  <2>2. CASE cloud # "aliyun"
    <3>1. cloud = "aws"
      BY <2>2, BoundsAssumption DEF TypeOK
    <3> QED
      BY <2>2, <3>1 DEF Deprovision, AwsDeprovision
  <2> QED
    BY <2>1, <2>2
<1>2. /\ failures' - failures = One(q \in alive') + b /\ overlaps' = overlaps
      /\ b \in {0, 1} /\ One(q \in alive') \in {0, 1}
  <2>1. failures' = failures + One(q \in alive') + b /\ overlaps' = overlaps
    BY <1>1 DEF Counted, One
  <2>2. b \in {0, 1} /\ One(q \in alive') \in {0, 1} /\ failures \in Nat
    BY DEF One, TypeOK
  <2> HIDE DEF b
  <2> QED
    BY <2>1, <2>2
<1>3. alive' \in {alive \ {q}, alive}
  BY <1>1 DEF Deleting
<1>4. ASSUME NEW B
      PROVE  Cardinality(alive' \ B)
               <= Cardinality(alive \ B) - One(q \in alive \ B) + (failures' - failures)
  <2> DEFINE S == alive \ B
             T == alive' \ B
  <2>1. IsFiniteSet(S)
    <3>1. made \in Nat /\ alive \in SUBSET (1 .. made)
      BY BoundsAssumption DEF TypeOK, CountsInv
    <3>2. IsFiniteSet(alive)
      BY <3>1, FewIn
    <3> QED
      BY <3>2, FS_Subset
  <2>2. T \in {S \ {q}, S}
    BY <1>3
  <2>3. /\ Cardinality(T) \in Nat /\ Cardinality(S) \in Nat
        /\ Cardinality(T) <= Cardinality(S) - One(q \in S) + One(q \in T)
    <3> HIDE DEF S, T
    <3> QED
      BY <2>1, <2>2, Deleted
  <2>4. One(q \in T) <= One(q \in alive') /\ One(q \in T) \in {0, 1} /\ One(q \in S) \in {0, 1}
    BY DEF One
  <2> HIDE DEF S, T, b
  <2>5. Cardinality(T) <= Cardinality(S) - One(q \in S) + (failures' - failures)
    BY <2>3, <2>4, <1>2
  <2> QED
    BY <2>5 DEF S, T
<1>5. Cardinality(objects')
        <= Cardinality(objects) - One(ref \in objects) + (failures' - failures)
  <2>1. IsFiniteSet(objects) /\ 0 \notin objects
    <3>1. puts \in Nat /\ objects \in SUBSET (1 .. puts)
      BY DEF TypeOK, CountsInv
    <3> QED
      BY <3>1, FewIn
  <2>2. CASE CleanupArtifact
    <3>1. objects' \in {objects \ {ref}, objects} /\ ref' = 0
      BY <2>2 DEF CleanupArtifact
    <3>2. /\ Cardinality(objects') \in Nat /\ Cardinality(objects) \in Nat
          /\ Cardinality(objects')
               <= Cardinality(objects) - One(ref \in objects) + One(ref \in objects')
      BY <2>1, <3>1, Deleted
    <3>3. One(ref \in objects') <= b
      BY <2>1, <3>1 DEF One
    <3>4. One(ref \in objects) \in {0, 1} /\ One(ref \in objects') \in {0, 1}
      BY DEF One
    <3> HIDE DEF b
    <3> QED
      BY <3>2, <3>3, <3>4, <1>2
  <2>3. CASE cloud = "aws" /\ UNCHANGED artifacts
    <3>1. objects = {} /\ objects' = {}
      BY <2>3 DEF CountsInv, TypeOK, artifacts
    <3>2. One(ref \in objects) = 0 /\ Cardinality(objects) = 0 /\ Cardinality(objects') = 0
      BY <3>1, FS_EmptySet DEF One
    <3> HIDE DEF b
    <3> QED
      BY <3>2, <1>2
  <2> QED
    BY <1>1, <2>2, <2>3
<1>6. held # q => held' = held /\ lazy' = lazy
  BY <1>1 DEF AliyunForget, AwsForget, transport
<1> QED
  BY <1>2, <1>3, <1>4, <1>5, <1>6

\* The adapter's deprovision() of the runtime in the ledger keeps what is left accounted
\* for, and with it the artifact.
LEMMA AdapterStep ==
    ASSUME TypeOK, TypeOK', CountsInv, NEW r \in booked, AdapterDeprovision(r),
           Cardinality(alive \ booked)
             <= failures + overlaps + (IF MustStop /\ held \in alive \ booked THEN 1 ELSE 0),
           Cardinality(objects) <= failures + overlaps + One(ref \in objects)
    PROVE  Accounted'
<1> DEFINE h == IF MustStop /\ held \in alive \ booked THEN 1 ELSE 0
           m == IF (MustStop /\ held \in alive \ booked)' THEN 1 ELSE 0
           n == IF (MustStop /\ ref \in objects)' THEN 1 ELSE 0
<1>1. /\ booked = {r} /\ r \in Runtimes /\ made \in Nat /\ alive \in SUBSET (1 .. made)
      /\ failures \in Nat /\ overlaps \in Nat /\ failures' \in Nat /\ overlaps' \in Nat
      /\ objects \in SUBSET (1 .. puts) /\ puts \in Nat
  <2>1. booked = {r}
    BY DEF CountsInv
  <2> QED
    BY <2>1, BoundsAssumption DEF TypeOK, CountsInv
<1>2. /\ h \in {0, 1} /\ m \in {0, 1} /\ n \in {0, 1} /\ One(ref \in objects) \in {0, 1}
  BY DEF One
<1>3. /\ IsFiniteSet(alive) /\ Cardinality(alive) \in Nat /\ Cardinality(objects) \in Nat
      /\ Cardinality(alive \ {r}) = Cardinality(alive) - One(r \in alive)
      /\ Cardinality(alive \ {r}) \in Nat
  <2>1. IsFiniteSet(alive) /\ Cardinality(alive) \in Nat /\ Cardinality(objects) \in Nat
    BY <1>1, FewIn
  <2>2. Cardinality(alive \ {r}) \in Nat
    BY <2>1, FS_RemoveElement, FS_CardinalityType
  <2>3. CASE r \in alive
    BY <2>1, <2>2, <2>3, FS_RemoveElement DEF One
  <2>4. CASE r \notin alive
    <3>1. alive \ {r} = alive
      BY <2>4
    <3> QED
      BY <2>1, <2>4, <3>1 DEF One
  <2> QED
    BY <2>3, <2>4
<1>4. CASE Deprovision(r) /\ booked' = booked \ {r}
  <2>1. booked' = {}
    BY <1>1, <1>4
  <2>2. /\ Cardinality(alive' \ {})
             <= Cardinality(alive \ {}) - One(r \in alive \ {}) + (failures' - failures)
        /\ Cardinality(objects')
             <= Cardinality(objects) - One(ref \in objects) + (failures' - failures)
        /\ alive' \in {alive \ {r}, alive} /\ (held # r => held' = held /\ lazy' = lazy)
        /\ overlaps' = overlaps
    BY <1>1, <1>4, Destroyed
  <2>3. alive' \ {} = alive' /\ alive \ {} = alive /\ alive' \ booked' = alive'
    BY <2>1
  <2>4. h <= m
    BY <2>1, <2>2, <1>1 DEF MustStop
  <2>5. IsFiniteSet(alive') /\ Cardinality(alive') \in Nat /\ Cardinality(objects') \in Nat
    <3>1. IsFiniteSet(alive')
      BY <1>3, <2>2, FS_RemoveElement
    <3>2. IsFiniteSet(objects')
      <4>1. objects' \subseteq 1 .. puts' /\ puts' = puts
        BY <1>1, <1>4 DEF TypeOK, Deprovision, AliyunDeprovision, AwsDeprovision,
                          CleanupArtifact, artifacts
      <4> QED
        BY <4>1, <1>1, FewIn
    <3> QED
      BY <3>1, <3>2, FS_CardinalityType
  <2>6. Cardinality(alive \ {r}) <= failures + overlaps + h
    BY <1>1
  <2>7. /\ Cardinality(alive') <= failures' + overlaps' + m
        /\ Cardinality(objects') <= failures' + overlaps' + n
    <3> HIDE DEF h, m, n
    <3>1. Cardinality(alive') <= Cardinality(alive) - One(r \in alive) + (failures' - failures)
      BY <2>2, <2>3
    <3> QED
      BY <3>1, <2>2, <2>4, <2>5, <2>6, <1>1, <1>2, <1>3
  <2> QED
    BY <2>3, <2>7 DEF Accounted
<1>5. CASE DeprovisionRaises /\ UNCHANGED booked
  <2>1. /\ failures' = failures + 1 /\ overlaps' = overlaps
        /\ UNCHANGED <<alive, held, url, lazy, objects, ref, booked>>
    BY <1>5 DEF DeprovisionRaises, Failure, transport, artifacts
  <2>2. m = h
    BY <2>1 DEF MustStop
  <2>3. /\ Cardinality(alive \ booked) <= failures + overlaps + h
        /\ Cardinality(alive \ booked) \in Nat
    BY <1>1, <1>3
  <2>4. /\ Cardinality(alive' \ booked') <= failures' + overlaps' + m
        /\ Cardinality(objects') <= failures' + overlaps' + n
    <3>1. alive' \ booked' = alive \ booked /\ objects' = objects
      BY <2>1
    <3> HIDE DEF h, m, n
    <3> QED
      BY <3>1, <2>1, <2>2, <2>3, <1>1, <1>2, <1>3
  <2> QED
    BY <2>4 DEF Accounted
<1> QED
  BY <1>4, <1>5 DEF AdapterDeprovision

\* More failures leave no less room.
LEMMA MoreRoom == \A m, f, g, o \in Nat : m <= 1 + f + o /\ f <= g => m <= 1 + g + o
  OBVIOUS

\* What the steps after the last call keep of the rest of the invariant.
LEMMA RestStep ==
    ASSUME RuntimesInv, Quiet, phase' \in {"closed", "reconciled", "stopped"},
           UNCHANGED <<cloud, made, at, own>>, alive' \subseteq alive, booked' \subseteq booked,
           puts' = puts, failures' \in failures .. MaxFailures, overlaps' = overlaps
    PROVE  CountsInv' /\ OpenInv' /\ PhaseInv'
<1>1. TypeOK /\ CountsInv
  BY DEF RuntimesInv
<1>2. CountsInv'
  <2>1. /\ made \in Nat /\ failures \in Nat /\ overlaps \in Nat /\ MaxFailures \in Nat
        /\ failures' \in Nat /\ failures <= failures' /\ overlaps' \in Nat
        /\ overlaps' = overlaps
    BY <1>1, BoundsAssumption DEF TypeOK
  <2>2. made <= 1 + failures' + overlaps'
    <3>1. made <= 1 + failures + overlaps
      BY <1>1 DEF CountsInv
    <3> QED
      BY <2>1, <3>1, MoreRoom
  <2>3. alive' \subseteq 1 .. made'
    BY <1>1 DEF CountsInv
  <2> QED
    BY <1>1, <2>2, <2>3 DEF CountsInv
<1>3. OpenInv' /\ PhaseInv'
  BY DEF OpenInv, PhaseInv, Quiet
<1> QED
  BY <1>2, <1>3

\* When the calls are over: what nobody paid for is in the ledger, or is what stop()
\* takes down.
LEMMA OpenLeaves ==
    ASSUME RuntimesInv, phase = "open", Quiet
    PROVE  /\ booked = {} => Accounted
           /\ booked # {} => /\ Cardinality(alive \ booked) <= failures + overlaps
                             /\ Cardinality(objects) <= failures + overlaps + One(ref \in objects)
<1> USE DEF None
<1>0. TypeOK /\ CountsInv /\ OpenInv /\ PhaseInv
  BY DEF RuntimesInv
<1>1. /\ made \in Nat /\ puts \in Nat /\ failures \in Nat /\ overlaps \in Nat
      /\ alive \in SUBSET (1 .. made) /\ objects = 1 .. puts /\ ref = puts
  BY <1>0, BoundsAssumption DEF TypeOK, CountsInv, OpenInv
<1>2. /\ made <= Room /\ puts <= Room
  <2>1. Underway = {} /\ Uploading = {}
    BY DEF Quiet, Underway, Uploading
  <2>2. Cardinality(Underway) = 0 /\ Cardinality(Uploading) = 0
    BY <2>1, FS_EmptySet
  <2> QED
    BY <1>0, <1>1, <2>2 DEF OpenInv
<1>3. Room = failures + overlaps + (IF url # None THEN 1 ELSE 0)
  <2>1. Active = {}
    BY DEF Quiet, Active
  <2> QED
    BY <2>1 DEF Room
<1>4. /\ IsFiniteSet(alive) /\ Cardinality(alive) \in Nat /\ Cardinality(alive) <= made
      /\ Cardinality(objects) = puts
      /\ \A x \in alive : Cardinality(alive \ {x}) = Cardinality(alive) - 1
  <2>1. Cardinality(1 .. puts) = puts
    BY <1>1, FS_Interval
  <2> QED
    BY <2>1, <1>1, FewIn
<1>5. CASE booked = {}
  <2>1. alive \ booked = alive
    BY <1>5
  <2>2. CASE url = None
    <3>1. made <= failures + overlaps /\ puts <= failures + overlaps
      BY <1>1, <1>2, <1>3, <2>2
    <3> DEFINE m == IF MustStop /\ held \in alive \ booked THEN 1 ELSE 0
               n == IF MustStop /\ ref \in objects THEN 1 ELSE 0
    <3>2. m \in {0, 1} /\ n \in {0, 1}
      OBVIOUS
    <3>3. /\ Cardinality(alive \ booked) <= failures + overlaps + m
          /\ Cardinality(objects) <= failures + overlaps + n
      <4> HIDE DEF m, n
      <4> QED
        BY <1>1, <1>4, <2>1, <3>1, <3>2
    <3> QED
      BY <1>5, <3>3 DEF Accounted
  <2>3. CASE url # None
    <3>1. Returning = {}
      BY DEF Quiet, Returning
    <3>2. lazy /\ held # None /\ held \in alive
      BY <1>0, <1>5, <2>3, <3>1 DEF PhaseInv, OpenInv
    <3>3. puts # 0 => ref \in objects
      BY <1>1
    <3>4. MustStop
      BY <3>2 DEF MustStop
    <3> QED
      BY <1>1, <1>2, <1>3, <1>4, <1>5, <2>1, <2>3, <3>2, <3>3, <3>4 DEF Accounted
  <2> QED
    BY <2>2, <2>3
<1>6. CASE booked # {}
  <2>1. PICK b \in booked : booked = {b}
    BY <1>0, <1>6 DEF CountsInv
  <2>2. b \in alive
    <3>1. mode = "explicit"
      BY <1>0, <1>6 DEF OpenInv, TypeOK
    <3> QED
      BY <1>0, <2>1, <3>1 DEF PhaseInv
  <2>3. Cardinality(alive \ booked) = Cardinality(alive) - 1
    BY <1>4, <2>1, <2>2
  <2>4. made <= failures + overlaps + 1 /\ puts <= failures + overlaps + 1
    BY <1>1, <1>2, <1>3
  <2>5. Cardinality(alive \ booked) <= failures + overlaps
    BY <1>1, <1>4, <2>3, <2>4
  <2>6. Cardinality(objects) <= failures + overlaps + One(ref \in objects)
    <3>1. CASE puts = 0
      BY <1>1, <1>4, <3>1 DEF One
    <3>2. CASE puts # 0
      <4>1. ref \in objects
        BY <1>1, <3>2
      <4> QED
        BY <1>1, <1>4, <2>4, <4>1 DEF One
    <3> QED
      BY <3>1, <3>2
  <2> QED
    BY <1>6, <2>5, <2>6
<1> QED
  BY <1>5, <1>6

\* close() and the reconcile.
LEMMA CloseStep ==
    ASSUME RuntimesInv, TypeOK', Close \/ Reconcile
    PROVE  RuntimesInv'
<1>0. /\ TypeOK /\ CountsInv /\ PhaseInv /\ EndInv
      /\ phase \in {"open", "closed"} /\ phase' \in {"closed", "reconciled"}
      /\ UNCHANGED <<cloud, mode, named, made, at, own>>
  BY DEF RuntimesInv, Close, Reconcile
<1>1. Quiet
  BY <1>0 DEF Close, Reconcile, PhaseInv
<1>2. /\ phase = "closed" => Accounted
      /\ phase = "open" /\ booked = {} => Accounted
      /\ phase = "open" /\ booked # {} =>
            /\ Cardinality(alive \ booked) <= failures + overlaps
            /\ Cardinality(objects) <= failures + overlaps + One(ref \in objects)
  BY <1>0, <1>1, OpenLeaves DEF EndInv
<1>3. CASE booked = {}
  <2>1. UNCHANGED <<alive, held, url, lazy, objects, ref, puts, booked, failures, overlaps>>
    BY <1>3 DEF Close, Reconcile, NothingToDo, transport, artifacts, counts
  <2>2. Accounted'
    <3>1. Accounted
      BY <1>0, <1>2, <1>3
    <3> QED
      BY <2>1, <3>1 DEF Accounted, MustStop
  <2>3. failures' \in failures .. MaxFailures
    BY <1>0, <2>1, BoundsAssumption DEF TypeOK
  <2>4. CountsInv' /\ OpenInv' /\ PhaseInv'
    BY <1>0, <1>1, <2>1, <2>3, RestStep
  <2> QED
    BY <1>0, <2>2, <2>4 DEF RuntimesInv, EndInv, LeaksAreCaused
<1>4. CASE booked # {}
  <2>1. PICK r \in booked : AdapterDeprovision(r)
    BY <1>4 DEF Close, Reconcile
  <2>2. /\ Cardinality(alive \ booked)
             <= failures + overlaps + (IF MustStop /\ held \in alive \ booked THEN 1 ELSE 0)
        /\ Cardinality(objects) <= failures + overlaps + One(ref \in objects)
    <3>1. /\ made \in Nat /\ puts \in Nat /\ failures \in Nat /\ overlaps \in Nat
          /\ alive \in SUBSET (1 .. made) /\ objects \in SUBSET (1 .. puts)
      BY <1>0, BoundsAssumption DEF TypeOK, CountsInv
    <3>2. Cardinality(alive \ booked) \in Nat /\ Cardinality(objects) \in Nat
      BY <3>1, FewIn
    <3>3. CASE phase = "closed"
      BY <1>2, <3>1, <3>2, <3>3 DEF Accounted, One
    <3>4. CASE phase = "open"
      <4>1. /\ Cardinality(alive \ booked) <= failures + overlaps
            /\ Cardinality(objects) <= failures + overlaps + One(ref \in objects)
        BY <1>2, <1>4, <3>4
      <4> QED
        BY <3>1, <3>2, <4>1
    <3> QED
      BY <1>0, <3>3, <3>4
  <2>3. Accounted'
    BY <1>0, <2>1, <2>2, AdapterStep
  <2>4. /\ alive' \subseteq alive /\ puts' = puts
        /\ failures' \in failures .. MaxFailures /\ overlaps' = overlaps
    <3>1. r \in 0 .. MaxRuntimes
      BY <1>0, BoundsAssumption DEF TypeOK, Runtimes
    <3>2. Deprovision(r) \/ DeprovisionRaises
      BY <2>1 DEF AdapterDeprovision
    <3> QED
      BY <1>0, <3>1, <3>2, DeprovisionType
  <2>5. booked' \subseteq booked
    BY <2>1 DEF AdapterDeprovision
  <2>6. CountsInv' /\ OpenInv' /\ PhaseInv'
    BY <1>0, <1>1, <2>4, <2>5, RestStep
  <2> QED
    BY <1>0, <2>3, <2>6 DEF RuntimesInv, EndInv, LeaksAreCaused
<1> QED
  BY <1>3, <1>4

\* stop().
LEMMA TeardownStep ==
    ASSUME RuntimesInv, TypeOK', Teardown
    PROVE  RuntimesInv'
<1>0. /\ TypeOK /\ CountsInv /\ PhaseInv /\ EndInv
      /\ phase = "reconciled" /\ phase' = "stopped"
      /\ UNCHANGED <<cloud, mode, named, made, booked, at, own, reported>>
  BY DEF RuntimesInv, Teardown
<1>1. Quiet /\ Accounted
  BY <1>0 DEF PhaseInv, EndInv
<1>2. Deprovision(held) \/ AliyunStop \/ UNCHANGED <<alive, transport, artifacts, counts>>
  BY DEF Teardown, AwsStop
<1>3. /\ alive' \subseteq alive /\ puts' = puts
      /\ failures' \in failures .. MaxFailures /\ overlaps' = overlaps
  <2>1. held \in 0 .. MaxRuntimes
    BY <1>0 DEF TypeOK
  <2> QED
    BY <1>0, <1>2, <2>1, DeprovisionType
<1>4. CountsInv' /\ OpenInv' /\ PhaseInv'
  BY <1>0, <1>1, <1>3, RestStep
<1>5. /\ failures \in Nat /\ overlaps \in Nat /\ failures' \in Nat
      /\ Cardinality(alive \ booked) \in Nat /\ Cardinality(objects) \in Nat
      /\ Cardinality(alive' \ booked) \in Nat /\ Cardinality(objects') \in Nat
  <2>1. /\ made \in Nat /\ puts \in Nat /\ alive \in SUBSET (1 .. made)
        /\ objects \in SUBSET (1 .. puts) /\ objects' \in SUBSET (1 .. puts)
        /\ failures \in Nat /\ overlaps \in Nat /\ failures' \in Nat
    BY <1>0, <1>3, BoundsAssumption DEF TypeOK, CountsInv
  <2>2. alive \ booked \in SUBSET (1 .. made) /\ alive' \ booked \in SUBSET (1 .. made)
    BY <2>1, <1>3
  <2> QED
    BY <2>1, <2>2, FewIn
<1>6. CASE MustStop /\ Deprovision(held)
  <2>1. held \in Runtimes
    BY <1>0, <1>6, BoundsAssumption DEF TypeOK, MustStop, None, Runtimes
  <2>2. /\ Cardinality(alive' \ booked)
             <= Cardinality(alive \ booked) - One(held \in alive \ booked)
                + (failures' - failures)
        /\ Cardinality(objects')
             <= Cardinality(objects) - One(ref \in objects) + (failures' - failures)
    BY <1>0, <1>6, <2>1, Destroyed
  <2>3. /\ Cardinality(alive \ booked) <= failures + overlaps + One(held \in alive \ booked)
        /\ Cardinality(objects) <= failures + overlaps + One(ref \in objects)
        /\ One(held \in alive \ booked) \in {0, 1} /\ One(ref \in objects) \in {0, 1}
    BY <1>1, <1>6 DEF Accounted, One
  <2>4. /\ Cardinality(alive' \ booked) <= failures' + overlaps
        /\ Cardinality(objects') <= failures' + overlaps
    BY <1>5, <2>2, <2>3
  <2>5. LeaksAreCaused'
    BY <1>0, <1>3, <2>4 DEF LeaksAreCaused
  <2> QED
    BY <1>0, <1>4, <2>5 DEF RuntimesInv, EndInv
<1>7. CASE MustStop /\ ~Deprovision(held)
  <2>1. failures' = failures + 1 /\ UNCHANGED <<alive, objects>>
    BY <1>7 DEF Teardown, AliyunStop, AwsStop, Failure, artifacts
  <2>2. /\ Cardinality(alive \ booked) <= failures + overlaps + 1
        /\ Cardinality(objects) <= failures + overlaps + 1
    BY <1>1, <1>5 DEF Accounted
  <2>3. LeaksAreCaused'
    BY <1>0, <1>3, <1>5, <2>1, <2>2 DEF LeaksAreCaused
  <2> QED
    BY <1>0, <1>4, <2>3 DEF RuntimesInv, EndInv
<1>8. CASE ~MustStop
  <2>1. UNCHANGED <<alive, objects, failures, overlaps>>
    BY <1>8 DEF Teardown, artifacts, counts
  <2>2. /\ Cardinality(alive \ booked) <= failures + overlaps
        /\ Cardinality(objects) <= failures + overlaps
    BY <1>1, <1>5, <1>8 DEF Accounted
  <2>3. LeaksAreCaused'
    BY <1>0, <2>1, <2>2 DEF LeaksAreCaused
  <2> QED
    BY <1>0, <1>4, <2>3 DEF RuntimesInv, EndInv
<1> QED
  BY <1>6, <1>7, <1>8

\* The operator's sweep.
LEMMA SweepStep ==
    ASSUME RuntimesInv, TypeOK', Sweep
    PROVE  RuntimesInv'
<1>0. /\ TypeOK /\ CountsInv /\ PhaseInv /\ LeaksAreCaused /\ phase = "stopped"
      /\ UNCHANGED <<cloud, mode, named, phase, made, held, url, lazy, objects, ref, puts, booked,
                     at, own, failures, overlaps, reported>>
      /\ alive' \subseteq alive
  BY DEF RuntimesInv, Sweep, transport, artifacts, counts
<1>1. Quiet
  BY <1>0 DEF PhaseInv
<1>2. failures' \in failures .. MaxFailures
  BY <1>0, BoundsAssumption DEF TypeOK
<1>3. CountsInv' /\ OpenInv' /\ PhaseInv'
  BY <1>0, <1>1, <1>2, RestStep
<1>4. LeaksAreCaused'
  <2> DEFINE S == alive \ booked
             T == alive' \ booked
  <2>1. IsFiniteSet(S) /\ T \subseteq S
    <3>1. made \in Nat /\ alive \in SUBSET (1 .. made)
      BY <1>0, BoundsAssumption DEF TypeOK, CountsInv
    <3>2. IsFiniteSet(alive)
      BY <3>1, FewIn
    <3> QED
      BY <3>2, <1>0, FS_Subset
  <2>2. /\ Cardinality(T) <= Cardinality(S) /\ Cardinality(T) \in Nat /\ Cardinality(S) \in Nat
    <3> HIDE DEF S, T
    <3> QED
      BY <2>1, FS_Subset, FS_CardinalityType
  <2>3. Cardinality(S) <= failures + overlaps /\ Cardinality(objects) <= failures + overlaps
    BY <1>0 DEF LeaksAreCaused
  <2>4. failures \in Nat /\ overlaps \in Nat
    BY <1>0 DEF TypeOK
  <2>5. Cardinality(T) <= failures + overlaps
    <3> HIDE DEF S, T
    <3> QED
      BY <2>2, <2>3, <2>4
  <2>6. alive' \ booked' = T
    BY <1>0
  <2> HIDE DEF S, T
  <2> QED
    BY <1>0, <2>3, <2>5, <2>6 DEF LeaksAreCaused
<1> QED
  BY <1>0, <1>3, <1>4 DEF RuntimesInv, EndInv

\* RuntimesInv is inductive.
LEMMA RuntimesStep == RuntimesInv /\ [RuntimesNext]_runtimeVars => RuntimesInv'
<1> SUFFICES ASSUME RuntimesInv, [RuntimesNext]_runtimeVars PROVE RuntimesInv'
  OBVIOUS
<1>1. CASE RuntimesNext
  <2>0. TypeOK'
    BY <1>1, RuntimesTypeStep DEF RuntimesInv
  <2>1. ASSUME NEW t \in Threads, Prepare(t) \/ Call(t) PROVE RuntimesInv'
    <3>1. /\ at[t] = "idle" /\ Begin(t) /\ phase \in {"prepare", "open"}
          /\ phase = "prepare" => Quiet
      BY <2>1 DEF Prepare, Call, Quiet
    <3>2. url = None
      <4>1. PhaseInv /\ OpenInv
        BY DEF RuntimesInv
      <4>2. CASE Prepare(t)
        <5>1. Returning = {}
          BY <4>2 DEF Prepare, Quiet, Returning
        <5> QED
          BY <4>1, <4>2, <5>1 DEF Prepare, PhaseInv
      <4>3. CASE Call(t)
        BY <4>1, <4>3 DEF Call, OpenInv, AliyunInvokeLacks, AliyunProbeLacks, AwsResolveLacks,
                          AwsProbeLacks
      <4> QED
        BY <2>1, <4>2, <4>3
    <3> QED
      BY <2>0, <2>1, <3>1, <3>2, BeginStep
  <2>2. ASSUME NEW t \in Threads,
               \/ UploadArtifact(t) \/ CreateRuntime(t) \/ PollReady(t) \/ PublishVersion(t)
               \/ CreateEndpoint(t) \/ ProvisionReturns(t)
        PROVE  RuntimesInv'
    BY <2>0, <2>2, UploadStep, CreateStep, PollStep, EndpointStep, ReturnStep
  <2>3. CASE Close \/ Reconcile
    BY <2>0, <2>3, CloseStep
  <2>4. CASE Teardown
    BY <2>0, <2>4, TeardownStep
  <2>5. CASE Sweep
    BY <2>0, <2>5, SweepStep
  <2> QED
    BY <1>1, <2>1, <2>2, <2>3, <2>4, <2>5 DEF RuntimesNext, Provisioning
<1>2. CASE UNCHANGED runtimeVars
  <2>1. UNCHANGED <<cloud, mode, named, phase, alive, made, held, url, lazy, objects, ref, puts,
                    booked, at, own, failures, overlaps, reported>>
    BY <1>2 DEF runtimeVars, transport, artifacts, counts
  <2>2. TypeOK' /\ CountsInv' /\ PhaseInv' /\ LeaksAreCaused'
    BY <2>1 DEF RuntimesInv, TypeOK, CountsInv, PhaseInv, LeaksAreCaused, Returning, Quiet
  <2>3. Room' = Room /\ Underway' = Underway /\ Uploading' = Uploading /\ Created' = Created
    BY <2>1 DEF Room, Underway, Uploading, Created, Active
  <2>4. OpenInv'
    BY <2>1, <2>3 DEF RuntimesInv, OpenInv
  <2>5. EndInv'
    BY <2>1 DEF RuntimesInv, EndInv, Accounted, MustStop
  <2> QED
    BY <2>2, <2>4, <2>5 DEF RuntimesInv
<1> QED
  BY <1>1, <1>2

\* The calls that provision, the close, the reconcile, stop() and the sweep keep the
\* strengthened invariant, whichever provider calls fail.
THEOREM RuntimesInvariant == RuntimesSpec => []RuntimesInv
  BY RuntimesStart, RuntimesStep, PTL DEF RuntimesSpec

\* WasteIsCaused: every runtime beyond the first, every runtime that outlives the run
\* outside the ledger, and every artifact left, was paid for by one failed provider call
\* or one provision begun during another, whatever number of threads and of calls.
THEOREM NothingIsWasted == RuntimesSpec => []WasteIsCaused
<1>1. RuntimesInv => WasteIsCaused
  BY DEF RuntimesInv, CountsInv, WasteIsCaused, CreatesAreCaused
<1> QED
  BY <1>1, RuntimesInvariant, PTL
=============================================================================
