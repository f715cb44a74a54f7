------------------------- MODULE RunLifecycleProofs -------------------------
(***************************************************************************)
(* Proofs about one benchmark run, for any set of runtimes and any number  *)
(* of signals.  The inductive invariant Inv of RunLifecycle is preserved   *)
(* part by part: one lemma per part, one step per group of actions, and    *)
(* one per action where the group's actions differ in why they preserve    *)
(* it.  The theorems at the end read the properties of the runs off Inv.   *)
(***************************************************************************)
EXTENDS RunLifecycle, TLAPS

----------------------------------------------------------------------------
(* What the operators shared by the actions do.                            *)

\* Every exception handler of the window leaves with the deadline disarmed and the calls
\* that were under way cut.
LEMMA FailEffect ==
    ASSUME NEW k, NEW evidence, Fail(k, evidence)
    PROVE  /\ alarm' = FALSE /\ hung' = FALSE /\ fate' = Orphaned /\ inflight' = "none"
           /\ UNCHANGED <<req, booked, handle, lazy, reclaimed, residual, displaced, out>>
           /\ todo' = booked /\ pc' = AfterWindow
BY Zenon DEF Fail

\* What is under way, and what has been created, depends on the fates alone.
LEMMA FateFrame ==
    ASSUME UNCHANGED fate
    PROVE  UNCHANGED <<Calls, NoPool, Created, InCloud, Spent>>
BY DEF Calls, NoPool, Created, InCloud, Spent

\* A provision disturbs nothing but the cloud.
LEMMA ProvisionEffect ==
    ASSUME Provision
    PROVE  /\ pc = "execute" /\ UNCHANGED <<control, watch, out>>
           /\ UNCHANGED <<todo, reclaimed, residual>>
BY DEF Provision, BeginProvision, CreateRuntime, CreateRefused, CreateReturns, CreateFails,
       Provisioning

\* What an exception does to the calls it cuts: none is under way any more, and nothing
\* is created or deleted by it.
LEMMA CutEffect ==
    ASSUME TypeOK, fate' = Orphaned
    PROVE  /\ fate' \in [Runtimes -> Fates]
           /\ \A r \in Runtimes : \/ fate'[r] = fate[r] /\ fate[r] \notin {"wanted", "creating"}
                                  \/ fate[r] = "creating" /\ fate'[r] = "aborted"
                                  \/ fate[r] = "wanted" /\ fate'[r] = "refused"
           /\ Calls' = {} /\ UNCHANGED <<Created, InCloud, Spent>>
<1>1. \A r \in Runtimes : fate'[r] = Cut(fate[r])
  BY DEF Orphaned
<1>2. fate' \in [Runtimes -> Fates]
  BY DEF Orphaned, Cut, TypeOK, CloudOK, Fates
<1>3. \A r \in Runtimes : \/ fate'[r] = fate[r] /\ fate[r] \notin {"wanted", "creating"}
                          \/ fate[r] = "creating" /\ fate'[r] = "aborted"
                          \/ fate[r] = "wanted" /\ fate'[r] = "refused"
  BY <1>1 DEF Cut, TypeOK, CloudOK, Fates
<1>4. Calls' = {}
  BY <1>3 DEF Calls
<1>5. Created' = Created
  BY <1>3 DEF Created
<1>6. InCloud' = InCloud
  BY <1>3 DEF InCloud, Created
<1> QED
  BY <1>2, <1>3, <1>4, <1>5, <1>6 DEF Spent

\* A provision that is over leaves the others under way, and the last one ends the burst.
LEMMA ReturnedEffect ==
    ASSUME TypeOK, CallInv, NEW r \in Runtimes, fate[r] \in {"wanted", "creating"},
           NEW f \in {"refused", "aborted", "live"}, Returned(r, f)
    PROVE  /\ fate' \in [Runtimes -> Fates] /\ fate'[r] = f
           /\ \A q \in Runtimes : q # r => fate'[q] = fate[q]
           /\ Calls' = Calls \ {r} /\ (inflight' = "none" <=> Calls' = {})
           /\ inflight # "none" /\ inflight' \in {inflight, "none"}
<1>1. /\ fate' \in [Runtimes -> Fates] /\ fate'[r] = f
      /\ \A q \in Runtimes : q # r => fate'[q] = fate[q]
  BY DEF Returned, TypeOK, CloudOK, Fates
<1>2. Calls' = Calls \ {r} /\ r \in Calls
  BY <1>1 DEF Calls
<1> QED
  BY <1>1, <1>2 DEF Returned, CallInv

\* transport.deprovision takes one runtime out of the run's hands and no other.
LEMMA DestroyedEffect ==
    ASSUME TypeOK, NEW r \in Runtimes, Destroyed(r)
    PROVE  /\ fate' \in [Runtimes -> Fates]
           /\ fate'[r] \in {"deleted", "lingering"}
           /\ \A q \in Runtimes : q # r => fate'[q] = fate[q]
           /\ handle' \in {handle, NoRuntime}
           /\ lazy' \in BOOLEAN /\ (lazy' => lazy /\ handle' = handle)
           /\ handle # r => UNCHANGED <<handle, lazy>>
BY DEF TypeOK, CloudOK, Fates, Destroyed

\* Stopping a transport ends the runtime it created by itself, if only by forgetting it,
\* and touches no other.
LEMMA StopEffect ==
    ASSUME TypeOK, CallInv, StopTransport
    PROVE  /\ fate' \in [Runtimes -> Fates]
           /\ \A q \in Runtimes : \/ fate'[q] = fate[q]
                                  \/ q = handle /\ fate'[q] \in {"deleted", "lingering", "stranded"}
           /\ lazy => fate'[handle] # "live"
           /\ handle' \in {handle, NoRuntime} /\ lazy' = FALSE
<1>1. CASE lazy /\ handle # NoRuntime /\ Destroyed(handle)
  <2>1. handle \in Runtimes
    BY <1>1 DEF TypeOK, CloudOK
  <2>2. lazy' = FALSE
    BY <1>1, Zenon DEF Destroyed
  <2> QED
    BY <1>1, <2>1, <2>2, DestroyedEffect
<1>2. CASE /\ lazy /\ handle # NoRuntime
           /\ fate' = [fate EXCEPT ![handle] = "stranded"]
           /\ handle' = NoRuntime /\ lazy' = FALSE
  <2>1. handle \in Runtimes
    BY <1>2 DEF TypeOK, CloudOK
  <2>2. /\ fate' \in [Runtimes -> Fates] /\ fate'[handle] = "stranded"
        /\ \A q \in Runtimes : q # handle => fate'[q] = fate[q]
    BY <1>2, <2>1 DEF TypeOK, CloudOK, Fates
  <2> QED
    BY <1>2, <2>1, <2>2
<1>3. CASE ~lazy /\ UNCHANGED <<fate, handle, lazy>>
  BY <1>3 DEF TypeOK, CloudOK
<1> QED
  BY <1>1, <1>2, <1>3 DEF StopTransport

----------------------------------------------------------------------------
(* The parts of the invariant, one lemma each.                             *)

\* The control of execute() keeps its shape: stage outcomes, errors and findings are only
\* ever the ones a reader of the record knows.
LEMMA ControlStep ==
    ASSUME TypeOK, [Next]_vars
    PROVE  ControlOK'
<1> USE DEF TypeOK, ControlOK, Request, Points, Gates, TryPoints, Stages, Outcomes, WatchOK,
    CloudOK, Fates, OutOK, Statuses
<1>1. CASE Gate
  <2>1. CASE ResolveRefused
    BY <2>1 DEF ResolveRefused, watch, cloud
  <2>2. CASE Resolved
    BY <2>2 DEF Resolved, Mark, Proceed, watch, cloud, out
  <2>3. CASE PrepareFails
    BY <2>3 DEF PrepareFails, RefuseWithError, Mark, RecordAs, watch, cloud
  <2>4. CASE Prepared
    BY <2>4 DEF Prepared, Proceed, watch, cloud, out
  <2>5. CASE PreflightFails
    BY <2>5 DEF PreflightFails, RefuseWithError, Mark, RecordAs, watch, cloud
  <2>6. CASE PreflightPasses
    BY <2>6 DEF PreflightPasses, Mark, Proceed, watch, cloud, out
  <2>7. CASE DescribeFails
    BY <2>7 DEF DescribeFails, RefuseWithError, Mark, RecordAs, watch, cloud
  <2>8. CASE Described
    BY <2>8 DEF Described, Mark, Proceed, watch, cloud, out
  <2>9. CASE LiveGateRefuses
    BY <2>9 DEF LiveGateRefuses, LiveBlocked, RefuseSetup, Mark, RecordAs, watch, cloud
  <2>10. CASE LiveGateOpens
    BY <2>10 DEF LiveGateOpens, LiveBlocked, Proceed, watch, cloud, out
  <2>11. CASE BudgetGateRefuses
    BY <2>11 DEF BudgetGateRefuses, BudgetBlocked, RefuseSetup, Mark, RecordAs, watch, cloud
  <2>12. CASE OpenWindow
    BY <2>12 DEF OpenWindow, BudgetBlocked, cloud, out
  <2> QED BY <1>1, <2>1, <2>2, <2>3, <2>4, <2>5, <2>6, <2>7, <2>8, <2>9, <2>10, <2>11, <2>12 DEF
      Gate
<1>2. CASE Window
  BY <1>2, ProvisionEffect DEF Window, Cancelled, CheckPoint, Fail, FailedStage, Mark,
      BundleAfter, AfterWindow, out, NotCancelled, cloud, CancelledInside, Setup, StageOk,
      watch, Execute, Seal, LeaveWindow, TaskFails, StageCrashes, control, TaskDeprovisions,
      Deprovisioned, Destroyed
<1>3. CASE Closing
  <2>1. CASE ReconcileOne
    BY <2>1 DEF ReconcileOne, Deprovisioned, Destroyed, control, watch, out
  <2>2. CASE Reconciled
    BY <2>2 DEF Reconciled, InCloud, StillThere, watch, out
  <2>3. CASE ReconcileFails
    BY <2>3 DEF ReconcileFails, watch, out
  <2>4. CASE Teardown
    BY <2>4 DEF Teardown, StopTransport, Destroyed, Mark, watch, out
  <2>5. CASE TeardownFails
    BY <2>5 DEF TeardownFails, Mark, watch, cloud, out
  <2>6. CASE CloseInterrupted
    BY <2>6 DEF CloseInterrupted, Mark, RecordAs, watch, cloud
  <2>7. CASE SkipScore
    BY <2>7 DEF SkipScore, Mark, RecordAs, StatusFor, InvalidStages, FatalStages, watch, cloud
  <2>8. CASE StartScore
    BY <2>8 DEF StartScore, watch, cloud, out
  <2>9. CASE Score
    BY <2>9 DEF Score, Mark, RecordAs, StatusFor, InvalidStages, FatalStages, watch, cloud
  <2>10. CASE ScoreFails
    BY <2>10 DEF ScoreFails, Mark, RecordAs, StatusFor, InvalidStages, FatalStages, watch, cloud
  <2>11. CASE Persist
    BY <2>11 DEF Persist, watch, cloud
  <2>12. CASE PersistRaises
    BY <2>12 DEF PersistRaises, watch, cloud
  <2>13. CASE FinishRow
    BY <2>13 DEF FinishRow, watch, cloud
  <2>14. CASE BookCost
    BY <2>14 DEF BookCost, watch, cloud
  <2> QED BY <1>3, <2>1, <2>2, <2>3, <2>4, <2>5, <2>6, <2>7, <2>8, <2>9, <2>10, <2>11, <2>12,
      <2>13, <2>14 DEF Closing
<1>4. CASE Environment
  BY <1>4 DEF Environment, Hang, control, cloud, out, DeadlineSwallowed, RequestCancel,
      SignalInWindow, Signalled, Fail, FailedStage, Mark, BundleAfter, AfterWindow,
      SignalElsewhere
<1>5. CASE Deadline
  <2>1. CASE DeadlineCuts
    BY <2>1 DEF DeadlineCuts, Fail, FailedStage, Mark, BundleAfter, AfterWindow, out
  <2>2. CASE DeadlineWaits
    BY <2>2 DEF DeadlineWaits, control, cloud, out
  <2> QED BY <1>5, <2>1, <2>2 DEF Deadline
<1>6. CASE UNCHANGED vars
  BY <1>6 DEF vars, control, watch, cloud, out
<1> QED BY <1>1, <1>2, <1>3, <1>4, <1>5, <1>6 DEF Next, Thread, Over

\* The deadline, the cancel marker and the signal count keep their shape: no handler of
\* the window leaves the alarm in between armed and disarmed.
LEMMA WatchStep ==
    ASSUME TypeOK, [Next]_vars
    PROVE  WatchOK'
<1> USE MaxSignalsAssumption
<1> USE DEF TypeOK, ControlOK, Request, Points, Gates, TryPoints, Stages, Outcomes, WatchOK,
    CloudOK, Fates, OutOK, Statuses
<1>1. CASE Gate
  BY <1>1 DEF Gate, ResolveRefused, watch, cloud, Resolved, Mark, Proceed, out, PrepareFails,
      RefuseWithError, RecordAs, Prepared, PreflightFails, PreflightPasses, DescribeFails,
      Described, LiveGateRefuses, LiveBlocked, RefuseSetup, LiveGateOpens, BudgetGateRefuses,
      BudgetBlocked, OpenWindow
<1>2. CASE Window
  <2>1. CASE Cancelled
    BY <2>1, FailEffect, Zenon DEF Cancelled
  <2>2. CASE NotCancelled
    BY <2>2 DEF NotCancelled, CheckPoint, cloud, out
  <2>3. CASE CancelledInside
    BY <2>3, FailEffect, Zenon DEF CancelledInside
  <2>4. CASE Setup
    BY <2>4 DEF Setup, StageOk, Mark, watch, cloud, out
  <2>5. CASE Execute
    BY <2>5 DEF Execute, StageOk, Mark, watch, cloud, out
  <2>6. CASE Seal
    BY <2>6 DEF Seal, StageOk, Mark, watch, cloud, out
  <2>7. CASE LeaveWindow
    BY <2>7, Zenon DEF LeaveWindow
  <2>8. CASE TaskFails
    BY <2>8, FailEffect, Zenon DEF TaskFails
  <2>9. CASE StageCrashes
    BY <2>9, FailEffect, Zenon DEF StageCrashes
  <2>10. CASE Provision
    BY <2>10, ProvisionEffect DEF control, watch, out
  <2>11. CASE TaskDeprovisions
    BY <2>11 DEF TaskDeprovisions, Deprovisioned, Destroyed, control, watch, out
  <2> QED BY <1>2, <2>1, <2>2, <2>3, <2>4, <2>5, <2>6, <2>7, <2>8, <2>9, <2>10, <2>11 DEF Window
<1>3. CASE Closing
  BY <1>3 DEF Closing, ReconcileOne, Deprovisioned, Destroyed, control, watch, out, Reconciled,
      InCloud, StillThere, ReconcileFails, Teardown, StopTransport, Mark, TeardownFails, cloud,
      CloseInterrupted, RecordAs, SkipScore, StatusFor, InvalidStages, FatalStages, StartScore,
      Score, ScoreFails, Persist, PersistRaises, FinishRow, BookCost
<1>4. CASE Environment
  <2>1. CASE Hang
    BY <2>1 DEF Hang, control, cloud, out
  <2>2. CASE DeadlineSwallowed
    BY <2>2, Zenon DEF DeadlineSwallowed
  <2>3. CASE RequestCancel
    BY <2>3 DEF RequestCancel, control, cloud, out
  <2>4. CASE SignalInWindow
    <3>1. signals' \in 0 .. MaxSignals
      BY <2>4 DEF SignalInWindow, Signalled
    <3> QED
      BY <2>4, <3>1, FailEffect, Zenon DEF SignalInWindow
  <2>5. CASE SignalElsewhere
    BY <2>5 DEF SignalElsewhere, Signalled, cloud
  <2> QED BY <1>4, <2>1, <2>2, <2>3, <2>4, <2>5 DEF Environment
<1>5. CASE Deadline
  <2>1. CASE DeadlineCuts
    BY <2>1, FailEffect, Zenon DEF DeadlineCuts
  <2>2. CASE DeadlineWaits
    BY <2>2 DEF DeadlineWaits, control, cloud, out
  <2> QED BY <1>5, <2>1, <2>2 DEF Deadline
<1>6. CASE UNCHANGED vars
  BY <1>6 DEF vars, control, watch, cloud, out
<1> QED BY <1>1, <1>2, <1>3, <1>4, <1>5, <1>6 DEF Next, Thread, Over

\* The ledger, the transport's handle and the reconciliation's lists only ever name
\* runtimes, and each runtime is at one stage of its life.
LEMMA CloudStep ==
    ASSUME TypeOK, CallInv, [Next]_vars
    PROVE  CloudOK'
<1> USE DEF TypeOK, ControlOK, Request, Points, Gates, TryPoints, Stages, Outcomes, WatchOK,
    CloudOK, Fates, OutOK, Statuses, CallInv
<1>1. CASE Gate
  BY <1>1 DEF Gate, ResolveRefused, watch, cloud, Resolved, Mark, Proceed, out, PrepareFails,
      RefuseWithError, RecordAs, Prepared, PreflightFails, PreflightPasses, DescribeFails,
      Described, LiveGateRefuses, LiveBlocked, RefuseSetup, LiveGateOpens, BudgetGateRefuses,
      BudgetBlocked, OpenWindow
<1>2. CASE Window
  <2>1. CASE Cancelled
    BY <2>1, FailEffect, CutEffect DEF Cancelled
  <2>2. CASE NotCancelled
    BY <2>2 DEF NotCancelled, CheckPoint, cloud, out
  <2>3. CASE CancelledInside
    BY <2>3, FailEffect, CutEffect DEF CancelledInside
  <2>4. CASE Setup
    BY <2>4 DEF Setup, StageOk, Mark, watch, cloud, out
  <2>5. CASE Execute
    BY <2>5 DEF Execute, StageOk, Mark, watch, cloud, out
  <2>6. CASE Seal
    BY <2>6 DEF Seal, StageOk, Mark, watch, cloud, out
  <2>7. CASE LeaveWindow
    BY <2>7 DEF LeaveWindow, AfterWindow, out
  <2>8. CASE TaskFails
    BY <2>8, FailEffect, CutEffect DEF TaskFails
  <2>9. CASE StageCrashes
    BY <2>9, FailEffect, CutEffect DEF StageCrashes
  <2>10. CASE Provision
    <3>1. CASE BeginProvision
      BY <3>1 DEF BeginProvision, Fates
    <3>2. CASE CreateRuntime
      BY <3>2 DEF CreateRuntime, Provisioning, Fates
    <3>3. CASE CreateRefused
      BY <3>3, ReturnedEffect DEF CreateRefused, Provisioning
    <3>4. CASE CreateReturns
      BY <3>4, ReturnedEffect DEF CreateReturns, Provisioning
    <3>5. CASE CreateFails
      BY <3>5, ReturnedEffect DEF CreateFails, Provisioning
    <3> QED BY <2>10, <3>1, <3>2, <3>3, <3>4, <3>5 DEF Provision
  <2>11. CASE TaskDeprovisions
    BY <2>11 DEF TaskDeprovisions, Deprovisioned, Destroyed, control, watch, out
  <2> QED BY <1>2, <2>1, <2>2, <2>3, <2>4, <2>5, <2>6, <2>7, <2>8, <2>9, <2>10, <2>11 DEF Window
<1>3. CASE Closing
  <2>1. CASE ReconcileOne
    <3>1. PICK r \in todo :
             /\ todo' = todo \ {r}
             /\ \/ Deprovisioned(r) /\ reclaimed' = reclaimed \union {r}
                \/ UNCHANGED <<fate, handle, lazy, booked, reclaimed>>
      BY <2>1 DEF ReconcileOne
    <3>2. UNCHANGED <<inflight, residual, displaced>>
      BY <2>1 DEF ReconcileOne
    <3>3. CASE Deprovisioned(r) /\ reclaimed' = reclaimed \union {r}
      BY <3>1, <3>2, <3>3, DestroyedEffect DEF Deprovisioned
    <3>4. CASE UNCHANGED <<fate, handle, lazy, booked, reclaimed>>
      BY <3>1, <3>2, <3>4
    <3> QED
      BY <3>1, <3>3, <3>4
  <2>2. CASE Reconciled
    BY <2>2 DEF Reconciled, InCloud, Created, StillThere, watch, out
  <2>3. CASE ReconcileFails
    BY <2>3 DEF ReconcileFails, watch, out
  <2>4. CASE Teardown
    BY <2>4, StopEffect DEF Teardown
  <2>5. CASE TeardownFails
    BY <2>5 DEF TeardownFails, Mark, watch, cloud, out
  <2>6. CASE CloseInterrupted
    BY <2>6 DEF CloseInterrupted, Mark, RecordAs, watch, cloud
  <2>7. CASE SkipScore
    BY <2>7 DEF SkipScore, Mark, RecordAs, StatusFor, InvalidStages, FatalStages, watch, cloud
  <2>8. CASE StartScore
    BY <2>8 DEF StartScore, watch, cloud, out
  <2>9. CASE Score
    BY <2>9 DEF Score, Mark, RecordAs, StatusFor, InvalidStages, FatalStages, watch, cloud
  <2>10. CASE ScoreFails
    BY <2>10 DEF ScoreFails, Mark, RecordAs, StatusFor, InvalidStages, FatalStages, watch, cloud
  <2>11. CASE Persist
    BY <2>11 DEF Persist, watch, cloud
  <2>12. CASE PersistRaises
    BY <2>12 DEF PersistRaises, watch, cloud
  <2>13. CASE FinishRow
    BY <2>13 DEF FinishRow, watch, cloud
  <2>14. CASE BookCost
    BY <2>14 DEF BookCost, watch, cloud
  <2> QED BY <1>3, <2>1, <2>2, <2>3, <2>4, <2>5, <2>6, <2>7, <2>8, <2>9, <2>10, <2>11, <2>12,
      <2>13, <2>14 DEF Closing
<1>4. CASE Environment
  <2>1. CASE Hang
    BY <2>1 DEF Hang, control, cloud, out
  <2>2. CASE DeadlineSwallowed
    BY <2>2, CutEffect DEF DeadlineSwallowed, control, out
  <2>3. CASE RequestCancel
    BY <2>3 DEF RequestCancel, control, cloud, out
  <2>4. CASE SignalInWindow
    BY <2>4, FailEffect, CutEffect DEF SignalInWindow
  <2>5. CASE SignalElsewhere
    BY <2>5 DEF SignalElsewhere, Signalled, cloud
  <2> QED BY <1>4, <2>1, <2>2, <2>3, <2>4, <2>5 DEF Environment
<1>5. CASE Deadline
  <2>1. CASE DeadlineCuts
    BY <2>1, FailEffect, CutEffect DEF DeadlineCuts
  <2>2. CASE DeadlineWaits
    BY <2>2 DEF DeadlineWaits, control, cloud, out
  <2> QED BY <1>5, <2>1, <2>2 DEF Deadline
<1>6. CASE UNCHANGED vars
  BY <1>6 DEF vars, control, watch, cloud, out
<1> QED BY <1>1, <1>2, <1>3, <1>4, <1>5, <1>6 DEF Next, Thread, Over

\* What the run leaves behind keeps its shape: the row repeats a record, and the store
\* persists a status or `failed`.
LEMMA OutStep ==
    ASSUME TypeOK, RecordInv, [Next]_vars
    PROVE  OutOK'
<1> USE DEF TypeOK, ControlOK, Request, Points, Gates, TryPoints, Stages, Outcomes, WatchOK,
    CloudOK, Fates, OutOK, Statuses, RecordInv
<1>1. CASE Gate
  BY <1>1 DEF Gate, ResolveRefused, watch, cloud, Resolved, Mark, Proceed, out, PrepareFails,
      RefuseWithError, RecordAs, Prepared, PreflightFails, PreflightPasses, DescribeFails,
      Described, LiveGateRefuses, LiveBlocked, RefuseSetup, LiveGateOpens, BudgetGateRefuses,
      BudgetBlocked, OpenWindow
<1>2. CASE Window
  BY <1>2, ProvisionEffect DEF Window, Cancelled, CheckPoint, Fail, FailedStage, Mark,
      BundleAfter, AfterWindow, out, NotCancelled, cloud, CancelledInside, Setup, StageOk,
      watch, Execute, Seal, LeaveWindow, TaskFails, StageCrashes, control, TaskDeprovisions,
      Deprovisioned, Destroyed
<1>3. CASE Closing
  <2>1. CASE ReconcileOne
    BY <2>1 DEF ReconcileOne, Deprovisioned, Destroyed, control, watch, out
  <2>2. CASE Reconciled
    BY <2>2 DEF Reconciled, InCloud, StillThere, watch, out
  <2>3. CASE ReconcileFails
    BY <2>3 DEF ReconcileFails, watch, out
  <2>4. CASE Teardown
    BY <2>4 DEF Teardown, StopTransport, Destroyed, Mark, watch, out
  <2>5. CASE TeardownFails
    BY <2>5 DEF TeardownFails, Mark, watch, cloud, out
  <2>6. CASE CloseInterrupted
    BY <2>6 DEF CloseInterrupted, Mark, RecordAs, watch, cloud
  <2>7. CASE SkipScore
    BY <2>7 DEF SkipScore, Mark, RecordAs, StatusFor, InvalidStages, FatalStages, watch, cloud
  <2>8. CASE StartScore
    BY <2>8 DEF StartScore, watch, cloud, out
  <2>9. CASE Score
    BY <2>9 DEF Score, Mark, RecordAs, StatusFor, InvalidStages, FatalStages, watch, cloud
  <2>10. CASE ScoreFails
    BY <2>10 DEF ScoreFails, Mark, RecordAs, StatusFor, InvalidStages, FatalStages, watch, cloud
  <2>11. CASE Persist
    BY <2>11 DEF Persist, watch, cloud
  <2>12. CASE PersistRaises
    BY <2>12 DEF PersistRaises, watch, cloud
  <2>13. CASE FinishRow
    BY <2>13 DEF FinishRow, watch, cloud
  <2>14. CASE BookCost
    BY <2>14 DEF BookCost, watch, cloud
  <2> QED BY <1>3, <2>1, <2>2, <2>3, <2>4, <2>5, <2>6, <2>7, <2>8, <2>9, <2>10, <2>11, <2>12,
      <2>13, <2>14 DEF Closing
<1>4. CASE Environment
  BY <1>4 DEF Environment, Hang, control, cloud, out, DeadlineSwallowed, RequestCancel,
      SignalInWindow, Signalled, Fail, FailedStage, Mark, BundleAfter, AfterWindow,
      SignalElsewhere
<1>5. CASE Deadline
  <2>1. CASE DeadlineCuts
    BY <2>1 DEF DeadlineCuts, Fail, FailedStage, Mark, BundleAfter, AfterWindow, out
  <2>2. CASE DeadlineWaits
    BY <2>2 DEF DeadlineWaits, control, cloud, out
  <2> QED BY <1>5, <2>1, <2>2 DEF Deadline
<1>6. CASE UNCHANGED vars
  BY <1>6 DEF vars, control, watch, cloud, out
<1> QED BY <1>1, <1>2, <1>3, <1>4, <1>5, <1>6 DEF Next, Thread, Over

\* An exception leaves no provision under way.
LEMMA CutCalls ==
    ASSUME TypeOK, CallInv, fate' = Orphaned, inflight' = "none",
           UNCHANGED <<booked, handle, lazy>>, todo' \in {todo, booked}
    PROVE  CallInv'
<1>1. NoPool'
  BY CutEffect DEF NoPool
<1>2. \A r \in Runtimes : fate'[r] # "creating"
  BY CutEffect
<1>3. \A r \in Runtimes : r \in booked => fate[r] \notin {"wanted", "creating", "aborted"}
  BY DEF CallInv, Created
<1> QED
  BY <1>1, <1>2, <1>3, CutEffect DEF CallInv

\* Destroying a runtime that exists touches no provision.
LEMMA DestroyedCalls ==
    ASSUME TypeOK, CallInv, NEW r \in Runtimes, Destroyed(r), r \in Created, inflight = "none",
           inflight' = "none", booked' \subseteq booked, todo' \subseteq todo
    PROVE  CallInv'
<1>1. \A q \in Runtimes : fate[q] \notin {"wanted", "creating"}
  BY DEF CallInv, Calls
<1>2. \A q \in Runtimes : fate'[q] \notin {"wanted", "creating"}
  BY <1>1, DestroyedEffect
<1>3. Calls' = {} /\ NoPool'
  BY <1>2 DEF Calls, NoPool
<1>4. Created' = Created
  BY DestroyedEffect DEF Created
<1>5. \A q \in Runtimes : q \in booked => fate'[q] \notin {"creating", "aborted"}
  BY DestroyedEffect DEF CallInv
<1> QED
  BY <1>2, <1>3, <1>4, <1>5, DestroyedEffect, NoRuntimeAssumption DEF CallInv, TypeOK, CloudOK

\* A provision that starts, is accepted or is over leaves the account of those under way true.
LEMMA ProvisionCalls ==
    ASSUME TypeOK, CallInv, Provision
    PROVE  CallInv'
<1> USE NoRuntimeAssumption
<1> USE DEF CallInv
<1>1. pc = "execute" /\ pc' = "execute" /\ todo' = todo
  BY ProvisionEffect DEF control
<1>2. CASE BeginProvision
  <2>1. PICK r \in Runtimes : fate[r] = "absent" /\ fate' = [fate EXCEPT ![r] = "wanted"]
    BY <1>2 DEF BeginProvision
  <2>2. fate'[r] = "wanted" /\ \A q \in Runtimes : q # r => fate'[q] = fate[q]
    BY <2>1 DEF TypeOK, CloudOK
  <2>3. Calls' = Calls \union {r} /\ Created' = Created /\ r \notin Created
    BY <2>1, <2>2 DEF Calls, Created
  <2>4. /\ UNCHANGED <<booked, handle, lazy>> /\ handle = NoRuntime
        /\ inflight' # "none" /\ (inflight' = "explicit" => inflight = "none")
    BY <1>2 DEF BeginProvision
  <2>5. inflight' = "explicit" => NoPool'
    BY <2>3, <2>4 DEF NoPool
  <2> QED
    BY <1>1, <2>2, <2>3, <2>4, <2>5
<1>3. CASE CreateRuntime
  <2>1. PICK r \in Runtimes : /\ fate[r] = "wanted" /\ fate' = [fate EXCEPT ![r] = "creating"]
                              /\ handle' = r
    BY <1>3 DEF CreateRuntime, Provisioning
  <2>2. fate'[r] = "creating" /\ \A q \in Runtimes : q # r => fate'[q] = fate[q]
    BY <2>1 DEF TypeOK, CloudOK
  <2>3. Calls' = Calls /\ Created' = Created \union {r} /\ r \notin Created
    BY <2>1, <2>2 DEF Calls, Created
  <2>4. UNCHANGED <<booked, inflight, lazy>> /\ handle' # NoRuntime
    BY <1>3, <2>1 DEF CreateRuntime
  <2>5. NoPool' = NoPool
    BY <2>3 DEF NoPool
  <2> QED
    BY <1>1, <2>1, <2>2, <2>3, <2>4, <2>5
<1>4. ASSUME NEW r \in Runtimes, NEW f \in {"refused", "aborted", "live"}, Returned(r, f),
             fate[r] = "wanted" \/ (fate[r] = "creating" /\ f # "refused"),
             UNCHANGED handle, lazy' => lazy \/ fate[r] = "creating",
             booked' \in {booked, booked \union {r}}, r \in booked' => f = "live"
      PROVE  CallInv'
  <2>1. /\ fate'[r] = f /\ \A q \in Runtimes : q # r => fate'[q] = fate[q]
        /\ Calls' \subseteq Calls /\ (inflight' = "none" <=> Calls' = {})
        /\ inflight' \in {inflight, "none"}
    BY <1>4, ReturnedEffect
  <2>2. \A q \in Runtimes : q \in Created => q \in Created' \/ q = r
    BY <2>1 DEF Created
  <2>3. /\ f # "refused" => r \in Created'
        /\ fate[r] = "wanted" => r \notin Created
    BY <2>1 DEF Created
  <2>4. NoPool => NoPool'
    BY <2>1 DEF NoPool
  <2>5. \A q \in Runtimes : fate'[q] = "creating" => fate[q] = "creating"
    BY <2>1
  <2>6. handle' # NoRuntime \/ (~lazy' /\ \A q \in Runtimes : fate'[q] # "creating")
    BY <1>4, <2>5
  <2>7. \A q \in Runtimes : q \in booked' \union todo' \union {handle'} => q \in Created'
    BY <1>1, <1>4, <2>2, <2>3
  <2>8. \A q \in Runtimes : q \in booked' => fate'[q] \notin {"creating", "aborted"}
    BY <1>4, <2>1
  <2> QED
    BY <1>1, <2>1, <2>4, <2>6, <2>7, <2>8
<1>5. CASE CreateRefused
  <2>1. PICK r \in Runtimes, f \in {"refused", "aborted"} : fate[r] = "wanted" /\ Returned(r, f)
    BY <1>5 DEF CreateRefused, Provisioning
  <2>2. r \notin booked /\ UNCHANGED <<booked, handle, lazy>>
    BY <1>5, <2>1 DEF CreateRefused, Created
  <2> QED
    BY <1>4, <2>1, <2>2
<1>6. CASE CreateReturns
  BY <1>4, <1>6 DEF CreateReturns, Provisioning
<1>7. CASE CreateFails
  <2>1. PICK r \in Runtimes : fate[r] = "creating" /\ Returned(r, "aborted")
    BY <1>7 DEF CreateFails, Provisioning
  <2>2. r \notin booked /\ UNCHANGED <<booked, handle, lazy>>
    BY <1>7, <2>1 DEF CreateFails
  <2> QED
    BY <1>4, <2>1, <2>2
<1> QED
  BY <1>2, <1>3, <1>5, <1>6, <1>7 DEF Provision

\* A create call does not outlive EXECUTE and no runtime is named before it is created:
\* every exception that leaves the window clears the call it cut short.
LEMMA CallStep ==
    ASSUME TypeOK, CallInv, [Next]_vars
    PROVE  CallInv'
<1> USE NoRuntimeAssumption
<1> USE DEF TypeOK, ControlOK, Request, Points, Gates, TryPoints, Stages, Outcomes, WatchOK,
    CloudOK, Fates, OutOK, Statuses, CallInv
<1>1. CASE Gate
  BY <1>1, FateFrame DEF Gate, ResolveRefused, watch, cloud, Resolved, Mark, Proceed, out,
      PrepareFails, RefuseWithError, RecordAs, Prepared, PreflightFails, PreflightPasses,
      DescribeFails, Described, LiveGateRefuses, LiveBlocked, RefuseSetup, LiveGateOpens,
      BudgetGateRefuses, BudgetBlocked, OpenWindow
<1>2. CASE Window
  <2>1. CASE Cancelled
    BY <2>1, FailEffect, CutCalls DEF Cancelled
  <2>2. CASE NotCancelled
    BY <2>2, FateFrame DEF NotCancelled, CheckPoint, cloud, out
  <2>3. CASE CancelledInside
    BY <2>3, FailEffect, CutCalls DEF CancelledInside
  <2>4. CASE Setup
    BY <2>4, FateFrame DEF Setup, StageOk, Mark, watch, cloud, out
  <2>5. CASE Execute
    BY <2>5, FateFrame DEF Execute, StageOk, Mark, watch, cloud, out
  <2>6. CASE Seal
    BY <2>6, FateFrame DEF Seal, StageOk, Mark, watch, cloud, out
  <2>7. CASE LeaveWindow
    BY <2>7, FateFrame DEF LeaveWindow, AfterWindow, out
  <2>8. CASE TaskFails
    BY <2>8, FailEffect, CutCalls DEF TaskFails
  <2>9. CASE StageCrashes
    BY <2>9, FailEffect, CutCalls DEF StageCrashes
  <2>10. CASE Provision
    BY <2>10, ProvisionCalls
  <2>11. CASE TaskDeprovisions
    <3>1. PICK r \in booked : Deprovisioned(r)
      BY <2>11 DEF TaskDeprovisions
    <3>2. inflight = "none" /\ UNCHANGED <<pc, inflight, todo>>
      BY <2>11 DEF TaskDeprovisions, control
    <3> QED
      BY <3>1, <3>2, DestroyedCalls DEF Deprovisioned
  <2> QED BY <1>2, <2>1, <2>2, <2>3, <2>4, <2>5, <2>6, <2>7, <2>8, <2>9, <2>10, <2>11 DEF Window
<1>3. CASE Closing
  <2>1. CASE ReconcileOne
    <3>1. PICK r \in todo :
             /\ todo' = todo \ {r}
             /\ \/ Deprovisioned(r) /\ reclaimed' = reclaimed \union {r}
                \/ UNCHANGED <<fate, handle, lazy, booked, reclaimed>>
      BY <2>1 DEF ReconcileOne
    <3>2. pc = "reconcile" /\ UNCHANGED <<pc, inflight>>
      BY <2>1 DEF ReconcileOne, control
    <3>3. CASE Deprovisioned(r)
      BY <3>1, <3>2, <3>3, DestroyedCalls DEF Deprovisioned
    <3>4. CASE UNCHANGED <<fate, handle, lazy, booked, reclaimed>>
      BY <3>1, <3>2, <3>4, FateFrame
    <3> QED
      BY <3>1, <3>3, <3>4
  <2>2. CASE Reconciled
    BY <2>2, FateFrame DEF Reconciled, StillThere, watch, out
  <2>3. CASE ReconcileFails
    BY <2>3, FateFrame DEF ReconcileFails, watch, out
  <2>4. CASE Teardown
    <3>1. /\ pc = "teardown" /\ pc' = "closed" /\ StopTransport
          /\ UNCHANGED <<booked, todo, inflight>>
      BY <2>4 DEF Teardown
    <3>2. lazy' = FALSE /\ inflight' = "none" /\ Calls = {}
      BY <3>1, StopEffect
    <3>3. \A r \in Runtimes :
            /\ fate'[r] \in {"wanted", "creating", "aborted", "absent", "refused"} => fate'[r] = fate[r]
            /\ r \in Created => r \in Created'
      BY <3>1, StopEffect DEF Created
    <3>4. Calls' = {} /\ \A r \in Runtimes : fate'[r] # "creating"
      BY <3>2, <3>3 DEF Calls
    <3>5. NoPool'
      BY <3>4 DEF NoPool
    <3>6. handle' \in {handle, NoRuntime}
      BY <3>1, StopEffect
    <3> QED
      BY <3>1, <3>2, <3>3, <3>4, <3>5, <3>6
  <2>5. CASE TeardownFails
    BY <2>5, FateFrame DEF TeardownFails, Mark, watch, cloud, out
  <2>6. CASE CloseInterrupted
    BY <2>6, FateFrame DEF CloseInterrupted, Mark, RecordAs, watch, cloud
  <2>7. CASE SkipScore
    BY <2>7, FateFrame DEF SkipScore, Mark, RecordAs, StatusFor, InvalidStages, FatalStages,
        watch, cloud
  <2>8. CASE StartScore
    BY <2>8, FateFrame DEF StartScore, watch, cloud, out
  <2>9. CASE Score
    BY <2>9, FateFrame DEF Score, Mark, RecordAs, StatusFor, InvalidStages, FatalStages, watch,
        cloud
  <2>10. CASE ScoreFails
    BY <2>10, FateFrame DEF ScoreFails, Mark, RecordAs, StatusFor, InvalidStages, FatalStages,
        watch, cloud
  <2>11. CASE Persist
    BY <2>11, FateFrame DEF Persist, watch, cloud
  <2>12. CASE PersistRaises
    BY <2>12, FateFrame DEF PersistRaises, watch, cloud
  <2>13. CASE FinishRow
    BY <2>13, FateFrame DEF FinishRow, watch, cloud
  <2>14. CASE BookCost
    BY <2>14, FateFrame DEF BookCost, watch, cloud
  <2> QED BY <1>3, <2>1, <2>2, <2>3, <2>4, <2>5, <2>6, <2>7, <2>8, <2>9, <2>10, <2>11, <2>12,
      <2>13, <2>14 DEF Closing
<1>4. CASE Environment
  <2>1. CASE Hang
    BY <2>1, FateFrame DEF Hang, control, cloud, out
  <2>2. CASE DeadlineSwallowed
    BY <2>2, CutCalls DEF DeadlineSwallowed, control, out
  <2>3. CASE RequestCancel
    BY <2>3, FateFrame DEF RequestCancel, control, cloud, out
  <2>4. CASE SignalInWindow
    BY <2>4, FailEffect, CutCalls DEF SignalInWindow
  <2>5. CASE SignalElsewhere
    BY <2>5, FateFrame DEF SignalElsewhere, Signalled, cloud
  <2> QED BY <1>4, <2>1, <2>2, <2>3, <2>4, <2>5 DEF Environment
<1>5. CASE Deadline
  <2>1. CASE DeadlineCuts
    BY <2>1, FailEffect, CutCalls DEF DeadlineCuts
  <2>2. CASE DeadlineWaits
    BY <2>2, FateFrame DEF DeadlineWaits, control, cloud, out
  <2> QED BY <1>5, <2>1, <2>2 DEF Deadline
<1>6. CASE UNCHANGED vars
  BY <1>6, FateFrame DEF vars, control, watch, cloud, out
<1> QED BY <1>1, <1>2, <1>3, <1>4, <1>5, <1>6 DEF Next, Thread, Over

\* The measured stages advance in order, one outcome each, with no error until the window
\* is left.
LEMMA StageStep ==
    ASSUME TypeOK, StageInv, ClosingInv, [Next]_vars
    PROVE  StageInv'
<1> USE DEF TypeOK, ControlOK, Request, Points, Gates, TryPoints, Stages, Outcomes, WatchOK,
    CloudOK, Fates, OutOK, Statuses, StageInv, Measured, Complete, ClosingInv
<1>1. CASE Gate
  <2>1. CASE ResolveRefused
    BY <2>1 DEF ResolveRefused, watch, cloud
  <2>2. CASE Resolved
    BY <2>2 DEF Resolved, Mark, Proceed, watch, cloud, out
  <2>3. CASE PrepareFails
    BY <2>3 DEF PrepareFails, RefuseWithError, Mark, RecordAs, watch, cloud
  <2>4. CASE Prepared
    BY <2>4 DEF Prepared, Proceed, watch, cloud, out
  <2>5. CASE PreflightFails
    BY <2>5 DEF PreflightFails, RefuseWithError, Mark, RecordAs, watch, cloud
  <2>6. CASE PreflightPasses
    BY <2>6 DEF PreflightPasses, Mark, Proceed, watch, cloud, out
  <2>7. CASE DescribeFails
    BY <2>7 DEF DescribeFails, RefuseWithError, Mark, RecordAs, watch, cloud
  <2>8. CASE Described
    BY <2>8 DEF Described, Mark, Proceed, watch, cloud, out
  <2>9. CASE LiveGateRefuses
    BY <2>9 DEF LiveGateRefuses, LiveBlocked, RefuseSetup, Mark, RecordAs, watch, cloud
  <2>10. CASE LiveGateOpens
    BY <2>10 DEF LiveGateOpens, LiveBlocked, Proceed, watch, cloud, out
  <2>11. CASE BudgetGateRefuses
    BY <2>11 DEF BudgetGateRefuses, BudgetBlocked, RefuseSetup, Mark, RecordAs, watch, cloud
  <2>12. CASE OpenWindow
    BY <2>12 DEF OpenWindow, BudgetBlocked, cloud, out
  <2> QED BY <1>1, <2>1, <2>2, <2>3, <2>4, <2>5, <2>6, <2>7, <2>8, <2>9, <2>10, <2>11, <2>12 DEF
      Gate
<1>2. CASE Window
  BY <1>2, ProvisionEffect DEF Window, Cancelled, CheckPoint, Fail, FailedStage, Mark,
      BundleAfter, AfterWindow, out, NotCancelled, cloud, CancelledInside, Setup, StageOk,
      watch, Execute, Seal, LeaveWindow, TaskFails, StageCrashes, control, TaskDeprovisions,
      Deprovisioned, Destroyed
<1>3. CASE Closing
  BY <1>3 DEF Closing, ReconcileOne, Deprovisioned, Destroyed, control, watch, out, Reconciled,
      InCloud, StillThere, ReconcileFails, Teardown, StopTransport, Mark, TeardownFails, cloud,
      CloseInterrupted, RecordAs, SkipScore, StatusFor, InvalidStages, FatalStages, StartScore,
      Score, ScoreFails, Persist, PersistRaises, FinishRow, BookCost
<1>4. CASE Environment
  BY <1>4 DEF Environment, Hang, control, cloud, out, DeadlineSwallowed, RequestCancel,
      SignalInWindow, Signalled, Fail, FailedStage, Mark, BundleAfter, AfterWindow,
      SignalElsewhere
<1>5. CASE Deadline
  <2>1. CASE DeadlineCuts
    BY <2>1 DEF DeadlineCuts, Fail, FailedStage, Mark, BundleAfter, AfterWindow, out
  <2>2. CASE DeadlineWaits
    BY <2>2 DEF DeadlineWaits, control, cloud, out
  <2> QED BY <1>5, <2>1, <2>2 DEF Deadline
<1>6. CASE UNCHANGED vars
  BY <1>6 DEF vars, control, watch, cloud, out
<1> QED BY <1>1, <1>2, <1>3, <1>4, <1>5, <1>6 DEF Next, Thread, Over

\* Every way out of the window leaves either all the observations or the error that cost
\* them, and reconciliation and teardown only ever add their own error.
LEMMA ClosingStep ==
    ASSUME TypeOK, StageInv, ClosingInv, [Next]_vars
    PROVE  ClosingInv'
<1> USE DEF TypeOK, ControlOK, Request, Points, Gates, TryPoints, Stages, Outcomes, WatchOK,
    CloudOK, Fates, OutOK, Statuses, StageInv, Measured, Complete, ClosingInv
<1>1. CASE Gate
  BY <1>1 DEF Gate, ResolveRefused, watch, cloud, Resolved, Mark, Proceed, out, PrepareFails,
      RefuseWithError, RecordAs, Prepared, PreflightFails, PreflightPasses, DescribeFails,
      Described, LiveGateRefuses, LiveBlocked, RefuseSetup, LiveGateOpens, BudgetGateRefuses,
      BudgetBlocked, OpenWindow
<1>2. CASE Window
  BY <1>2, ProvisionEffect DEF Window, Cancelled, CheckPoint, Fail, FailedStage, Mark,
      BundleAfter, AfterWindow, out, NotCancelled, cloud, CancelledInside, Setup, StageOk,
      watch, Execute, Seal, LeaveWindow, TaskFails, StageCrashes, control, TaskDeprovisions,
      Deprovisioned, Destroyed
<1>3. CASE Closing
  <2>1. CASE ReconcileOne
    BY <2>1 DEF ReconcileOne, Deprovisioned, Destroyed, control, watch, out
  <2>2. CASE Reconciled
    BY <2>2 DEF Reconciled, InCloud, StillThere, watch, out
  <2>3. CASE ReconcileFails
    BY <2>3 DEF ReconcileFails, watch, out
  <2>4. CASE Teardown
    BY <2>4 DEF Teardown, StopTransport, Destroyed, Mark, watch, out
  <2>5. CASE TeardownFails
    BY <2>5 DEF TeardownFails, Mark, watch, cloud, out
  <2>6. CASE CloseInterrupted
    BY <2>6 DEF CloseInterrupted, Mark, RecordAs, watch, cloud
  <2>7. CASE SkipScore
    BY <2>7 DEF SkipScore, Mark, RecordAs, StatusFor, InvalidStages, FatalStages, watch, cloud
  <2>8. CASE StartScore
    BY <2>8 DEF StartScore, watch, cloud, out
  <2>9. CASE Score
    BY <2>9 DEF Score, Mark, RecordAs, StatusFor, InvalidStages, FatalStages, watch, cloud
  <2>10. CASE ScoreFails
    BY <2>10 DEF ScoreFails, Mark, RecordAs, StatusFor, InvalidStages, FatalStages, watch, cloud
  <2>11. CASE Persist
    BY <2>11 DEF Persist, watch, cloud
  <2>12. CASE PersistRaises
    BY <2>12 DEF PersistRaises, watch, cloud
  <2>13. CASE FinishRow
    BY <2>13 DEF FinishRow, watch, cloud
  <2>14. CASE BookCost
    BY <2>14 DEF BookCost, watch, cloud
  <2> QED BY <1>3, <2>1, <2>2, <2>3, <2>4, <2>5, <2>6, <2>7, <2>8, <2>9, <2>10, <2>11, <2>12,
      <2>13, <2>14 DEF Closing
<1>4. CASE Environment
  <2>1. CASE Hang
    BY <2>1 DEF Hang, control, cloud, out
  <2>2. CASE DeadlineSwallowed
    BY <2>2 DEF DeadlineSwallowed, control, out
  <2>3. CASE RequestCancel
    BY <2>3 DEF RequestCancel, control, cloud, out
  <2>4. CASE SignalInWindow
    BY <2>4 DEF SignalInWindow, Signalled, Fail, FailedStage, Mark, BundleAfter, AfterWindow, out
  <2>5. CASE SignalElsewhere
    BY <2>5 DEF SignalElsewhere, Signalled, cloud
  <2> QED BY <1>4, <2>1, <2>2, <2>3, <2>4, <2>5 DEF Environment
<1>5. CASE Deadline
  <2>1. CASE DeadlineCuts
    BY <2>1 DEF DeadlineCuts, Fail, FailedStage, Mark, BundleAfter, AfterWindow, out
  <2>2. CASE DeadlineWaits
    BY <2>2 DEF DeadlineWaits, control, cloud, out
  <2> QED BY <1>5, <2>1, <2>2 DEF Deadline
<1>6. CASE UNCHANGED vars
  BY <1>6 DEF vars, control, watch, cloud, out
<1> QED BY <1>1, <1>2, <1>3, <1>4, <1>5, <1>6 DEF Next, Thread, Over

\* The status is decided once, on the way to the record; the record repeats it or says
\* `failed`, and the row repeats the record.
LEMMA RecordStep ==
    ASSUME TypeOK, RecordInv, StageInv, [Next]_vars
    PROVE  RecordInv'
<1> USE DEF TypeOK, ControlOK, Request, Points, Gates, TryPoints, Stages, Outcomes, WatchOK,
    CloudOK, Fates, OutOK, Statuses, RecordInv, StageInv, Measured, Complete
<1>1. CASE Gate
  BY <1>1 DEF Gate, ResolveRefused, watch, cloud, Resolved, Mark, Proceed, out, PrepareFails,
      RefuseWithError, RecordAs, Prepared, PreflightFails, PreflightPasses, DescribeFails,
      Described, LiveGateRefuses, LiveBlocked, RefuseSetup, LiveGateOpens, BudgetGateRefuses,
      BudgetBlocked, OpenWindow
<1>2. CASE Window
  BY <1>2, ProvisionEffect DEF Window, Cancelled, CheckPoint, Fail, FailedStage, Mark,
      BundleAfter, AfterWindow, out, NotCancelled, cloud, CancelledInside, Setup, StageOk,
      watch, Execute, Seal, LeaveWindow, TaskFails, StageCrashes, control, TaskDeprovisions,
      Deprovisioned, Destroyed
<1>3. CASE Closing
  BY <1>3 DEF Closing, ReconcileOne, Deprovisioned, Destroyed, control, watch, out, Reconciled,
      InCloud, StillThere, ReconcileFails, Teardown, StopTransport, Mark, TeardownFails, cloud,
      CloseInterrupted, RecordAs, SkipScore, StatusFor, InvalidStages, FatalStages, StartScore,
      Score, ScoreFails, Persist, PersistRaises, FinishRow, BookCost
<1>4. CASE Environment
  BY <1>4 DEF Environment, Hang, control, cloud, out, DeadlineSwallowed, RequestCancel,
      SignalInWindow, Signalled, Fail, FailedStage, Mark, BundleAfter, AfterWindow,
      SignalElsewhere
<1>5. CASE Deadline
  <2>1. CASE DeadlineCuts
    BY <2>1 DEF DeadlineCuts, Fail, FailedStage, Mark, BundleAfter, AfterWindow, out
  <2>2. CASE DeadlineWaits
    BY <2>2 DEF DeadlineWaits, control, cloud, out
  <2> QED BY <1>5, <2>1, <2>2 DEF Deadline
<1>6. CASE UNCHANGED vars
  BY <1>6 DEF vars, control, watch, cloud, out
<1> QED BY <1>1, <1>2, <1>3, <1>4, <1>5, <1>6 DEF Next, Thread, Over

\* `completed` and `unsupported` are decided only with the sealed observations scored.
LEMMA VerdictStep ==
    ASSUME TypeOK, StageInv, ClosingInv, RecordInv, VerdictInv, [Next]_vars
    PROVE  VerdictInv'
<1> USE DEF TypeOK, ControlOK, Request, Points, Gates, TryPoints, Stages, Outcomes, WatchOK,
    CloudOK, Fates, OutOK, Statuses, StageInv, Measured, Complete, ClosingInv, RecordInv,
    VerdictInv
<1>1. CASE Gate
  BY <1>1 DEF Gate, ResolveRefused, watch, cloud, Resolved, Mark, Proceed, out, PrepareFails,
      RefuseWithError, RecordAs, Prepared, PreflightFails, PreflightPasses, DescribeFails,
      Described, LiveGateRefuses, LiveBlocked, RefuseSetup, LiveGateOpens, BudgetGateRefuses,
      BudgetBlocked, OpenWindow
<1>2. CASE Window
  BY <1>2, ProvisionEffect DEF Window, Cancelled, CheckPoint, Fail, FailedStage, Mark,
      BundleAfter, AfterWindow, out, NotCancelled, cloud, CancelledInside, Setup, StageOk,
      watch, Execute, Seal, LeaveWindow, TaskFails, StageCrashes, control, TaskDeprovisions,
      Deprovisioned, Destroyed
<1>3. CASE Closing
  <2>1. CASE ReconcileOne
    BY <2>1 DEF ReconcileOne, Deprovisioned, Destroyed, control, watch, out
  <2>2. CASE Reconciled
    BY <2>2 DEF Reconciled, InCloud, StillThere, watch, out
  <2>3. CASE ReconcileFails
    BY <2>3 DEF ReconcileFails, watch, out
  <2>4. CASE Teardown
    BY <2>4 DEF Teardown, StopTransport, Destroyed, Mark, watch, out
  <2>5. CASE TeardownFails
    BY <2>5 DEF TeardownFails, Mark, watch, cloud, out
  <2>6. CASE CloseInterrupted
    BY <2>6 DEF CloseInterrupted, Mark, RecordAs, watch, cloud
  <2>7. CASE SkipScore
    BY <2>7 DEF SkipScore, Mark, RecordAs, StatusFor, InvalidStages, FatalStages, watch, cloud
  <2>8. CASE StartScore
    BY <2>8 DEF StartScore, watch, cloud, out
  <2>9. CASE Score
    BY <2>9 DEF Score, Mark, RecordAs, StatusFor, InvalidStages, FatalStages, watch, cloud
  <2>10. CASE ScoreFails
    BY <2>10 DEF ScoreFails, Mark, RecordAs, StatusFor, InvalidStages, FatalStages, watch, cloud
  <2>11. CASE Persist
    BY <2>11 DEF Persist, watch, cloud
  <2>12. CASE PersistRaises
    BY <2>12 DEF PersistRaises, watch, cloud
  <2>13. CASE FinishRow
    BY <2>13 DEF FinishRow, watch, cloud
  <2>14. CASE BookCost
    BY <2>14 DEF BookCost, watch, cloud
  <2> QED BY <1>3, <2>1, <2>2, <2>3, <2>4, <2>5, <2>6, <2>7, <2>8, <2>9, <2>10, <2>11, <2>12,
      <2>13, <2>14 DEF Closing
<1>4. CASE Environment
  BY <1>4 DEF Environment, Hang, control, cloud, out, DeadlineSwallowed, RequestCancel,
      SignalInWindow, Signalled, Fail, FailedStage, Mark, BundleAfter, AfterWindow,
      SignalElsewhere
<1>5. CASE Deadline
  <2>1. CASE DeadlineCuts
    BY <2>1 DEF DeadlineCuts, Fail, FailedStage, Mark, BundleAfter, AfterWindow, out
  <2>2. CASE DeadlineWaits
    BY <2>2 DEF DeadlineWaits, control, cloud, out
  <2> QED BY <1>5, <2>1, <2>2 DEF Deadline
<1>6. CASE UNCHANGED vars
  BY <1>6 DEF vars, control, watch, cloud, out
<1> QED BY <1>1, <1>2, <1>3, <1>4, <1>5, <1>6 DEF Next, Thread, Over

\* Only a provision adds to what the run has ever created, and it adds one runtime.
LEMMA CreatedStep ==
    ASSUME TypeOK, CallInv, [Next]_vars
    PROVE  \/ Created' = Created
           \/ Provision /\ \E r \in Calls \ Created : Created' = Created \union {r}
<1> USE DEF TypeOK, CloudOK, CallInv
<1>1. CASE Provision
  <2>1. CASE BeginProvision \/ CreateReturns \/ CreateFails
    <3>1. ASSUME NEW r \in Runtimes, fate[r] = "absent", fate' = [fate EXCEPT ![r] = "wanted"]
          PROVE  Created' = Created
      BY <3>1 DEF Created
    <3>2. ASSUME NEW r \in Runtimes, NEW f \in {"live", "aborted"}, fate[r] = "creating",
                 fate' = [fate EXCEPT ![r] = f]
          PROVE  Created' = Created
      BY <3>2 DEF Created
    <3> QED
      BY <2>1, <3>1, <3>2 DEF BeginProvision, CreateReturns, CreateFails, Provisioning, Returned
  <2>2. ASSUME NEW r \in Runtimes, NEW f \in {"creating", "aborted"}, fate[r] = "wanted",
               fate' = [fate EXCEPT ![r] = f]
        PROVE  r \in Calls \ Created /\ Created' = Created \union {r}
    BY <2>2 DEF Created, Calls
  <2>3. ASSUME NEW r \in Runtimes, fate[r] = "wanted", fate' = [fate EXCEPT ![r] = "refused"]
        PROVE  Created' = Created
    BY <2>3 DEF Created
  <2>4. CASE CreateRuntime
    BY <1>1, <2>2, <2>4 DEF CreateRuntime, Provisioning
  <2>5. CASE CreateRefused
    BY <1>1, <2>2, <2>3, <2>5 DEF CreateRefused, Provisioning, Returned
  <2> QED
    BY <1>1, <2>1, <2>4, <2>5 DEF Provision
<1>2. CASE UNCHANGED fate
  BY <1>2, FateFrame
<1>3. CASE fate' = Orphaned
  BY <1>3, CutEffect
<1>4. ASSUME NEW r \in Runtimes, r \in Created, Destroyed(r)
      PROVE  Created' = Created
  BY <1>4, DestroyedEffect DEF Created
<1>5. CASE TaskDeprovisions
  BY <1>4, <1>5 DEF TaskDeprovisions, Deprovisioned
<1>6. CASE ReconcileOne
  BY <1>2, <1>4, <1>6 DEF ReconcileOne, Deprovisioned
<1>7. CASE Teardown
  <2>1. \A r \in Runtimes : fate'[r] = fate[r] \/ (r \in Created /\ fate'[r] \in {"deleted", "lingering", "stranded"})
    BY <1>7, StopEffect DEF Teardown
  <2> QED
    BY <2>1 DEF Created
<1> QED
  <2>1. CASE Gate
    BY <2>1, <1>2 DEF Gate, ResolveRefused, Resolved, PrepareFails, Prepared, PreflightFails,
        PreflightPasses, DescribeFails, Described, LiveGateRefuses, LiveGateOpens,
        BudgetGateRefuses, OpenWindow, RefuseWithError, RefuseSetup, Proceed, cloud
  <2>2. CASE Window
    BY <2>2, <1>1, <1>2, <1>3, <1>5
       DEF Window, Cancelled, NotCancelled, CancelledInside, Setup, Execute, Seal, LeaveWindow,
        TaskFails, StageCrashes, StageOk, Fail, cloud
  <2>3. CASE Closing
    BY <2>3, <1>2, <1>6, <1>7
       DEF Closing, Reconciled, ReconcileFails, TeardownFails, CloseInterrupted, SkipScore,
        StartScore, Score, ScoreFails, Persist, PersistRaises, FinishRow, BookCost, cloud
  <2>4. CASE Environment
    BY <2>4, <1>2, <1>3
       DEF Environment, Hang, DeadlineSwallowed, RequestCancel, SignalInWindow,
        SignalElsewhere, Fail, cloud
  <2>5. CASE Deadline
    BY <2>5, <1>2, <1>3 DEF Deadline, DeadlineCuts, DeadlineWaits, Fail, cloud
  <2>6. CASE UNCHANGED vars
    BY <2>6, <1>2 DEF vars, cloud
  <2> QED
    BY <2>1, <2>2, <2>3, <2>4, <2>5, <2>6 DEF Next, Thread, Over

\* No step passes a closed gate, nothing is created outside the window, and a run that
\* spent is past every exit that says `invalid`.
LEMMA GateStep ==
    ASSUME TypeOK, CallInv, StageInv, ClosingInv, RecordInv, SurvivorInv, GateInv, [Next]_vars
    PROVE  GateInv'
<1> USE DEF TypeOK, ControlOK, Request, Points, Gates, TryPoints, Stages, Outcomes, WatchOK,
    CloudOK, Fates, OutOK, Statuses, CallInv, StageInv, Measured, Complete, ClosingInv,
    RecordInv, GateInv, LiveBlocked, BudgetBlocked
<1>0. \/ Spent' = Spent
      \/ pc = "execute" /\ status = "none" /\ req.provisioning /\ UNCHANGED <<req, pc, stages,
                                                                              status>>
  BY CreatedStep, ProvisionEffect DEF Spent, SurvivorInv, control, out
<1>1. CASE Gate
  BY <1>1, <1>0 DEF Gate, ResolveRefused, watch, cloud, Resolved, Mark, Proceed, out,
      PrepareFails, RefuseWithError, RecordAs, Prepared, PreflightFails, PreflightPasses,
      DescribeFails, Described, LiveGateRefuses, RefuseSetup, LiveGateOpens, BudgetGateRefuses,
      OpenWindow
<1>2. CASE Window
  <2>1. CASE Cancelled
    BY <2>1, <1>0 DEF Cancelled, CheckPoint, Fail, FailedStage, Mark, BundleAfter, AfterWindow,
        out
  <2>2. CASE NotCancelled
    BY <2>2, <1>0 DEF NotCancelled, CheckPoint, cloud, out
  <2>3. CASE CancelledInside
    BY <2>3, <1>0 DEF CancelledInside, Fail, FailedStage, Mark, BundleAfter, AfterWindow,
        out
  <2>4. CASE Setup
    BY <2>4, <1>0 DEF Setup, StageOk, Mark, watch, cloud, out
  <2>5. CASE Execute
    BY <2>5, <1>0 DEF Execute, StageOk, Mark, watch, cloud, out
  <2>6. CASE Seal
    BY <2>6, <1>0 DEF Seal, StageOk, Mark, watch, cloud, out
  <2>7. CASE LeaveWindow
    BY <2>7, <1>0 DEF LeaveWindow, AfterWindow, out
  <2>8. CASE TaskFails
    BY <2>8, <1>0 DEF TaskFails, Fail, FailedStage, Mark, BundleAfter, AfterWindow, out
  <2>9. CASE StageCrashes
    BY <2>9, <1>0 DEF StageCrashes, Fail, FailedStage, Mark, BundleAfter, AfterWindow, out
  <2>10. CASE Provision
    BY <2>10, <1>0, ProvisionEffect DEF control, watch, out
  <2>11. CASE TaskDeprovisions
    BY <2>11, <1>0 DEF TaskDeprovisions, Deprovisioned, Destroyed, control, watch, out
  <2> QED BY <1>2, <2>1, <2>2, <2>3, <2>4, <2>5, <2>6, <2>7, <2>8, <2>9, <2>10, <2>11 DEF Window
<1>3. CASE Closing
  <2>1. CASE ReconcileOne
    BY <2>1, <1>0 DEF ReconcileOne, Deprovisioned, Destroyed, control, watch, out
  <2>2. CASE Reconciled
    BY <2>2, <1>0 DEF Reconciled, InCloud, StillThere, watch, out
  <2>3. CASE ReconcileFails
    BY <2>3, <1>0 DEF ReconcileFails, watch, out
  <2>4. CASE Teardown
    BY <2>4, <1>0 DEF Teardown, StopTransport, Destroyed, Mark, watch, out
  <2>5. CASE TeardownFails
    BY <2>5, <1>0 DEF TeardownFails, Mark, watch, cloud, out
  <2>6. CASE CloseInterrupted
    BY <2>6, <1>0 DEF CloseInterrupted, Mark, RecordAs, watch, cloud
  <2>7. CASE SkipScore
    BY <2>7, <1>0 DEF SkipScore, Mark, RecordAs, StatusFor, InvalidStages, FatalStages, watch,
        cloud
  <2>8. CASE StartScore
    BY <2>8, <1>0 DEF StartScore, watch, cloud, out
  <2>9. CASE Score
    BY <2>9, <1>0 DEF Score, Mark, RecordAs, StatusFor, InvalidStages, FatalStages, watch, cloud
  <2>10. CASE ScoreFails
    BY <2>10, <1>0 DEF ScoreFails, Mark, RecordAs, StatusFor, InvalidStages, FatalStages, watch,
        cloud
  <2>11. CASE Persist
    BY <2>11, <1>0 DEF Persist, watch, cloud
  <2>12. CASE PersistRaises
    BY <2>12, <1>0 DEF PersistRaises, watch, cloud
  <2>13. CASE FinishRow
    BY <2>13, <1>0 DEF FinishRow, watch, cloud
  <2>14. CASE BookCost
    BY <2>14, <1>0 DEF BookCost, watch, cloud
  <2> QED BY <1>3, <2>1, <2>2, <2>3, <2>4, <2>5, <2>6, <2>7, <2>8, <2>9, <2>10, <2>11, <2>12,
      <2>13, <2>14 DEF Closing
<1>4. CASE Environment
  BY <1>4, <1>0 DEF Environment, Hang, control, cloud, out, DeadlineSwallowed, RequestCancel,
      SignalInWindow, Signalled, Fail, FailedStage, Mark, BundleAfter, AfterWindow,
      SignalElsewhere
<1>5. CASE Deadline
  <2>1. CASE DeadlineCuts
    BY <2>1, <1>0 DEF DeadlineCuts, Fail, FailedStage, Mark, BundleAfter, AfterWindow, out
  <2>2. CASE DeadlineWaits
    BY <2>2, <1>0 DEF DeadlineWaits, control, cloud, out
  <2> QED BY <1>5, <2>1, <2>2 DEF Deadline
<1>6. CASE UNCHANGED vars
  BY <1>6, <1>0 DEF vars, control, watch, cloud, out
<1> QED BY <1>1, <1>2, <1>3, <1>4, <1>5, <1>6 DEF Next, Thread, Over

\* The alarm is disarmed by every step that leaves the window.
LEMMA AlarmStep ==
    ASSUME TypeOK, DeadlineSparesTeardown, [Next]_vars
    PROVE  DeadlineSparesTeardown'
<1> USE DEF TypeOK, ControlOK, Request, Points, Gates, TryPoints, Stages, Outcomes, WatchOK,
    CloudOK, Fates, OutOK, Statuses, DeadlineSparesTeardown
<1>1. CASE Gate
  BY <1>1, Zenon DEF Gate, ResolveRefused, watch, cloud, Resolved, Proceed, out, PrepareFails,
      RefuseWithError, RecordAs, Prepared, PreflightFails, PreflightPasses, DescribeFails,
      Described, LiveGateRefuses, LiveBlocked, RefuseSetup, LiveGateOpens, BudgetGateRefuses,
      BudgetBlocked, OpenWindow
<1>2. CASE Window
  <2>1. CASE Cancelled
    BY <2>1 DEF Cancelled, CheckPoint, Fail, FailedStage, Mark, BundleAfter, AfterWindow, out
  <2>2. CASE NotCancelled
    BY <2>2 DEF NotCancelled, CheckPoint, cloud, out
  <2>3. CASE CancelledInside
    BY <2>3 DEF CancelledInside, Fail, FailedStage, Mark, BundleAfter, AfterWindow,
        out
  <2>4. CASE Setup
    BY <2>4 DEF Setup, StageOk, Mark, watch, cloud, out
  <2>5. CASE Execute
    BY <2>5 DEF Execute, StageOk, Mark, watch, cloud, out
  <2>6. CASE Seal
    BY <2>6 DEF Seal, StageOk, Mark, watch, cloud, out
  <2>7. CASE LeaveWindow
    BY <2>7 DEF LeaveWindow, AfterWindow, out
  <2>8. CASE TaskFails
    BY <2>8 DEF TaskFails, Fail, FailedStage, Mark, BundleAfter, AfterWindow, out
  <2>9. CASE StageCrashes
    BY <2>9 DEF StageCrashes, Fail, FailedStage, Mark, BundleAfter, AfterWindow, out
  <2>10. CASE Provision
    BY <2>10, ProvisionEffect DEF control, watch, out
  <2>11. CASE TaskDeprovisions
    BY <2>11 DEF TaskDeprovisions, Deprovisioned, Destroyed, control, watch, out
  <2> QED BY <1>2, <2>1, <2>2, <2>3, <2>4, <2>5, <2>6, <2>7, <2>8, <2>9, <2>10, <2>11 DEF Window
<1>3. CASE Closing
  BY <1>3, Zenon DEF Closing, ReconcileOne, Deprovisioned, Destroyed, control, watch, out,
      Reconciled, InCloud, StillThere, ReconcileFails, Teardown, StopTransport, TeardownFails,
      cloud, CloseInterrupted, RecordAs, SkipScore, StatusFor, InvalidStages, FatalStages,
      StartScore, Score, ScoreFails, Persist, PersistRaises, FinishRow, BookCost
<1>4. CASE Environment
  BY <1>4, FailEffect, Zenon DEF Environment, Hang, control, cloud, out, DeadlineSwallowed,
      RequestCancel, SignalInWindow, Signalled, SignalElsewhere
<1>5. CASE Deadline
  <2>1. CASE DeadlineCuts
    BY <2>1, FailEffect, Zenon DEF DeadlineCuts, out
  <2>2. CASE DeadlineWaits
    BY <2>2 DEF DeadlineWaits, control, cloud, out
  <2> QED BY <1>5, <2>1, <2>2 DEF Deadline
<1>6. CASE UNCHANGED vars
  BY <1>6 DEF vars, control, watch, cloud, out
<1> QED BY <1>1, <1>2, <1>3, <1>4, <1>5, <1>6 DEF Next, Thread, Over

\* A failure is attributed to the first measured stage without an outcome.
LEMMA CulpritStep ==
    ASSUME TypeOK, StageInv, OneCulprit, [Next]_vars
    PROVE  OneCulprit'
<1> USE DEF TypeOK, ControlOK, Request, Points, Gates, TryPoints, Stages, Outcomes, WatchOK,
    CloudOK, Fates, OutOK, Statuses, StageInv, Measured, Complete, OneCulprit
<1>1. CASE Gate
  BY <1>1 DEF Gate, ResolveRefused, watch, cloud, Resolved, Mark, Proceed, out, PrepareFails,
      RefuseWithError, RecordAs, Prepared, PreflightFails, PreflightPasses, DescribeFails,
      Described, LiveGateRefuses, LiveBlocked, RefuseSetup, LiveGateOpens, BudgetGateRefuses,
      BudgetBlocked, OpenWindow
<1>2. CASE Window
  BY <1>2, ProvisionEffect DEF Window, Cancelled, CheckPoint, Fail, FailedStage, Mark,
      BundleAfter, AfterWindow, out, NotCancelled, cloud, CancelledInside, Setup, StageOk,
      watch, Execute, Seal, LeaveWindow, TaskFails, StageCrashes, control, TaskDeprovisions,
      Deprovisioned, Destroyed
<1>3. CASE Closing
  BY <1>3 DEF Closing, ReconcileOne, Deprovisioned, Destroyed, control, watch, out, Reconciled,
      InCloud, StillThere, ReconcileFails, Teardown, StopTransport, Mark, TeardownFails, cloud,
      CloseInterrupted, RecordAs, SkipScore, StatusFor, InvalidStages, FatalStages, StartScore,
      Score, ScoreFails, Persist, PersistRaises, FinishRow, BookCost
<1>4. CASE Environment
  BY <1>4 DEF Environment, Hang, control, cloud, out, DeadlineSwallowed, RequestCancel,
      SignalInWindow, Signalled, Fail, FailedStage, Mark, BundleAfter, AfterWindow,
      SignalElsewhere
<1>5. CASE Deadline
  <2>1. CASE DeadlineCuts
    BY <2>1 DEF DeadlineCuts, Fail, FailedStage, Mark, BundleAfter, AfterWindow, out
  <2>2. CASE DeadlineWaits
    BY <2>2 DEF DeadlineWaits, control, cloud, out
  <2> QED BY <1>5, <2>1, <2>2 DEF Deadline
<1>6. CASE UNCHANGED vars
  BY <1>6 DEF vars, control, watch, cloud, out
<1> QED BY <1>1, <1>2, <1>3, <1>4, <1>5, <1>6 DEF Next, Thread, Over

\* The steps after teardown are reached through it, or from a gate, with no SETUP.
LEMMA TeardownStep ==
    ASSUME TypeOK, StageInv, TeardownInv, [Next]_vars
    PROVE  TeardownInv'
<1> USE DEF TypeOK, ControlOK, Request, Points, Gates, TryPoints, Stages, Outcomes, WatchOK,
    CloudOK, Fates, OutOK, Statuses, StageInv, Measured, Complete, TeardownInv
<1>1. CASE Gate
  BY <1>1 DEF Gate, ResolveRefused, watch, cloud, Resolved, Mark, Proceed, out, PrepareFails,
      RefuseWithError, RecordAs, Prepared, PreflightFails, PreflightPasses, DescribeFails,
      Described, LiveGateRefuses, LiveBlocked, RefuseSetup, LiveGateOpens, BudgetGateRefuses,
      BudgetBlocked, OpenWindow
<1>2. CASE Window
  BY <1>2, ProvisionEffect DEF Window, Cancelled, CheckPoint, Fail, FailedStage, Mark,
      BundleAfter, AfterWindow, out, NotCancelled, cloud, CancelledInside, Setup, StageOk,
      watch, Execute, Seal, LeaveWindow, TaskFails, StageCrashes, control, TaskDeprovisions,
      Deprovisioned, Destroyed
<1>3. CASE Closing
  BY <1>3 DEF Closing, ReconcileOne, Deprovisioned, Destroyed, control, watch, out, Reconciled,
      InCloud, StillThere, ReconcileFails, Teardown, StopTransport, Mark, TeardownFails, cloud,
      CloseInterrupted, RecordAs, SkipScore, StatusFor, InvalidStages, FatalStages, StartScore,
      Score, ScoreFails, Persist, PersistRaises, FinishRow, BookCost
<1>4. CASE Environment
  BY <1>4 DEF Environment, Hang, control, cloud, out, DeadlineSwallowed, RequestCancel,
      SignalInWindow, Signalled, Fail, FailedStage, Mark, BundleAfter, AfterWindow,
      SignalElsewhere
<1>5. CASE Deadline
  <2>1. CASE DeadlineCuts
    BY <2>1 DEF DeadlineCuts, Fail, FailedStage, Mark, BundleAfter, AfterWindow, out
  <2>2. CASE DeadlineWaits
    BY <2>2 DEF DeadlineWaits, control, cloud, out
  <2> QED BY <1>5, <2>1, <2>2 DEF Deadline
<1>6. CASE UNCHANGED vars
  BY <1>6 DEF vars, control, watch, cloud, out
<1> QED BY <1>1, <1>2, <1>3, <1>4, <1>5, <1>6 DEF Next, Thread, Over

\* Only a signal inside the finally block ends a run between SETUP and teardown.
LEMMA CutStep ==
    ASSUME TypeOK, StageInv, TeardownInv, TeardownUnlessCut, [Next]_vars
    PROVE  TeardownUnlessCut'
<1> USE DEF TypeOK, ControlOK, Request, Points, Gates, TryPoints, Stages, Outcomes, WatchOK,
    CloudOK, Fates, OutOK, Statuses, StageInv, Measured, Complete, TeardownInv,
    TeardownUnlessCut
<1>1. CASE Gate
  BY <1>1 DEF Gate, ResolveRefused, watch, cloud, Resolved, Mark, Proceed, out, PrepareFails,
      RefuseWithError, RecordAs, Prepared, PreflightFails, PreflightPasses, DescribeFails,
      Described, LiveGateRefuses, LiveBlocked, RefuseSetup, LiveGateOpens, BudgetGateRefuses,
      BudgetBlocked, OpenWindow
<1>2. CASE Window
  BY <1>2, ProvisionEffect DEF Window, Cancelled, CheckPoint, Fail, FailedStage, Mark,
      BundleAfter, AfterWindow, out, NotCancelled, cloud, CancelledInside, Setup, StageOk,
      watch, Execute, Seal, LeaveWindow, TaskFails, StageCrashes, control, TaskDeprovisions,
      Deprovisioned, Destroyed
<1>3. CASE Closing
  BY <1>3 DEF Closing, ReconcileOne, Deprovisioned, Destroyed, control, watch, out, Reconciled,
      InCloud, StillThere, ReconcileFails, Teardown, StopTransport, Mark, TeardownFails, cloud,
      CloseInterrupted, RecordAs, SkipScore, StatusFor, InvalidStages, FatalStages, StartScore,
      Score, ScoreFails, Persist, PersistRaises, FinishRow, BookCost
<1>4. CASE Environment
  BY <1>4 DEF Environment, Hang, control, cloud, out, DeadlineSwallowed, RequestCancel,
      SignalInWindow, Signalled, Fail, FailedStage, Mark, BundleAfter, AfterWindow,
      SignalElsewhere
<1>5. CASE Deadline
  <2>1. CASE DeadlineCuts
    BY <2>1 DEF DeadlineCuts, Fail, FailedStage, Mark, BundleAfter, AfterWindow, out
  <2>2. CASE DeadlineWaits
    BY <2>2 DEF DeadlineWaits, control, cloud, out
  <2> QED BY <1>5, <2>1, <2>2 DEF Deadline
<1>6. CASE UNCHANGED vars
  BY <1>6 DEF vars, control, watch, cloud, out
<1> QED BY <1>1, <1>2, <1>3, <1>4, <1>5, <1>6 DEF Next, Thread, Over

\* An exception that leaves the window, or that a task swallows, loses sight of no runtime.
LEMMA CutSurvivors ==
    ASSUME TypeOK, SurvivorInv, fate' = Orphaned, pc \in TryPoints,
           pc' \in TryPoints \union {"reconcile", "teardown"}, pc' = "teardown" => ~req.provisioning,
           UNCHANGED <<req, booked, handle, lazy, residual, displaced>>
    PROVE  SurvivorInv'
<1>1. pc' \notin {"closed", "score", "persist", "finish", "book"}
  BY DEF TryPoints
<1>2. \A r \in Runtimes : fate'[r] = "live" => fate[r] = "live"
  BY CutEffect
<1>3. \A r \in Runtimes : fate'[r] # "creating"
  BY CutEffect
<1> QED
  BY <1>1, <1>2, <1>3, CutEffect DEF SurvivorInv

\* A provision loses sight of no runtime: the one it creates takes the transport's place,
\* and the one that had it is displaced.
LEMMA ProvisionSurvivors ==
    ASSUME TypeOK, CallInv, SurvivorInv, Provision
    PROVE  SurvivorInv'
<1> USE DEF SurvivorInv
<1>1. pc = "execute" /\ pc' = "execute" /\ UNCHANGED <<req, residual>>
  BY ProvisionEffect DEF control
<1>2. req.provisioning
  <2>1. Calls # {} \/ BeginProvision
    BY DEF Provision, CreateRuntime, CreateRefused, CreateReturns, CreateFails, Provisioning,
        Calls
  <2> QED
    BY <2>1 DEF BeginProvision
<1>3. CASE BeginProvision
  <2>1. /\ \A r \in Runtimes : fate'[r] = fate[r] \/ fate'[r] = "wanted"
        /\ UNCHANGED <<booked, handle, lazy, displaced>>
    BY <1>3 DEF BeginProvision, TypeOK, CloudOK
  <2> QED
    BY <1>1, <1>2, <2>1 DEF TryPoints
<1>4. CASE CreateRuntime
  <2>1. PICK r \in Runtimes : /\ fate[r] = "wanted" /\ fate' = [fate EXCEPT ![r] = "creating"]
                              /\ handle' = r
    BY <1>4 DEF CreateRuntime, Provisioning
  <2>2. fate'[r] = "creating" /\ \A q \in Runtimes : q # r => fate'[q] = fate[q]
    BY <2>1 DEF TypeOK, CloudOK
  <2>3. /\ UNCHANGED <<booked, lazy>>
        /\ \A q \in Runtimes : q \in displaced \/ q = handle => q \in displaced'
    BY <1>4, NoRuntimeAssumption DEF CreateRuntime
  <2> QED
    BY <1>1, <1>2, <2>1, <2>2, <2>3 DEF TryPoints
<1>5. CASE CreateRefused \/ CreateFails
  <2>1. /\ \A r \in Runtimes : fate'[r] = fate[r] \/ fate'[r] \in {"refused", "aborted"}
        /\ UNCHANGED <<booked, handle, lazy, displaced>>
    BY <1>5 DEF CreateRefused, CreateFails, Provisioning, Returned, TypeOK, CloudOK
  <2> QED
    BY <1>1, <1>2, <2>1 DEF TryPoints
<1>6. CASE CreateReturns
  <2>1. PICK r \in Runtimes : /\ fate[r] = "creating" /\ fate' = [fate EXCEPT ![r] = "live"]
                              /\ booked' = IF inflight = "explicit" THEN booked \union {r} ELSE booked
    BY <1>6 DEF CreateReturns, Provisioning, Returned
  <2>2. fate'[r] = "live" /\ \A q \in Runtimes : q # r => fate'[q] = fate[q]
    BY <2>1 DEF TypeOK, CloudOK
  <2>3. lazy' = (lazy \/ inflight = "lazy") /\ UNCHANGED <<handle, displaced>>
    BY <1>6 DEF CreateReturns
  <2>4. inflight \in {"explicit", "lazy"}
    BY <2>1 DEF CallInv, Calls, TypeOK, CloudOK
  <2>5. lazy => lazy'
    BY <2>3
  <2>6. r \in booked' \/ (lazy' /\ handle' = r) \/ r \in displaced'
    BY <2>1, <2>3, <2>4
  <2> QED
    BY <1>1, <1>2, <2>1, <2>2, <2>3, <2>5, <2>6 DEF TryPoints
<1> QED
  BY <1>3, <1>4, <1>5, <1>6 DEF Provision

\* A live runtime passes from the ledger or the transport's hands to the report: no step
\* of reconciliation or teardown loses sight of it.
LEMMA SurvivorStep ==
    ASSUME TypeOK, CallInv, GateInv, SurvivorInv, RecordInv, [Next]_vars
    PROVE  SurvivorInv'
<1> USE DEF TypeOK, ControlOK, Request, Points, Gates, TryPoints, Stages, Outcomes, WatchOK,
    CloudOK, Fates, OutOK, Statuses, SurvivorInv, RecordInv
<1>1. CASE Gate
  <2>1. pc \in Gates /\ UNCHANGED <<req, cloud>>
        /\ pc' \in Gates \union {"preSetup", "persist", "done"}
    BY <1>1 DEF Gate, ResolveRefused, Resolved, Proceed, PrepareFails, RefuseWithError, RecordAs,
        Prepared, PreflightFails, PreflightPasses, DescribeFails, Described, LiveGateRefuses,
        RefuseSetup, LiveGateOpens, BudgetGateRefuses, OpenWindow
  <2>2. \A r \in Runtimes : fate[r] \in {"absent", "wanted", "refused"}
    BY <2>1 DEF GateInv, Spent, Created
  <2>3. InCloud = {} /\ InCloud' = {}
    BY <2>1, <2>2 DEF InCloud, Created, cloud
  <2> QED
    BY <2>1, <2>2, <2>3, FateFrame DEF cloud
<1>2. CASE Window
  <2>1. CASE Cancelled
    BY <2>1, FailEffect, CutSurvivors DEF Cancelled, CheckPoint, AfterWindow
  <2>2. CASE NotCancelled
    BY <2>2, FateFrame DEF NotCancelled, CheckPoint, cloud, out
  <2>3. CASE CancelledInside
    BY <2>3, FailEffect, CutSurvivors DEF CancelledInside, AfterWindow
  <2>4. CASE Setup
    BY <2>4, FateFrame DEF Setup, StageOk, Mark, watch, cloud, out
  <2>5. CASE Execute
    BY <2>5, FateFrame DEF Execute, StageOk, Mark, watch, cloud, out
  <2>6. CASE Seal
    BY <2>6, FateFrame DEF Seal, StageOk, Mark, watch, cloud, out
  <2>7. CASE LeaveWindow
    BY <2>7, FateFrame DEF LeaveWindow, AfterWindow, out
  <2>8. CASE TaskFails
    BY <2>8, FailEffect, CutSurvivors DEF TaskFails, AfterWindow
  <2>9. CASE StageCrashes
    BY <2>9, FailEffect, CutSurvivors DEF StageCrashes, AfterWindow
  <2>10. CASE Provision
    BY <2>10, ProvisionSurvivors
  <2>11. CASE TaskDeprovisions
    <3>1. PICK r \in booked : Deprovisioned(r)
      BY <2>11 DEF TaskDeprovisions
    <3>2. pc = "execute" /\ UNCHANGED <<pc, req, residual, displaced, errors>>
      BY <2>11 DEF TaskDeprovisions, control
    <3>3. req.provisioning
      BY <3>1
    <3> QED
      BY <3>1, <3>2, <3>3, DestroyedEffect DEF Deprovisioned
  <2> QED BY <1>2, <2>1, <2>2, <2>3, <2>4, <2>5, <2>6, <2>7, <2>8, <2>9, <2>10, <2>11 DEF Window
<1>3. CASE Closing
  <2>1. CASE ReconcileOne
    <3>1. PICK r \in todo :
             \/ Deprovisioned(r) /\ reclaimed' = reclaimed \union {r}
             \/ UNCHANGED <<fate, handle, lazy, booked, reclaimed>>
      BY <2>1 DEF ReconcileOne
    <3>2. pc = "reconcile" /\ UNCHANGED <<pc, req, residual, displaced, errors>>
      BY <2>1 DEF ReconcileOne, control
    <3>3. CASE Deprovisioned(r)
      <4>1. req.provisioning
        BY <3>1 DEF CallInv, Spent
      <4> QED
        BY <3>2, <3>3, <4>1, DestroyedEffect DEF Deprovisioned
    <3>4. CASE UNCHANGED <<fate, handle, lazy, booked, reclaimed>>
      BY <3>2, <3>4, FateFrame
    <3> QED
      BY <3>1, <3>3, <3>4
  <2>2. CASE Reconciled
    BY <2>2, FateFrame DEF Reconciled, StillThere, watch, out
  <2>3. CASE ReconcileFails
    BY <2>3, FateFrame DEF ReconcileFails, watch, out
  <2>4. CASE Teardown
    <3>1. /\ pc = "teardown" /\ pc' = "closed" /\ StopTransport
          /\ UNCHANGED <<req, booked, inflight, residual, displaced, errors>>
      BY <2>4 DEF Teardown
    <3>2. lazy' = FALSE /\ \A r \in Runtimes :
             fate'[r] = fate[r] \/ (r = handle /\ fate'[r] \in {"deleted", "lingering", "stranded"})
      BY <3>1, StopEffect
    <3>3. lazy => fate'[handle] # "live"
      BY <3>1, StopEffect
    <3>4. \A r \in Runtimes : fate'[r] = "live" => r \in booked \/ r \in displaced
      BY <3>1, <3>2, <3>3
    <3>5. Calls = {} /\ \A r \in Runtimes : fate[r] \notin {"wanted", "creating"}
      BY <3>1 DEF CallInv, Calls
    <3>6. Calls' = {} /\ \A r \in Runtimes : fate'[r] # "creating"
      BY <3>2, <3>5 DEF Calls
    <3>7. Created' = Created
      BY <3>1, <3>5, CreatedStep
    <3>8. \A r \in InCloud' : r \in Runtimes
      BY DEF InCloud, Created
    <3> QED
      BY <3>1, <3>2, <3>4, <3>6, <3>7, <3>8 DEF Spent
  <2>5. CASE TeardownFails
    BY <2>5, FateFrame DEF TeardownFails, Mark, watch, cloud, out
  <2>6. CASE CloseInterrupted
    BY <2>6, FateFrame DEF CloseInterrupted, Mark, RecordAs, watch, cloud
  <2>7. CASE SkipScore
    BY <2>7, FateFrame DEF SkipScore, Mark, RecordAs, StatusFor, InvalidStages, FatalStages,
        watch, cloud
  <2>8. CASE StartScore
    BY <2>8, FateFrame DEF StartScore, watch, cloud, out
  <2>9. CASE Score
    BY <2>9, FateFrame DEF Score, Mark, RecordAs, StatusFor, InvalidStages, FatalStages, watch,
        cloud
  <2>10. CASE ScoreFails
    BY <2>10, FateFrame DEF ScoreFails, Mark, RecordAs, StatusFor, InvalidStages, FatalStages,
        watch, cloud
  <2>11. CASE Persist
    BY <2>11, FateFrame DEF Persist, watch, cloud
  <2>12. CASE PersistRaises
    BY <2>12, FateFrame DEF PersistRaises, watch, cloud
  <2>13. CASE FinishRow
    BY <2>13, FateFrame DEF FinishRow, watch, cloud
  <2>14. CASE BookCost
    BY <2>14, FateFrame DEF BookCost, watch, cloud
  <2> QED BY <1>3, <2>1, <2>2, <2>3, <2>4, <2>5, <2>6, <2>7, <2>8, <2>9, <2>10, <2>11, <2>12,
      <2>13, <2>14 DEF Closing
<1>4. CASE Environment
  <2>1. CASE Hang
    BY <2>1, FateFrame DEF Hang, control, cloud, out
  <2>2. CASE DeadlineSwallowed
    BY <2>2, CutSurvivors DEF DeadlineSwallowed, control, out
  <2>3. CASE RequestCancel
    BY <2>3, FateFrame DEF RequestCancel, control, cloud, out
  <2>4. CASE SignalInWindow
    BY <2>4, FailEffect, CutSurvivors DEF SignalInWindow, AfterWindow
  <2>5. CASE SignalElsewhere
    BY <2>5, FateFrame DEF SignalElsewhere, Signalled, cloud
  <2> QED BY <1>4, <2>1, <2>2, <2>3, <2>4, <2>5 DEF Environment
<1>5. CASE Deadline
  <2>1. CASE DeadlineCuts
    BY <2>1, FailEffect, CutSurvivors DEF DeadlineCuts, AfterWindow
  <2>2. CASE DeadlineWaits
    BY <2>2, FateFrame DEF DeadlineWaits, control, cloud, out
  <2> QED BY <1>5, <2>1, <2>2 DEF Deadline
<1>6. CASE UNCHANGED vars
  BY <1>6, FateFrame DEF vars, control, watch, cloud, out
<1> QED BY <1>1, <1>2, <1>3, <1>4, <1>5, <1>6 DEF Next, Thread, Over

\* The report a record is written with already accounts for every runtime that is left.
LEMMA ReportStep ==
    ASSUME TypeOK, SurvivorInv, SurvivorsAreReported, RecordInv, [Next]_vars
    PROVE  SurvivorsAreReported'
<1>1. CASE Persist
  <2>1. UNCHANGED <<fate, booked, residual, displaced, errors>> /\ pc = "persist"
    BY <1>1 DEF Persist, cloud
  <2>2. InCloud' = InCloud
    BY <2>1, FateFrame
  <2> QED
    BY <2>1, <2>2 DEF SurvivorInv, SurvivorsAreReported
<1>2. CASE UNCHANGED <<record, fate, booked, residual, displaced, errors>>
  <2>1. InCloud' = InCloud
    BY <1>2, FateFrame
  <2> QED
    BY <1>2, <2>1 DEF SurvivorsAreReported
<1>3. CASE record' = "none"
  BY <1>3 DEF SurvivorsAreReported
<1>4. record = "none" \/ pc \in {"finish", "book", "done"}
  BY DEF RecordInv
<1>5. CASE Gate
  BY <1>3, <1>4, <1>5 DEF Gate, ResolveRefused, Resolved, Proceed, out, PrepareFails,
      RefuseWithError, Prepared, PreflightFails, PreflightPasses, DescribeFails, Described,
      LiveGateRefuses, RefuseSetup, LiveGateOpens, BudgetGateRefuses, OpenWindow
<1>6. CASE Window
  BY <1>3, <1>4, <1>6, ProvisionEffect, FailEffect DEF Window, Cancelled, CheckPoint,
      NotCancelled, CancelledInside, Setup, StageOk, Execute, Seal, LeaveWindow, TaskFails,
      StageCrashes, TaskDeprovisions, out
<1>7. CASE Closing
  BY <1>1, <1>2, <1>3, <1>4, <1>7 DEF Closing, ReconcileOne, Reconciled, ReconcileFails,
      Teardown, TeardownFails, CloseInterrupted, SkipScore, StartScore, Score, ScoreFails,
      PersistRaises, FinishRow, BookCost, cloud, out
<1>8. CASE Environment
  <2>1. CASE Hang \/ RequestCancel
    BY <1>2, <2>1 DEF Hang, RequestCancel, control, cloud, out
  <2>2. CASE DeadlineSwallowed \/ SignalInWindow
    <3>1. record = "none"
      BY <1>4, <2>2 DEF DeadlineSwallowed, SignalInWindow, TryPoints
    <3>2. record' = record
      BY <2>2, FailEffect, Zenon DEF DeadlineSwallowed, SignalInWindow, out
    <3> QED
      BY <1>3, <3>1, <3>2
  <2>3. CASE SignalElsewhere
    BY <1>2, <2>3 DEF SignalElsewhere, cloud
  <2> QED
    BY <1>8, <2>1, <2>2, <2>3 DEF Environment
<1>9. CASE Deadline
  <2>1. CASE DeadlineCuts
    <3>1. record = "none"
      BY <1>4, <2>1 DEF DeadlineCuts, TryPoints
    <3>2. record' = record
      BY <2>1, FailEffect, Zenon DEF DeadlineCuts, out
    <3> QED
      BY <1>3, <3>1, <3>2
  <2>2. CASE DeadlineWaits
    BY <1>2, <2>2 DEF DeadlineWaits, control, cloud, out
  <2> QED
    BY <1>9, <2>1, <2>2 DEF Deadline
<1>10. CASE UNCHANGED vars
  BY <1>2, <1>10 DEF vars, control, cloud, out
<1> QED
  BY <1>5, <1>6, <1>7, <1>8, <1>9, <1>10 DEF Next, Thread, Over

----------------------------------------------------------------------------
(* The invariant, and the properties it implies.                           *)

\* A run starts with nothing decided and nothing created.
LEMMA InitInv == Init => Inv
<1> SUFFICES ASSUME Init PROVE Inv
    OBVIOUS
<1> USE DEF Init
<1>1. TypeOK
  <2>1. ControlOK
    BY DEF ControlOK, Points, Gates, Stages, Outcomes
  <2>2. WatchOK
    <3>1. signals \in 0 .. MaxSignals
      BY MaxSignalsAssumption
    <3> QED
      BY <3>1, Zenon DEF WatchOK
  <2>3. CloudOK /\ OutOK
    BY DEF CloudOK, OutOK, Fates, Statuses
  <2> QED
    BY <2>1, <2>2, <2>3 DEF TypeOK
<1>2. CallInv /\ StageInv /\ ClosingInv /\ RecordInv /\ VerdictInv
  BY NoRuntimeAssumption
     DEF CallInv, StageInv, ClosingInv, RecordInv, VerdictInv, Gates, TryPoints, Measured, Stages,
         Calls, NoPool
<1>3. GateInv /\ DeadlineSparesTeardown /\ OneCulprit
  BY DEF GateInv, DeadlineSparesTeardown, OneCulprit, Spent, Created, Gates, TryPoints, Stages
<1>4. TeardownInv /\ TeardownUnlessCut /\ SurvivorInv /\ SurvivorsAreReported
  BY DEF TeardownInv, TeardownUnlessCut, SurvivorInv, SurvivorsAreReported, Spent, TryPoints,
         Created, Calls
<1> QED
  BY <1>1, <1>2, <1>3, <1>4 DEF Inv

\* Every step of the run, its deadline or its environment preserves every part.
LEMMA NextInv == Inv /\ [Next]_vars => Inv'
<1> SUFFICES ASSUME Inv, [Next]_vars PROVE Inv'
    OBVIOUS
<1> USE DEF Inv
<1>1. TypeOK'
  BY ControlStep, WatchStep, CloudStep, OutStep DEF TypeOK
<1>2. CallInv' /\ StageInv' /\ ClosingInv' /\ RecordInv' /\ VerdictInv' /\ GateInv'
  BY CallStep, StageStep, ClosingStep, RecordStep, VerdictStep, GateStep
<1>3. DeadlineSparesTeardown' /\ OneCulprit' /\ TeardownInv' /\ TeardownUnlessCut'
  BY AlarmStep, CulpritStep, TeardownStep, CutStep
<1>4. SurvivorInv' /\ SurvivorsAreReported'
  BY SurvivorStep, ReportStep
<1> QED
  BY <1>1, <1>2, <1>3, <1>4

\* Inv holds in every state of every run, whatever fails, hangs or is signalled.
THEOREM Invariance == Spec => []Inv
  BY InitInv, NextInv, PTL DEF Spec

\* The type invariant of the run, for every set of runtimes.
THEOREM TypeCorrect == Spec => []TypeOK
<1>1. Inv => TypeOK
  BY DEF Inv
<1> QED
  BY <1>1, Invariance, PTL

\* The live gate and the budget gate stand before every create call of execute(), and no
\* run that created something is recorded as `invalid`.
THEOREM SpendingIsGated == Spec => []GatesGuardSpending
<1>1. Inv => GatesGuardSpending
  BY DEF Inv, GateInv, RecordInv, GatesGuardSpending
<1> QED
  BY <1>1, Invariance, PTL

\* A `completed` or `unsupported` record has its whole evidence behind it.
THEOREM VerdictsAreEarned == Spec => []VerdictHasEvidence
<1>1. Inv => VerdictHasEvidence
  BY DEF Inv, RecordInv, VerdictInv, VerdictHasEvidence, Complete, Measured
<1> QED
  BY <1>1, Invariance, PTL

\* _failed_stage blames one stage, the one that was under way.
THEOREM BlameIsUnique == Spec => []OneCulprit
<1>1. Inv => OneCulprit
  BY DEF Inv
<1> QED
  BY <1>1, Invariance, PTL

\* The finally block runs for every run that attempted SETUP, except when a signal ends
\* the process inside that block.
THEOREM TeardownIsReached == Spec => []TeardownUnlessCut
<1>1. Inv => TeardownUnlessCut
  BY DEF Inv
<1> QED
  BY <1>1, Invariance, PTL

\* Every runtime that outlives its run is named in its record, or is one of the four kinds
\* of exception that SurvivorsAreReported lists; nothing in the ledger is an exception.
THEOREM SurvivorsAreNamed == Spec => []SurvivorsAreReported
<1>1. Inv => SurvivorsAreReported
  BY DEF Inv
<1> QED
  BY <1>1, Invariance, PTL

\* The viewer's row never says more than the record on disk.
THEOREM RowIsTrue == Spec => []RowFollowsRecord
<1>1. Inv => RowFollowsRecord
  BY DEF Inv, RecordInv, RowFollowsRecord
<1> QED
  BY <1>1, Invariance, PTL

\* Teardown, scoring and persistence are never cut by the run's own deadline.
THEOREM TeardownIsSpared == Spec => []DeadlineSparesTeardown
<1>1. Inv => DeadlineSparesTeardown
  BY DEF Inv
<1> QED
  BY <1>1, Invariance, PTL

----------------------------------------------------------------------------
(* The run implements its contract.                                        *)

\* Where the run is, as its contract sees it, moves only as the contract says.
LEMMA PhaseStep ==
    ASSUME TypeOK, RecordInv, [Next]_vars
    PROVE  \/ Phase' = Phase
           \/ Phase = "gates" /\ Phase' \in {"closed", "window", "gone"}
           \/ Phase = "window" /\ Phase' = "closing"
           \/ Phase = "closing" /\ Phase' \in {"closed", "gone"}
           \/ Phase = "closed" /\ Phase' \in {"recorded", "gone"}
<1> USE DEF TypeOK, ControlOK, RecordInv, Phase, Points, Gates, TryPoints
<1>1. CASE Gate
  BY <1>1 DEF Gate, ResolveRefused, Resolved, PrepareFails, Prepared, PreflightFails,
      PreflightPasses, DescribeFails, Described, LiveGateRefuses, LiveGateOpens,
      BudgetGateRefuses, OpenWindow, RefuseWithError, RefuseSetup, RecordAs, Proceed, out
<1>2. CASE Window
  BY <1>2, ProvisionEffect DEF Window, Cancelled, NotCancelled, CancelledInside, Setup, Execute,
      Seal, LeaveWindow, TaskFails, StageCrashes, CreateRuntime, CreateReturns, CreateFails,
      TaskDeprovisions, CheckPoint, StageOk, Fail, AfterWindow, control, out
<1>3. CASE Closing
  BY <1>3 DEF Closing, ReconcileOne, Reconciled, ReconcileFails, Teardown, TeardownFails,
      CloseInterrupted, SkipScore, StartScore, Score, ScoreFails, Persist, PersistRaises,
      FinishRow, BookCost, RecordAs, control, out, OutOK, Statuses
<1>4. CASE Environment
  BY <1>4 DEF Environment, Hang, DeadlineSwallowed, RequestCancel, SignalInWindow,
      SignalElsewhere, Signalled, Fail, AfterWindow, control, out
<1>5. CASE Deadline
  <2>1. CASE DeadlineCuts
    BY <2>1 DEF DeadlineCuts, Fail, FailedStage, Mark, BundleAfter, AfterWindow, out
  <2>2. CASE DeadlineWaits
    BY <2>2 DEF DeadlineWaits, control, cloud, out
  <2> QED BY <1>5, <2>1, <2>2 DEF Deadline
<1>6. CASE UNCHANGED vars
  BY <1>6 DEF vars, control, out
<1> QED
  BY <1>1, <1>2, <1>3, <1>4, <1>5, <1>6 DEF Next, Thread, Over

\* A provision is entered inside the window and leaves the run there.
LEMMA SpendStep ==
    ASSUME RecordInv, Provision
    PROVE  Phase = "window" /\ Phase' = "window"
<1>1. pc = "execute" /\ pc' = "execute" /\ record = "none" /\ record' = "none"
  BY ProvisionEffect DEF RecordInv, control, out
<1> QED
  BY <1>1 DEF Phase, Gates, TryPoints

\* execute() with its gates, its window, its finally block and its one exit path is an
\* implementation of RunContract.
THEOREM ContractImplemented == Spec => ImplementsContract
<1>1. Init => Contract!Init
  <2> SUFFICES ASSUME Init PROVE Contract!Init
    OBVIOUS
  <2>1. pc = "resolve" /\ record = "none"
    BY DEF Init
  <2>2. \A r \in Runtimes : fate[r] = "absent"
    BY DEF Init
  <2>3. Created = {}
    BY <2>2 DEF Created
  <2> QED
    BY <2>1, <2>3 DEF Contract!Init, Phase, Gates, TryPoints
<1>2. Inv /\ [Next]_vars => [Contract!Next]_(Contract!vars)
  <2> SUFFICES ASSUME Inv, [Next]_vars PROVE [Contract!Next]_(Contract!vars)
    OBVIOUS
  <2> USE DEF Contract!Next, Contract!Refuse, Contract!Open, Contract!Spend,
          Contract!Leave, Contract!Teardown, Contract!Record, Contract!Vanish, Contract!vars
  <2>1. CASE Created' = Created
    BY <2>1, PhaseStep DEF Inv
  <2>2. CASE Provision /\ \E r \in Runtimes \ Created : Created' = Created \union {r}
    BY <2>2, SpendStep DEF Inv
  <2>3. Calls \subseteq Runtimes
    BY DEF Calls
  <2> QED
    BY <2>1, <2>2, <2>3, CreatedStep DEF Inv
<1> QED
  BY <1>1, <1>2, Invariance, PTL DEF Spec, ImplementsContract, Contract!Spec
=============================================================================
