--------------------------- MODULE CampaignProofs ---------------------------
(***************************************************************************)
(* Proofs about Campaign for any plan and any number of faults: the        *)
(* inductive invariant CampaignInv, and from it that what a campaign       *)
(* leaves on the blob store and in the cloud is what CampaignKeepsFaith    *)
(* says, and that its marker is final.                                     *)
(***************************************************************************)
EXTENDS Campaign, FiniteSetTheorems, TLAPS

USE PlanLengthAssumption, MaxRuntimesAssumption, MaxFaultsAssumption

States == {"pending", "running", "completed", "failed"}
Ended == {"completed", "failed"}

\* An execution is under way: it has been marked running, and i is its number.
Busy == {"running", "task", "creating", "result", "sidecar", "ledger", "publish"}
Unfinished == {"running", "task", "creating", "result", "sidecar"}

\* Every variable has its type.
TypeOK ==
    /\ plan \in [Executions -> TaskIds]
    /\ process \in {"boot", "claimed", "running", "ended"}
    /\ ctl \in Busy \cup {"off", "launch", "next", "done", "ended", "died"}
    /\ i \in 1 .. PlanLength + 1 /\ (ctl \in Busy => i \in Executions)
    /\ manifest \in [Executions -> States] /\ status \in [Executions -> States \cup {"absent"}]
    /\ results \in [Executions -> {"none", "json", "both"}]
    /\ failed \in BOOLEAN
    /\ dog \in {"off", "poll", "runtimes", "self", "out"}
    /\ reason \in {"none", "done", "timeout", "stop"}
    /\ marker \in {"none", "DONE", "FAILED"}
    /\ stop \in BOOLEAN /\ laptop \in {"away", "delete", "destroy", "over"}
    /\ box \in {"up", "destroyed", "self-destructed"}
    /\ faults \in Nat /\ made \in Nat

\* Who runs, and what the marker, the stop sentinel and the reaper say of it.
OrderInv ==
    /\ process \in {"boot", "claimed"} => ctl = "off" /\ dog = "off" /\ reason = "none"
    /\ ctl = "off" => process # "running"
    /\ (marker # "none") <=> (ctl = "ended")
    /\ stop <=> laptop # "away"
    /\ dog = "poll" => reason = "none"
    /\ reason = "done" => marker # "none"
    /\ dog = "self" => todo = {}
    /\ box = "self-destructed" => todo = {} /\ process = "ended"

\* The manifest in memory, its copy on the store, and the results they speak of: nothing
\* from the current execution on is claimed to have ended.
ManifestInv ==
    Distinct =>
        /\ \A n \in Executions : n > i => manifest[n] = "pending"
        /\ i \in Executions =>
              /\ ctl \in {"off", "launch", "next"} => manifest[i] = "pending"
              /\ ctl \in Unfinished => manifest[i] = "running"
        /\ \A n \in Executions : n >= i => status[n] \notin Ended
        /\ \A n \in Executions :
              "completed" \in {manifest[n], status[n]} => results[n] = "both"
        /\ failed <=> \E n \in Executions : manifest[n] = "failed"
        /\ ctl \in {"next", "done", "ended"} => status = manifest
        /\ marker # "none" => marker = IF failed THEN "FAILED" ELSE "DONE"

\* The transport of a task knows a runtime of this task, and between two tasks there is
\* none.
HandleInv ==
    handle # None => handle[1] = i /\ ctl \in {"task", "creating", "died"}

\* Where a runtime that somebody owes is known from: the ledger, or the transport.
KnownInv == \A r \in Owed : r \in ledger \/ (r = handle /\ handle # None)

\* The reaper of a finished campaign has all that is left on its list.
ReaperInv ==
    /\ reason = "done" /\ (dog \in {"runtimes", "self"} \/ box = "self-destructed") =>
          Owed \subseteq todo
    /\ dog = "self" \/ box = "self-destructed" => (nat => faults > 0)

\* The copy of the ledger lacks the current execution's runtimes at most, and when it has
\* been used no execution follows the current one.
LaptopInv ==
    /\ laptop \in {"away", "delete"} =>
          \A r \in Owed :
              \/ r \in synced
              \/ r[1] = i /\ ctl \in {"task", "creating", "result", "sidecar", "ledger", "died"}
    /\ laptop \in {"destroy", "over"} =>
          \E m \in Nat : (\A r \in Owed : r[1] = m) /\ (ctl \in Busy => m = i)

CampaignInv == TypeOK /\ OrderInv /\ ManifestInv /\ HandleInv /\ KnownInv /\ ReaperInv
               /\ LaptopInv

----------------------------------------------------------------------------
(* The manifest.                                                           *)

\* In a plan without repeated task ids every execution has its own entry.
LEMMA EntryIsOwn ==
    ASSUME Distinct, NEW n \in Executions
    PROVE  EntryOf(n) = n
<1>1. \A l \in 1 .. n - 1 : l \in Executions /\ l # n
  BY DEF Executions
<1>2. \A l \in 1 .. n - 1 : plan[l] # plan[n]
  BY <1>1 DEF Distinct
<1> QED
  BY <1>2 DEF EntryOf, Distinct

\* Marking an entry gives a manifest.
LEMMA MarkType ==
    ASSUME manifest \in [Executions -> States], NEW st \in States, Mark(st)
    PROVE  manifest' \in [Executions -> States]
BY DEF Mark

\* Marking the current execution of a plan without repeated ids changes its entry only.
LEMMA MarkEffect ==
    ASSUME TypeOK, Distinct, i \in Executions, NEW st, Mark(st)
    PROVE  /\ manifest'[i] = st
           /\ \A n \in Executions : n # i => manifest'[n] = manifest[n]
BY EntryIsOwn DEF Mark, TypeOK

\* A step that touches neither the manifest nor what it speaks of, and that takes the
\* thread nowhere, or from one point to another of the same task, or to its death.
LEMMA ManifestRests ==
    ASSUME ManifestInv, UNCHANGED <<plan, i, manifest, failed, status, results, marker>>,
           \/ ctl' = ctl \/ ctl' = "died"
           \/ ctl = "off" /\ ctl' = "launch"
           \/ ctl \in Unfinished /\ ctl' \in Unfinished
           \/ ctl = "next" /\ ctl' = "done"
           \/ ctl = "ledger" /\ ctl' = "publish"
    PROVE  ManifestInv'
<1> SUFFICES ASSUME Distinct PROVE ManifestInv'
  BY DEF ManifestInv, Distinct
<1> QED
  BY DEF ManifestInv, Unfinished

\* A task that fails, wherever it was.
LEMMA ManifestOfFailure ==
    ASSUME TypeOK, ManifestInv, OrderInv, ctl \in Unfinished, ctl' = "ledger",
           Mark("failed"), failed' = TRUE,
           UNCHANGED <<plan, i, status, results, marker>>
    PROVE  ManifestInv'
<1> SUFFICES ASSUME Distinct PROVE ManifestInv'
  BY DEF ManifestInv, Distinct
<1>1. i \in Executions /\ marker = "none"
  BY DEF TypeOK, OrderInv, Unfinished, Busy
<1>2. manifest'[i] = "failed" /\ \A n \in Executions : n # i => manifest'[n] = manifest[n]
  BY <1>1, MarkEffect
<1> QED
  BY <1>1, <1>2 DEF ManifestInv, Unfinished, Executions

\* ManifestInv is kept by every step.
LEMMA ManifestStep ==
    ASSUME TypeOK, OrderInv, ManifestInv, Next
    PROVE  ManifestInv'
<1> USE DEF thread, watch, blobs, At, Goto
<1>1. CASE Main \/ Laptop \/ Watchdog \/ Timeout \/ ProcessDies \/ Over
  <2>1. /\ UNCHANGED <<plan, i, manifest, failed, status, results, marker>>
        /\ ctl' = ctl \/ ctl' = "died" \/ (ctl = "off" /\ ctl' = "launch")
    BY <1>1 DEF Main, Claim, Start, Laptop, SignalStop, DeleteResidual, Destroy, Watchdog,
         Terminal, ReapRuntime, ReapNat, ReapSelf, Unarmed, Timeout, ProcessDies, Over, Ends,
         OrderInv, vars
  <2> QED
    BY <2>1, ManifestRests
<1>2. CASE CreateRuntime \/ BookRuntime \/ LazyCreate \/ LazyCreateFails \/ SyncLedger
        \/ ThreadDies
  BY <1>2, ManifestRests DEF CreateRuntime, LazyCreate, LazyCreateFails, BookRuntime,
      SyncLedger, ThreadDies, Unfinished
<1>3. CASE CreateFails \/ ResultFails
  BY <1>3, ManifestOfFailure DEF CreateFails, ResultFails, Unfinished
<1>4. CASE TaskEnds
  <2>1. CASE ctl' = "result" /\ UNCHANGED <<manifest, failed>>
    BY <1>4, <2>1, ManifestRests DEF TaskEnds, Unfinished
  <2>2. CASE ctl' = "ledger" /\ Mark("failed") /\ failed' = TRUE
    BY <1>4, <2>2, ManifestOfFailure DEF TaskEnds, Unfinished
  <2> QED
    BY <1>4, <2>1, <2>2 DEF TaskEnds
<1> SUFFICES ASSUME Distinct, Launch \/ NextTask \/ PublishRunning \/ WriteResult
                              \/ WriteSidecar \/ PublishEnded \/ WriteDone
             PROVE  ManifestInv'
  <2>1. Distinct' => Distinct
    BY <1>1, <1>2, <1>3, <1>4 DEF Next, Controller, Distinct, Main, Claim, Start, Laptop,
        SignalStop, DeleteResidual, Destroy, Watchdog, Terminal, ReapRuntime, ReapNat, ReapSelf,
        Unarmed, Timeout, ProcessDies, Over, vars, Launch, NextTask, PublishRunning,
        CreateRuntime, BookRuntime, LazyCreate, LazyCreateFails, TaskEnds, CreateFails,
        WriteResult, WriteSidecar, ResultFails, SyncLedger, PublishEnded, WriteDone, ThreadDies
  <2> QED
    BY <1>1, <1>2, <1>3, <1>4, <2>1 DEF Next, Controller, ManifestInv
<1> USE DEF TypeOK, OrderInv
<1>5. CASE Launch
  BY <1>5 DEF Launch, ManifestInv, Unfinished, Ended, Executions, Busy
<1>6. CASE NextTask
  <2>1. CASE ctl' = "done"
    BY <1>6, <2>1, ManifestRests DEF NextTask
  <2>2. CASE i \in Executions /\ ctl' = "running" /\ Mark("running")
    <3>1. manifest'[i] = "running" /\ \A n \in Executions : n # i => manifest'[n] = manifest[n]
      BY <2>2, MarkEffect
    <3> QED
      BY <1>6, <2>2, <3>1 DEF NextTask, ManifestInv, Unfinished, Executions
  <2> QED
    BY <1>6, <2>1, <2>2 DEF NextTask, Executions
<1>7. CASE PublishRunning
  BY <1>7 DEF PublishRunning, ManifestInv, Unfinished, Ended, Executions, Busy
<1>8. CASE WriteResult
  BY <1>8 DEF WriteResult, ManifestInv, Unfinished, Ended, Executions, Busy
<1>9. CASE WriteSidecar
  <2>1. i \in Executions
    BY <1>9 DEF WriteSidecar, Busy
  <2>2. manifest'[i] = "completed" /\ \A n \in Executions : n # i => manifest'[n] = manifest[n]
    BY <1>9, <2>1, MarkEffect DEF WriteSidecar
  <2> QED
    BY <1>9, <2>1, <2>2 DEF WriteSidecar, ManifestInv, Unfinished, Ended, Executions
<1>10. CASE PublishEnded
  BY <1>10 DEF PublishEnded, ManifestInv, Unfinished, Ended, Executions, Busy
<1>11. CASE WriteDone
  BY <1>11 DEF WriteDone, ManifestInv, Unfinished
<1> QED
  BY <1>5, <1>6, <1>7, <1>8, <1>9, <1>10, <1>11

----------------------------------------------------------------------------
(* The other conjuncts, action by action.                                  *)

\* Types are kept by every step.
LEMMA TypeStep ==
    ASSUME TypeOK, Next
    PROVE  TypeOK'
<1> USE DEF TypeOK, vars, thread, watch, blobs, cloud, pool, Running, Fault, At, Goto, Ends, Busy
<1>1. CASE Main
  BY <1>1 DEF Main, Claim, Start
<1>2. CASE ProcessDies
  BY <1>2 DEF ProcessDies
<1>3. CASE Timeout
  BY <1>3 DEF Timeout
<1>4. CASE Launch
  BY <1>4 DEF Launch
<1>5. CASE NextTask
  BY <1>5, MarkType DEF NextTask, States, Executions
<1>6. CASE PublishRunning
  BY <1>6 DEF PublishRunning
<1>7. CASE CreateRuntime
  BY <1>7 DEF CreateRuntime
<1>8. CASE BookRuntime
  BY <1>8 DEF BookRuntime
<1>9. CASE TaskEnds
  <2>1. manifest' \in [Executions -> States]
    BY <1>9, MarkType DEF TaskEnds, States
  <2>2. failed' \in BOOLEAN /\ ctl' \in {"result", "ledger"}
    BY <1>9 DEF TaskEnds
  <2>3. faults' \in Nat
    BY <1>9 DEF TaskEnds
  <2>4. /\ i \in Executions /\ UNCHANGED <<process, i, watch, plan, blobs, nat, box,
                                           laptop>> /\ made' = 0
    BY <1>9 DEF TaskEnds
  <2> QED
    BY <2>1, <2>2, <2>3, <2>4
<1>10. CASE CreateFails
  BY <1>10, MarkType DEF CreateFails, States
<1>11. CASE WriteResult
  BY <1>11 DEF WriteResult
<1>12. CASE WriteSidecar
  BY <1>12, MarkType DEF WriteSidecar, States
<1>13. CASE ResultFails
  BY <1>13, MarkType DEF ResultFails, States
<1>14. CASE SyncLedger
  BY <1>14 DEF SyncLedger
<1>15. CASE PublishEnded
  BY <1>15 DEF PublishEnded, Executions
<1>16. CASE WriteDone
  BY <1>16 DEF WriteDone
<1>17. CASE ThreadDies
  BY <1>17 DEF ThreadDies
<1>18. CASE Watchdog
  BY <1>18 DEF Watchdog, Terminal, ReapRuntime, ReapNat, ReapSelf, Unarmed
<1>19. CASE Laptop
  <2>1. CASE SignalStop
    BY <2>1 DEF SignalStop
  <2>2. CASE DeleteResidual
    <3>1. faults' \in Nat
      BY <2>2 DEF DeleteResidual
    <3> QED
      BY <2>2, <3>1 DEF DeleteResidual
  <2>3. CASE Destroy
    BY <2>3 DEF Destroy
  <2> QED
    BY <1>19, <2>1, <2>2, <2>3 DEF Laptop
<1>20. CASE Over
  BY <1>20 DEF Over
<1>21. CASE LazyCreate \/ LazyCreateFails
  BY <1>21 DEF LazyCreate, LazyCreateFails
<1> QED
  BY <1>1, <1>2, <1>3, <1>4, <1>5, <1>6, <1>7, <1>8, <1>9, <1>10, <1>11, <1>12, <1>13, <1>14,
       <1>15, <1>16, <1>17, <1>18, <1>19, <1>20, <1>21 DEF Next, Controller

\* OrderInv is kept by every step.
LEMMA OrderStep ==
    ASSUME TypeOK, OrderInv, Next
    PROVE  OrderInv'
<1> USE DEF TypeOK, OrderInv, vars, thread, watch, blobs, cloud, pool, Running, Fault, At, Goto,
     Mark, Ends, Busy
<1>1. CASE Main \/ ProcessDies \/ Timeout
  BY <1>1 DEF Main, Claim, Start, ProcessDies, Timeout
<1>2. CASE Launch \/ PublishRunning \/ SyncLedger \/ PublishEnded \/ WriteDone
  BY <1>2 DEF Launch, PublishRunning, SyncLedger, PublishEnded, WriteDone
<1>3. CASE NextTask \/ ThreadDies
  BY <1>3 DEF NextTask, ThreadDies
<1>4. CASE CreateRuntime \/ BookRuntime \/ LazyCreate \/ LazyCreateFails \/ CreateFails
  BY <1>4 DEF CreateRuntime, BookRuntime, LazyCreate, LazyCreateFails, CreateFails
<1>5. CASE TaskEnds \/ WriteResult \/ WriteSidecar \/ ResultFails
  BY <1>5 DEF TaskEnds, WriteResult, WriteSidecar, ResultFails
<1>6. CASE Watchdog
  BY <1>6 DEF Watchdog, Terminal, ReapRuntime, ReapNat, ReapSelf, Unarmed
<1>7. CASE Laptop \/ Over
  BY <1>7 DEF Laptop, SignalStop, DeleteResidual, Destroy, Over
<1> QED
  BY <1>1, <1>2, <1>3, <1>4, <1>5, <1>6, <1>7 DEF Next, Controller

\* HandleInv is kept by every step.
LEMMA HandleStep ==
    ASSUME TypeOK, OrderInv, HandleInv, Next
    PROVE  HandleInv'
<1> USE DEF TypeOK, OrderInv, HandleInv, vars, thread, watch, blobs, cloud, pool, Created, None,
        Running, Fault, At,
     Goto, Mark, Ends, Busy
<1>1. CASE Main \/ ProcessDies \/ Timeout
  BY <1>1 DEF Main, Claim, Start, ProcessDies, Timeout
<1>2. CASE Launch \/ PublishRunning \/ SyncLedger \/ PublishEnded \/ WriteDone
  BY <1>2 DEF Launch, PublishRunning, SyncLedger, PublishEnded, WriteDone
<1>3. CASE NextTask \/ ThreadDies
  BY <1>3 DEF NextTask, ThreadDies
<1>4. CASE CreateRuntime \/ BookRuntime \/ LazyCreate \/ LazyCreateFails \/ CreateFails
  BY <1>4 DEF CreateRuntime, BookRuntime, LazyCreate, LazyCreateFails, CreateFails
<1>5. CASE TaskEnds \/ WriteResult \/ WriteSidecar \/ ResultFails
  BY <1>5 DEF TaskEnds, WriteResult, WriteSidecar, ResultFails
<1>6. CASE Watchdog
  BY <1>6 DEF Watchdog, Terminal, ReapRuntime, ReapNat, ReapSelf, Unarmed
<1>7. CASE Laptop \/ Over
  BY <1>7 DEF Laptop, SignalStop, DeleteResidual, Destroy, Over
<1> QED
  BY <1>1, <1>2, <1>3, <1>4, <1>5, <1>6, <1>7 DEF Next, Controller

\* A runtime has a number, and a task is one of the plan's.
LEMMA CreatedIs ==
    ASSUME TypeOK, ctl = "task"
    PROVE  \A k : Created(k) # None /\ Created(k)[1] = i
<1>1. i # 0
  BY DEF TypeOK, Executions, Busy
<1> QED
  BY <1>1 DEF Created, None

\* What is owed after a step of the task: nothing new but the runtime that its transport
\* knows then, and not the one it knew and has forgotten.
LEMMA TaskOwes ==
    ASSUME TypeOK, HandleInv
    PROVE  /\ CreateRuntime => Owed' \subseteq (Owed \ Forgotten) \cup {handle'}
           /\ LazyCreate => Owed' \subseteq Owed \cup {handle'}
           /\ LazyCreateFails => Owed' \subseteq Owed
           /\ CreateFails => Owed' \subseteq Owed \ {handle}
           /\ TaskEnds => \A r \in Owed' : r \in Owed \ Forgotten /\ (r \in ledger => r \in ledger')
<1>1. CreateRuntime => Owed' \subseteq (Owed \ Forgotten) \cup {handle'}
  BY DEF CreateRuntime, Owed
<1>2. ASSUME LazyCreate PROVE Owed' \subseteq Owed \cup {handle'}
  <2>1. PICK k \in 1 .. MaxRuntimes - made :
            /\ runtimes' = runtimes \cup {Created(j) : j \in 1 .. k}
            /\ handle' = Created(k)
            /\ displaced' = displaced \cup {Created(j) : j \in 1 .. k - 1}
    BY <1>2 DEF LazyCreate
  <2>2. \A j \in 1 .. k : j = k \/ j \in 1 .. k - 1
    BY DEF TypeOK
  <2>3. excused' = excused
    BY <1>2 DEF LazyCreate
  <2> QED
    BY <2>1, <2>2, <2>3 DEF Owed
<1>3. LazyCreateFails => Owed' \subseteq Owed
  BY DEF LazyCreateFails, Owed
<1>4. CreateFails => Owed' \subseteq Owed \ {handle}
  BY DEF CreateFails, Owed, cloud
<1>5. ASSUME TaskEnds, NEW r \in Owed'
      PROVE  r \in Owed \ Forgotten /\ (r \in ledger => r \in ledger')
  BY <1>5 DEF TaskEnds, Owed, Forgotten
<1> QED
  BY <1>1, <1>2, <1>3, <1>4, <1>5

\* KnownInv is kept by every step.
LEMMA KnownStep ==
    ASSUME TypeOK, OrderInv, HandleInv, KnownInv, Next
    PROVE  KnownInv'
<1> USE DEF TypeOK, OrderInv, HandleInv, KnownInv, vars, thread, watch, blobs, cloud, pool,
        Owed, Running, Fault, At,
     Goto, Mark, Ends, Busy
<1>1. CASE Main \/ ProcessDies \/ Timeout
  BY <1>1 DEF Main, Claim, Start, ProcessDies, Timeout
<1>2. CASE Launch \/ PublishRunning \/ SyncLedger \/ PublishEnded \/ WriteDone
  BY <1>2 DEF Launch, PublishRunning, SyncLedger, PublishEnded, WriteDone
<1>3. CASE NextTask \/ ThreadDies
  BY <1>3 DEF NextTask, ThreadDies
<1>4. CASE CreateRuntime \/ BookRuntime \/ LazyCreate \/ LazyCreateFails \/ CreateFails
  <2>1. CASE CreateRuntime
    <3>1. ledger' = ledger /\ handle' # None
      BY <2>1, CreatedIs DEF CreateRuntime
    <3> QED
      BY <2>1, <3>1, TaskOwes DEF Forgotten
  <2>2. CASE BookRuntime
    BY <2>2 DEF BookRuntime
  <2>3. CASE LazyCreate
    <3>1. ledger' = ledger /\ handle' # None /\ handle = None
      BY <2>3, CreatedIs DEF LazyCreate
    <3> QED
      BY <2>3, <3>1, TaskOwes
  <2>4. CASE LazyCreateFails
    <3>1. ledger' = ledger /\ handle = None
      BY <2>4 DEF LazyCreateFails
    <3> QED
      BY <2>4, <3>1, TaskOwes
  <2>5. CASE CreateFails
    <3>1. ledger' = ledger
      BY <2>5 DEF CreateFails
    <3> QED
      BY <2>5, <3>1, TaskOwes
  <2> QED
    BY <1>4, <2>1, <2>2, <2>3, <2>4, <2>5
<1>5. CASE TaskEnds \/ WriteResult \/ WriteSidecar \/ ResultFails
  <2>1. CASE TaskEnds
    BY <2>1, TaskOwes DEF Forgotten
  <2>2. CASE WriteResult \/ WriteSidecar \/ ResultFails
    BY <2>2 DEF WriteResult, WriteSidecar, ResultFails
  <2> QED
    BY <1>5, <2>1, <2>2
<1>6. CASE Watchdog
  BY <1>6 DEF Watchdog, Terminal, ReapRuntime, ReapNat, ReapSelf, Unarmed
<1>7. CASE Laptop \/ Over
  BY <1>7 DEF Laptop, SignalStop, DeleteResidual, Destroy, Over
<1> QED
  BY <1>1, <1>2, <1>3, <1>4, <1>5, <1>6, <1>7 DEF Next, Controller

\* ReaperInv is kept by every step.
LEMMA ReaperStep ==
    ASSUME TypeOK, OrderInv, HandleInv, KnownInv, ReaperInv, Next
    PROVE  ReaperInv'
<1> USE DEF TypeOK, OrderInv, HandleInv, KnownInv, ReaperInv, vars, thread, watch, blobs, cloud,
        pool, Owed, Running,
     Fault, At, Goto, Mark, Ends, Busy
<1>1. CASE Main \/ ProcessDies \/ Timeout
  BY <1>1 DEF Main, Claim, Start, ProcessDies, Timeout
<1>2. CASE Launch \/ PublishRunning \/ SyncLedger \/ PublishEnded \/ WriteDone
  BY <1>2 DEF Launch, PublishRunning, SyncLedger, PublishEnded, WriteDone
<1>3. CASE NextTask \/ ThreadDies
  BY <1>3 DEF NextTask, ThreadDies
<1>4. CASE CreateRuntime \/ BookRuntime \/ LazyCreate \/ LazyCreateFails \/ CreateFails
  BY <1>4 DEF CreateRuntime, BookRuntime, LazyCreate, LazyCreateFails, CreateFails
<1>5. CASE TaskEnds \/ WriteResult \/ WriteSidecar \/ ResultFails
  BY <1>5 DEF TaskEnds, WriteResult, WriteSidecar, ResultFails
<1>6. CASE Watchdog
  BY <1>6 DEF Watchdog, Terminal, ReapRuntime, ReapNat, ReapSelf, Unarmed
<1>7. CASE Laptop \/ Over
  BY <1>7 DEF Laptop, SignalStop, DeleteResidual, Destroy, Over
<1> QED
  BY <1>1, <1>2, <1>3, <1>4, <1>5, <1>6, <1>7 DEF Next, Controller

\* LaptopInv is kept by every step.
LEMMA LaptopStep ==
    ASSUME TypeOK, OrderInv, HandleInv, KnownInv, LaptopInv, Next
    PROVE  LaptopInv'
<1> USE DEF TypeOK, OrderInv, HandleInv, KnownInv, LaptopInv, vars, thread, watch, blobs, cloud,
        pool, Owed, Running,
     Fault, At, Goto, Mark, Ends, Busy
<1>1. CASE Main \/ ProcessDies \/ Timeout
  BY <1>1 DEF Main, Claim, Start, ProcessDies, Timeout
<1>2. CASE Launch \/ PublishRunning \/ SyncLedger \/ PublishEnded \/ WriteDone
  BY <1>2 DEF Launch, PublishRunning, SyncLedger, PublishEnded, WriteDone
<1>3. CASE NextTask \/ ThreadDies
  BY <1>3 DEF NextTask, ThreadDies
<1>4. CASE CreateRuntime \/ BookRuntime \/ LazyCreate \/ LazyCreateFails \/ CreateFails
  <2>1. /\ UNCHANGED <<synced, i, laptop>> /\ ctl \in {"task", "creating"}
        /\ ctl' \in {"task", "creating", "ledger"}
    BY <1>4 DEF CreateRuntime, BookRuntime, LazyCreate, LazyCreateFails, CreateFails
  <2>2. \A r \in Owed' : r \in Owed \/ r[1] = i
    <3>1. CASE CreateRuntime \/ LazyCreate
      BY <3>1, TaskOwes, CreatedIs DEF CreateRuntime, LazyCreate
    <3>2. CASE BookRuntime \/ LazyCreateFails \/ CreateFails
      BY <3>2, TaskOwes DEF BookRuntime
    <3> QED
      BY <1>4, <3>1, <3>2
  <2> HIDE DEF Owed
  <2>3. i \in Nat
    BY DEF Executions
  <2> QED
    BY <2>1, <2>2, <2>3
<1>5. CASE TaskEnds \/ WriteResult \/ WriteSidecar \/ ResultFails
  <2>1. CASE TaskEnds
    <3>1. UNCHANGED <<synced, i, laptop>> /\ ctl = "task" /\ ctl' \in {"result", "ledger"}
      BY <2>1 DEF TaskEnds
    <3>2. Owed' \subseteq Owed
      BY <2>1, TaskOwes
    <3> QED
      BY <3>1, <3>2
  <2>2. CASE WriteResult \/ WriteSidecar \/ ResultFails
    BY <2>2 DEF WriteResult, WriteSidecar, ResultFails
  <2> QED
    BY <1>5, <2>1, <2>2
<1>6. CASE Watchdog
  BY <1>6 DEF Watchdog, Terminal, ReapRuntime, ReapNat, ReapSelf, Unarmed
<1>7. CASE Laptop \/ Over
  BY <1>7 DEF Laptop, SignalStop, DeleteResidual, Destroy, Over
<1> QED
  BY <1>1, <1>2, <1>3, <1>4, <1>5, <1>6, <1>7 DEF Next, Controller

----------------------------------------------------------------------------
(* Theorems.                                                               *)

\* CampaignInv holds at first.
LEMMA InitInv ==
    Init => CampaignInv
<1> SUFFICES ASSUME Init PROVE CampaignInv
  OBVIOUS
<1> USE DEF Init
<1>1. TypeOK
  <2>1. i \in 1 .. PlanLength + 1 /\ faults \in Nat
    OBVIOUS
  <2>2. /\ plan \in [Executions -> TaskIds] /\ manifest \in [Executions -> States]
        /\ status \in [Executions -> States \cup {"absent"}]
        /\ results \in [Executions -> {"none", "json", "both"}]
    BY DEF States
  <2> QED
    BY <2>1, <2>2 DEF TypeOK, Busy
<1>2. OrderInv
  BY DEF OrderInv
<1>3. ManifestInv
  BY DEF ManifestInv, Unfinished, Ended, Executions
<1>4. HandleInv /\ KnownInv /\ ReaperInv /\ LaptopInv
  BY DEF HandleInv, KnownInv, ReaperInv, LaptopInv, Owed
<1> QED
  BY <1>1, <1>2, <1>3, <1>4 DEF CampaignInv

\* CampaignInv is inductive, for every plan and however many calls fail.
THEOREM Invariance == Spec => []CampaignInv
<1>1. CampaignInv /\ Next => CampaignInv'
  BY TypeStep, OrderStep, ManifestStep, HandleStep, KnownStep, ReaperStep, LaptopStep DEF
      CampaignInv
<1>2. CampaignInv /\ UNCHANGED vars => CampaignInv'
  <2> SUFFICES ASSUME CampaignInv, UNCHANGED vars PROVE CampaignInv'
    OBVIOUS
  <2> USE DEF vars, thread, watch, blobs, cloud, CampaignInv
  <2>1. TypeOK' /\ OrderInv' /\ HandleInv' /\ KnownInv' /\ ReaperInv' /\ LaptopInv'
    BY DEF TypeOK, OrderInv, HandleInv, KnownInv, ReaperInv, LaptopInv, Owed, pool
  <2>2. ManifestInv'
    BY ManifestRests
  <2> QED
    BY <2>1, <2>2
<1> QED
  BY InitInv, <1>1, <1>2, PTL DEF Spec

\* What a reader of the blob store sees is backed and agrees, and what a finished or a torn
\* down campaign leaves is excused by a call that raised, or is the one runtime in the
\* making: the invariants the run checks, for plans of any length.
THEOREM FaithIsKept == Spec => []CampaignKeepsFaith
<1>1. CampaignInv => CampaignKeepsFaith
  <2> SUFFICES ASSUME CampaignInv PROVE CampaignKeepsFaith
    OBVIOUS
  <2> USE DEF CampaignInv, OrderInv
  <2>1. ResultBeforeStatus /\ MarkerIsHonest
    BY DEF ManifestInv, ResultBeforeStatus, MarkerIsHonest
  <2>2. DoneLeavesNothing
    BY DEF ReaperInv, DoneLeavesNothing
  <2>3. TeardownMissesOne
    BY DEF LaptopInv, TeardownMissesOne
  <2> QED
    BY <2>1, <2>2, <2>3 DEF CampaignKeepsFaith
<1> QED
  BY Invariance, <1>1, PTL

\* The marker is the last word: nothing on the store changes after it, whatever the
\* watchdog, the reaper and the operator still do.
THEOREM MarkerIsTheEnd == Spec => MarkerIsFinal
<1>1. CampaignInv /\ [Next]_vars =>
          (marker # "none" => UNCHANGED <<status, results, synced, marker>>)
  <2> SUFFICES ASSUME CampaignInv, [Next]_vars, ctl = "ended"
               PROVE  UNCHANGED <<status, results, synced, marker>>
    BY DEF CampaignInv, OrderInv
  <2> USE DEF blobs, At
  <2>1. CASE Controller
    BY <2>1 DEF Controller, Launch, NextTask, PublishRunning, CreateRuntime, BookRuntime,
         LazyCreate, LazyCreateFails,
         TaskEnds, CreateFails, WriteResult, WriteSidecar, ResultFails, SyncLedger,
         PublishEnded, WriteDone, ThreadDies
  <2>2. CASE Main \/ Watchdog \/ Laptop \/ Timeout \/ ProcessDies \/ Over \/ UNCHANGED vars
    BY <2>2 DEF Main, Claim, Start, Watchdog, Terminal, ReapRuntime, ReapNat, ReapSelf, Unarmed,
         Laptop, SignalStop, DeleteResidual, Destroy, Timeout, ProcessDies, Over, vars
  <2> QED
    BY <2>1, <2>2 DEF Next
<1> QED
  BY Invariance, <1>1, PTL DEF Spec, MarkerIsFinal
=============================================================================
