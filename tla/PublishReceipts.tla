--------------------------- MODULE PublishReceipts ---------------------------
(***************************************************************************)
(* Publication of persisted results: core/finalize.py::_publish over the   *)
(* append-only receipt file of core/publish.py.  Processes publish         *)
(* concurrently under a lock on the file; a process can die at any point,  *)
(* in the middle of writing a line too, and its lock dies with it.         *)
(*                                                                         *)
(* A receipt keeps the fields the deduplication reads.  The file is the    *)
(* set of receipts on it and the state of its text: whole lines; `ragged`  *)
(* when the last line is a whole receipt without its newline; `broken`     *)
(* when a line does not parse (a partial one, or two receipts on one       *)
(* line), which makes every later read of the file raise.                  *)
(***************************************************************************)
EXTENDS Naturals, FiniteSets

CONSTANTS Procs,        \* threads and processes that publish
          Keys,         \* idempotency keys: a record digest and a publisher name
          NoKey,        \* the key of a receipt written for a record nobody trusts
          NoProc,       \* the holder of a free lock
          MaxAttempts   \* bound: publication attempts over all processes

ASSUME NoProcAssumption == NoProc \notin Procs
ASSUME NoKeyAssumption == NoKey \notin Keys
ASSUME MaxAttemptsAssumption == MaxAttempts \in Nat

VARIABLES pc,          \* where each process is in _publish
          key,         \* the idempotency key it publishes under
          attempt,     \* its attempt id
          view,        \* the receipts it read under the lock
          verdict,     \* the receipt it will append after the call
          holder,      \* the process holding the file lock
          receipts, text,      \* the receipt file
          started,     \* attempt ids handed out so far
          called       \* the publisher calls made, as <<attempt, key>>

file  == <<receipts, text>>
local == <<key, attempt, view, verdict>>
vars  == <<pc, local, holder, file, started, called>>

Attempts == 1 .. MaxAttempts
NoAttempt == 0   \* a receipt written without an attempt_id

States == {"pending", "skipped", "success", "indeterminate", "failed"}

\* What finalize and publish write together: only a refusal carries no attempt id, only
\* a refusal can be without a key, a success was called for, and what was never sent
\* (reserved, skipped, refused) does not say that it was.
Receipt == {r \in [key : Keys \union {NoKey}, attempt : Attempts \union {NoAttempt},
                   state : States, called : BOOLEAN] :
              /\ r.attempt = NoAttempt <=> r.state = "failed"
              /\ r.key = NoKey => r.state = "failed"
              /\ r.state = "success" => r.called
              /\ r.state \in {"pending", "skipped", "failed"} => ~r.called}

Init ==
    /\ pc = [p \in Procs |-> "idle"]
    /\ key \in [Procs -> Keys]
    /\ attempt = [p \in Procs |-> NoAttempt]
    /\ view = [p \in Procs |-> {}]
    /\ verdict = [p \in Procs |-> "success"]
    /\ holder = NoProc
    /\ receipts = {} /\ text = "lines"
    /\ started = 0
    /\ called = {}

----------------------------------------------------------------------------
(* The receipt file.                                                       *)

Entry(p, st, wasCalled) ==
    [key |-> key[p], attempt |-> attempt[p], state |-> st, called |-> wasCalled]

\* _write_receipt: the whole line.  On a ragged file it lands on the same line as
\* the receipt before it.
WriteLine(r) ==
    /\ receipts' = IF text = "ragged" THEN receipts ELSE receipts \union {r}
    /\ text' = IF text = "lines" THEN "lines" ELSE "broken"

\* The write is cut short (a crash, a full disk): nothing, a part of the line, or
\* all of it but the newline reached the file.
WriteCut(r) ==
    \/ UNCHANGED file
    \/ text' = "broken" /\ UNCHANGED receipts
    \/ /\ receipts' = IF text = "ragged" THEN receipts ELSE receipts \union {r}
       /\ text' = IF text = "lines" THEN "ragged" ELSE "broken"

Unreadable == text = "broken"

----------------------------------------------------------------------------
(* begin_publish_attempt: what the receipts of a key say about a new call. *)

Of(k, S) == {r \in S : r.key = k}

Settled(k, S) == {r.attempt : r \in {q \in Of(k, S) :
                                q.state \in {"success", "failed", "indeterminate"}}}

\* Mutant of Published: an attempt nobody knows the outcome of counts as published.
PublishedPerhaps(k, S) == \E r \in Of(k, S) : r.state \in {"success", "indeterminate"}

Published(k, S) == \E r \in Of(k, S) : r.state = "success"

\* Mutant of InDoubt: a reservation that nothing followed is forgotten.
InDoubtOnceSettled(k, S) ==
    \/ \E r \in Of(k, S) : r.state = "indeterminate"
    \/ \E r \in Of(k, S) : r.state = "failed" /\ r.called

InDoubt(k, S) ==
    \/ \E r \in Of(k, S) : r.state = "indeterminate"
    \/ \E r \in Of(k, S) : r.state = "failed" /\ r.called
    \/ \E r \in Of(k, S) : r.state = "pending" /\ r.attempt \notin Settled(k, S)

----------------------------------------------------------------------------
(* One call of _publish by process p.                                      *)

Goto(p, where) == pc' = [pc EXCEPT ![p] = where]
Acquire(p) == holder = NoProc /\ holder' = p
Release(p) == holder' = NoProc

\* The record is reloaded and verified, and the attempt gets its id.
Start(p) ==
    /\ pc[p] = "idle" /\ started < MaxAttempts
    /\ started' = started + 1
    /\ attempt' = [attempt EXCEPT ![p] = started + 1]
    /\ \E k \in Keys : key' = [key EXCEPT ![p] = k]
    /\ \/ Goto(p, "begin")
       \/ Goto(p, "refuse")      \* the record is not trusted, or the name not usable
    /\ UNCHANGED <<view, verdict, holder, file, called>>

\* persisted_record_invalid (under no key) and publisher_name_invalid: a failed
\* receipt without an attempt id, the publisher never called.
Refusals(p) == [key : {key[p], NoKey}, attempt : {NoAttempt}, state : {"failed"},
                called : {FALSE}]

LockToRefuse(p) ==
    /\ pc[p] = "refuse"
    /\ Acquire(p)
    /\ Goto(p, "refusing")
    /\ UNCHANGED <<local, file, started, called>>

\* (A failing append is logged, never raised.)
WriteRefusal(p) ==
    /\ pc[p] = "refusing"
    /\ \E r \in Refusals(p) : WriteLine(r) \/ WriteCut(r)
    /\ Release(p)
    /\ Goto(p, "idle")
    /\ UNCHANGED <<local, started, called>>

\* Mutant of LockToBegin: the receipts are read without the lock.
BeginUnlocked(p) ==
    /\ pc[p] = "begin"
    /\ Goto(p, "reading")
    /\ UNCHANGED <<local, holder, file, started, called>>

LockToBegin(p) ==
    /\ pc[p] = "begin"
    /\ Acquire(p)
    /\ Goto(p, "reading")
    /\ UNCHANGED <<local, file, started, called>>

ReadReceipts(p) ==
    /\ pc[p] = "reading" /\ ~Unreadable
    /\ view' = [view EXCEPT ![p] = receipts]
    /\ Goto(p, "deciding")
    /\ UNCHANGED <<key, attempt, verdict, holder, file, started, called>>

\* Mutant of ReadFails: an unreadable file is tried again.
ReadAgain(p) ==
    /\ pc[p] = "reading" /\ Unreadable
    /\ Goto(p, "begin") /\ Release(p)
    /\ UNCHANGED <<local, file, started, called>>

\* _read_receipts raises: no reservation, so no remote call.
ReadFails(p) ==
    /\ pc[p] = "reading" /\ Unreadable
    /\ Release(p)
    /\ Goto(p, "idle")
    /\ UNCHANGED <<local, file, started, called>>

\* What begin_publish_attempt writes: a success on file, or an attempt whose outcome
\* nobody knows, and there is no call; otherwise the attempt is reserved.
Decision(p) ==
    IF Published(key[p], view[p]) THEN "skipped"
    ELSE IF InDoubt(key[p], view[p]) THEN "indeterminate"
    ELSE "pending"

Decide(p) ==
    /\ pc[p] = "deciding"
    /\ WriteLine(Entry(p, Decision(p), FALSE))
    /\ Release(p)
    /\ Goto(p, IF Decision(p) = "pending" THEN "reserved" ELSE "idle")
    /\ UNCHANGED <<local, started, called>>

\* Writing the decision raises: begin_publish_attempt raises, _publish returns.
DecisionFails(p) ==
    /\ pc[p] = "deciding"
    /\ WriteCut(Entry(p, Decision(p), FALSE))
    /\ Release(p)
    /\ Goto(p, "idle")
    /\ UNCHANGED <<local, started, called>>

CallPublisher(p) ==
    /\ pc[p] = "reserved"
    /\ called' = called \union {<<attempt[p], key[p]>>}
    /\ Goto(p, "calling")
    /\ UNCHANGED <<local, holder, file, started>>

\* The call returned a valid detail, or raised, returned something else, or the
\* stored record was tampered with: success, or an outcome nobody can tell.
CallReturns(p) ==
    /\ pc[p] = "calling"
    /\ \E v \in {"success", "indeterminate"} : verdict' = [verdict EXCEPT ![p] = v]
    /\ Goto(p, "settle")
    /\ UNCHANGED <<key, attempt, view, holder, file, started, called>>

LockToSettle(p) ==
    /\ pc[p] = "settle"
    /\ Acquire(p)
    /\ Goto(p, "settling")
    /\ UNCHANGED <<local, file, started, called>>

\* Mutant of WriteVerdict: the terminal receipt is built on the pending one and keeps
\* its publisher_called.
WriteVerdictOnPending(p) ==
    LET r == Entry(p, verdict[p], FALSE) IN
    /\ pc[p] = "settling"
    /\ WriteLine(r) \/ WriteCut(r)
    /\ Release(p)
    /\ Goto(p, "idle")
    /\ UNCHANGED <<local, started, called>>

WriteVerdict(p) ==
    LET r == Entry(p, verdict[p], TRUE) IN
    /\ pc[p] = "settling"
    /\ WriteLine(r) \/ WriteCut(r)
    /\ Release(p)
    /\ Goto(p, "idle")
    /\ UNCHANGED <<local, started, called>>

\* The line a process is about to write, when it holds the lock to write one.
Writing(p) ==
    CASE pc[p] = "refusing" -> Refusals(p)
      [] pc[p] = "deciding" -> {Entry(p, Decision(p), FALSE)}
      [] pc[p] = "settling" -> {Entry(p, verdict[p], TRUE)}
      [] OTHER -> {}

\* The process dies, possibly in the middle of a line; the kernel drops its lock.
\* What runs next under the name of p is a fresh process.
Crash(p) ==
    /\ pc[p] # "idle"
    /\ \/ UNCHANGED file
       \/ \E r \in Writing(p) : WriteLine(r) \/ WriteCut(r)
    /\ holder' = IF holder = p THEN NoProc ELSE holder
    /\ Goto(p, "idle")
    /\ UNCHANGED <<local, started, called>>

----------------------------------------------------------------------------
Step(p) == \/ LockToRefuse(p) \/ WriteRefusal(p)
           \/ LockToBegin(p) \/ ReadReceipts(p) \/ ReadFails(p)
           \/ Decide(p) \/ DecisionFails(p)
           \/ CallPublisher(p) \/ CallReturns(p)
           \/ LockToSettle(p) \/ WriteVerdict(p)

\* Everybody has finished and no attempt is left within the bound.
Finished == (\A p \in Procs : pc[p] = "idle") /\ started = MaxAttempts /\ UNCHANGED vars

Next == (\E p \in Procs : Start(p) \/ Step(p) \/ Crash(p)) \/ Finished

\* A process that is alive goes on; the lock is granted to those that wait for it,
\* which the bound on attempts turns into a promise for each.
Spec == Init /\ [][Next]_vars /\ \A p \in Procs : WF_vars(Step(p))

----------------------------------------------------------------------------
(* Properties.                                                             *)

\* Every variable has the shape _publish gives it, and every receipt on the file is one
\* of those _publish writes: no success that was not called for, no refusal that settles
\* an attempt.
TypeOK ==
    /\ pc \in [Procs -> {"idle", "refuse", "refusing", "begin", "reading", "deciding",
                         "reserved", "calling", "settle", "settling"}]
    /\ key \in [Procs -> Keys]
    /\ attempt \in [Procs -> Attempts \union {NoAttempt}]
    /\ view \in [Procs -> SUBSET Receipt]
    /\ verdict \in [Procs -> {"success", "indeterminate"}]
    /\ holder \in Procs \union {NoProc}
    /\ receipts \subseteq Receipt
    /\ text \in {"lines", "ragged", "broken"}
    /\ started \in 0 .. MaxAttempts
    /\ called \subseteq Attempts \X Keys

\* Publishers are called at most once for one key, whatever crashes, torn lines and
\* concurrent processes come between the reservation and the call.
AtMostOnce ==
    /\ \A c, d \in called : c[2] = d[2] => c = d
    /\ \A p \in Procs : pc[p] = "reserved" => \A c \in called : c[2] # key[p]

Announced(c) ==
    [key |-> c[2], attempt |-> c[1], state |-> "pending", called |-> FALSE] \in receipts

\* Every call was announced: its pending receipt is in the file, or the file can no
\* longer be read and so nobody publishes any more.
CallsAreAnnounced == \A c \in called : Announced(c) \/ Unreadable

\* No receipt claims more than what happened: a success stands for a call, and a
\* result is skipped as already published only when one call was a success.
ReceiptsAreTrue ==
    \A r \in receipts :
        /\ r.state = "success" => <<r.attempt, r.key>> \in called
        /\ r.state = "skipped" => \E q \in receipts : q.key = r.key /\ q.state = "success"

\* The receipts are evidence: they are never rewritten or lost, and a success that was
\* recorded can never be followed by another call for its key.
AppendOnly ==
    [][/\ receipts \subseteq receipts'
       /\ \A c \in called' \ called : ~Published(c[2], receipts)]_vars

\* An attempt ends, with or without a call: nobody waits for the lock for ever.
AttemptsEnd == \A p \in Procs : pc[p] = "begin" ~> pc[p] = "idle"

\* The receipt file implements the abstract boundary.
Successes == {<<r.attempt, r.key>> : r \in {q \in receipts : q.state = "success"}}

Boundary == INSTANCE AtMostOncePublish WITH calls <- called, confirmed <- Successes

ImplementsBoundary == Boundary!Spec

----------------------------------------------------------------------------
(* The inductive invariant behind them.                                    *)

Critical == {"refusing", "reading", "deciding", "settling"}
AfterCall == {"calling", "settle", "settling"}

\* The file lock is held by exactly the process that is reading or writing.
LockInv == \A p \in Procs : pc[p] \in Critical <=> holder = p

\* What a process decides on is what the file says, and the file parsed.
ViewInv == \A p \in Procs : pc[p] = "deciding" => view[p] = receipts /\ ~Unreadable

AttemptInv == \A p \in Procs : pc[p] # "idle" => attempt[p] \in Attempts

\* A reservation is announced before the lock is given up, and is the only claim on
\* its key: no call was made for it and no other process holds one.
ReservationInv ==
    \A p \in Procs : pc[p] = "reserved" =>
        /\ Announced(<<attempt[p], key[p]>>) \/ Unreadable
        /\ \A q \in Procs : pc[q] = "reserved" /\ key[q] = key[p] => q = p

CallInv == \A p \in Procs : pc[p] \in AfterCall => <<attempt[p], key[p]>> \in called

\* A failed receipt belongs to no attempt: it cannot settle one that was announced.
FailedInv == \A r \in receipts : r.state = "failed" => r.attempt = NoAttempt

Inv == /\ TypeOK /\ LockInv /\ ViewInv /\ AttemptInv /\ ReservationInv /\ CallInv
       /\ FailedInv /\ CallsAreAnnounced /\ AtMostOnce /\ ReceiptsAreTrue
=============================================================================
