--------------------------- MODULE ProgressPlane ---------------------------
(***************************************************************************)
(* The progress plane of one run: core/progress.py with the server side of *)
(* a live page, viewer/server.py::_pump_events.  The run appends events to *)
(* stream.jsonl and replaces state.json; a subscriber polls both files; a  *)
(* reaper (the start of another run, or a listing) deletes the directory   *)
(* when it is past due.  Nothing but the file system connects the three,   *)
(* and the process of the run can die between any two of its writes.       *)
(*                                                                         *)
(* An event keeps its sequence number and its kind.  The clock is the flag *)
(* `aged`: state.json was last written more than TERMINAL_GRACE_S ago.     *)
(***************************************************************************)
EXTENDS Naturals, Sequences, SequencesExt

CONSTANTS MaxEvents,      \* bound: events the run tries to write
          MaxLines,       \* CLOUSIGHT_PROGRESS_MAX_LINES
          MaxFaults,      \* bound: failed writes and interruptions
          MaxReconnects   \* bound: times the browser opens its stream again

ASSUME BoundsAssumption == MaxEvents \in Nat /\ MaxFaults \in Nat /\ MaxReconnects \in Nat
ASSUME MaxLinesAssumption == MaxLines \in Nat

VARIABLES
    \* the process of the run
    run,         \* new, made (in begin, no snapshot yet), on, over, exited or killed
    job, at,     \* the operation that holds the writer's lock, and how far it got
    seq, status, \* the writer's own state
    enabled, asked,   \* is the plane still on?  events tried so far
    \* the directory
    dir, stream, partial, snapshot, aged, marker,
    \* the subscriber and the reaper
    sub, seen, told, since, got, opened, reaper, faults

writer == <<run, job, at, seq, status, enabled, asked>>
files  == <<dir, stream, partial, snapshot, aged, marker>>
reader == <<sub, seen, told, since, got, opened>>
planeVars   == <<writer, files, reader, reaper, faults>>

Terminal == {"completed", "interrupted", "abandoned"}
Kinds    == {"stage", "log", "cancel", "done"}
Absent   == [seq |-> 0, status |-> "absent"]

PlaneInit ==
    /\ run = "new" /\ job = "none" /\ at = "free"
    /\ seq = 0 /\ status = "running" /\ enabled = TRUE /\ asked = 0
    /\ dir = FALSE /\ stream = <<>> /\ partial = FALSE
    /\ snapshot = Absent /\ aged = FALSE /\ marker = FALSE
    /\ sub = "out" /\ seen = Absent /\ told = "none" /\ since = 0 /\ got = <<>>
    /\ opened = 0 /\ reaper = "idle" /\ faults = 0

Alive == run \notin {"exited", "killed"}

Fault == faults < MaxFaults /\ faults' = faults + 1

----------------------------------------------------------------------------
(* The run.                                                                *)

\* begin: the directory and an empty stream, then the first snapshot.
MakeDirectory ==
    /\ run = "new"
    /\ run' = "made" /\ dir' = TRUE
    /\ UNCHANGED <<job, at, seq, status, enabled, asked, stream, partial, snapshot, aged,
                   marker, reader, reaper, faults>>

FirstSnapshot ==
    /\ run = "made"
    /\ run' = "on"
    /\ snapshot' = [seq |-> 0, status |-> "running"] /\ aged' = FALSE
    /\ UNCHANGED <<job, at, seq, status, enabled, asked, dir, stream, partial, marker,
                   reader, reaper, faults>>

\* begin's error path: the directory, the empty stream or the first snapshot cannot be
\* written.  The plane is off and the run goes on; the directory may be there, without a
\* snapshot.
BeginFails ==
    /\ run \in {"new", "made"} /\ Fault
    /\ run' = "on" /\ enabled' = FALSE
    /\ IF run = "new" THEN dir' \in BOOLEAN ELSE UNCHANGED dir
    /\ UNCHANGED <<job, at, seq, status, asked, stream, partial, snapshot, aged, marker,
                   reader, reaper>>

\* An operation takes the lock: stage_start, stage_end, phase and advance; log, sample
\* and step, which write no snapshot; should_cancel that found the marker; finish.  A
\* thread may still log between finish and the removal of the log handler.
Begin(kind) ==
    /\ at = "free"
    /\ CASE kind = "log"    -> run \in {"on", "over"}
         [] kind = "cancel" -> run = "on" /\ marker /\ dir
         [] OTHER           -> run = "on"
    /\ kind # "done" => asked < MaxEvents
    /\ job' = kind /\ at' = "append"
    /\ asked' = IF kind = "done" THEN asked ELSE asked + 1
    /\ IF kind = "done" THEN status' \in {"completed", "interrupted"}
                        ELSE UNCHANGED status
    /\ UNCHANGED <<run, seq, enabled, files, reader, reaper, faults>>

Unlock ==
    /\ job' = "none" /\ at' = "free"
    /\ run' = IF job = "done" THEN "over" ELSE run

\* _append: off, or a droppable kind beyond the caps: nothing is written.
Full == Len(stream) >= MaxLines
Droppable(kind) == kind = "log"
Skips == ~enabled \/ (Full /\ Droppable(job))

SkipAppend ==
    /\ at = "append" /\ Skips
    /\ Unlock
    /\ UNCHANGED <<seq, status, enabled, asked, files, reader, reaper, faults>>

\* The line reaches the file in pieces: a reader can see a partial tail.
AppendPart ==
    /\ at = "append" /\ ~Skips /\ dir
    /\ seq' = seq + 1
    /\ partial' = TRUE /\ at' = "rest"
    /\ UNCHANGED <<run, job, status, enabled, asked, dir, stream, snapshot, aged, marker,
                   reader, reaper, faults>>

AppendRest ==
    /\ at = "rest" /\ dir
    /\ stream' = Append(stream, [seq |-> seq, kind |-> job])
    /\ partial' = FALSE
    /\ IF Droppable(job) THEN Unlock ELSE at' = "state" /\ UNCHANGED <<run, job>>
    /\ UNCHANGED <<seq, status, enabled, asked, dir, snapshot, aged, marker, reader,
                   reaper, faults>>

WriteState ==
    /\ at = "state" /\ dir
    /\ snapshot' = [seq |-> seq, status |-> status] /\ aged' = FALSE
    /\ Unlock
    /\ UNCHANGED <<seq, status, enabled, asked, dir, stream, partial, marker, reader,
                   reaper, faults>>

\* An OSError (or no directory any more): _disable, for the rest of the run.  What was
\* written of the line stays.
WriteFails ==
    /\ at \in {"append", "rest", "state"} /\ ~Skips
    /\ IF dir THEN Fault ELSE UNCHANGED faults
    /\ enabled' = FALSE
    /\ seq' = IF at = "append" THEN seq + 1 ELSE seq
    /\ Unlock
    /\ UNCHANGED <<status, asked, files, reader, reaper>>

\* A KeyboardInterrupt in the main thread leaves the operation and its lock; closing
\* the file completes a line that was begun.  In finish it ends the process.
Interrupt ==
    /\ at \in {"append", "rest", "state"} /\ Fault
    /\ job' = "none" /\ at' = "free"
    /\ run' = IF job = "done" THEN "over" ELSE run
    /\ IF at = "rest" /\ dir
       THEN stream' = Append(stream, [seq |-> seq, kind |-> job]) /\ partial' = FALSE
       ELSE UNCHANGED <<stream, partial>>
    /\ seq' = IF at = "append" /\ ~Skips THEN seq + 1 ELSE seq
    /\ UNCHANGED <<status, enabled, asked, dir, snapshot, aged, marker, reader, reaper>>

Exit ==
    /\ run = "over" /\ at = "free"
    /\ run' = "exited"
    /\ UNCHANGED <<job, at, seq, status, enabled, asked, files, reader, reaper, faults>>

\* SIGKILL, the OOM killer, a power cut.
Kill ==
    /\ run \in {"made", "on", "over"}
    /\ run' = "killed" /\ job' = "none" /\ at' = "free"
    /\ UNCHANGED <<seq, status, enabled, asked, files, reader, reaper, faults>>

----------------------------------------------------------------------------
(* The subscriber: _progress_stream and _pump_events.                      *)

\* read_state, its first half: the file.  No snapshot: 404, or (in the loop) a final
\* frame with what was last known.
Look ==
    /\ sub \in {"opening", "polling"}
    /\ IF dir /\ snapshot # Absent
       THEN /\ seen' = snapshot /\ sub' = "judging" /\ UNCHANGED told
       ELSE /\ sub' = IF sub = "opening" THEN "out" ELSE "done"
            /\ told' = IF sub = "opening" THEN told ELSE seen.status
            /\ UNCHANGED seen
    /\ UNCHANGED <<writer, files, since, got, opened, reaper, faults>>

\* Mutant of Judged: a snapshot is taken at its word.
JudgedAsSaid(snap) == snap

\* ... and its second half: a snapshot that claims to run while its process is gone.
Judged(snap) ==
    IF snap.status \notin Terminal /\ ~Alive THEN [snap EXCEPT !.status = "abandoned"]
    ELSE snap

Judge ==
    /\ sub = "judging"
    /\ seen' = Judged(seen)
    /\ sub' = "draining"
    /\ UNCHANGED <<writer, files, told, since, got, opened, reaper, faults>>

\* Mutant of Fresh: the token itself is read again.
FreshInclusive ==
    IF dir THEN SelectSeq(stream, LAMBDA e : e.seq >= since) ELSE << >>

\* _drain: the whole lines past the high-water mark, which moves to the last of them.
Past(lines, mark) ==
    LET kept[n \in 0 .. Len(lines)] ==
          IF n = 0 THEN << >>
          ELSE IF lines[n].seq > mark THEN Append(kept[n - 1], lines[n])
          ELSE kept[n - 1]
    IN  kept[Len(lines)]
Fresh == IF dir THEN Past(stream, since) ELSE << >>

\* Mutant of Deliver: a partial tail is passed over.
DeliverPastPartial ==
    /\ got' = got \o Fresh
    /\ since' = IF dir /\ partial THEN seq
                ELSE IF Fresh = <<>> THEN since ELSE Last(Fresh).seq

Deliver ==
    /\ got' = got \o Fresh
    /\ since' = IF Fresh = <<>> THEN since ELSE Last(Fresh).seq

\* Mutant of Drain: a terminal snapshot ends the stream at once.
DrainUnlessOver ==
    /\ sub = "draining"
    /\ IF seen.status \in Terminal
       THEN sub' = "done" /\ told' = seen.status /\ UNCHANGED <<got, since>>
       ELSE sub' = "polling" /\ Deliver /\ UNCHANGED told
    /\ UNCHANGED <<writer, files, seen, opened, reaper, faults>>

Drain ==
    /\ sub = "draining"
    /\ Deliver
    /\ sub' = IF seen.status \in Terminal THEN "closing" ELSE "polling"
    /\ UNCHANGED <<writer, files, seen, told, opened, reaper, faults>>

\* Whatever landed alongside the terminal state, then the final frame.
LastDrain ==
    /\ sub = "closing"
    /\ Deliver
    /\ told' = seen.status /\ sub' = "done"
    /\ UNCHANGED <<writer, files, seen, opened, reaper, faults>>

\* The browser opens a stream, for the first time or from its resume token.
Open ==
    /\ sub = "out" /\ opened <= MaxReconnects
    /\ opened' = opened + 1
    /\ sub' = "opening"
    /\ UNCHANGED <<writer, files, seen, told, since, got, reaper, faults>>

Disconnect ==
    /\ sub = "polling" /\ opened <= MaxReconnects
    /\ sub' = "out"
    /\ UNCHANGED <<writer, files, seen, told, since, got, opened, reaper, faults>>

\* _STREAM_MAX_S has passed.
Expire ==
    /\ sub = "polling"
    /\ sub' = "closing"
    /\ UNCHANGED <<writer, files, seen, told, since, got, opened, reaper, faults>>

\* request_cancel: only a run whose snapshot is not terminal.
RequestCancel ==
    /\ dir /\ snapshot # Absent /\ snapshot.status \notin Terminal /\ ~marker
    /\ marker' = TRUE
    /\ UNCHANGED <<writer, dir, stream, partial, snapshot, aged, reader, reaper, faults>>

----------------------------------------------------------------------------
(* The reaper: _scan in another process, and the clock.                    *)

\* Mutants of Scan: a silent run is a dead one; or only who said so is over.
ScanUnprobed ==
    /\ reaper = "idle" /\ dir
    /\ reaper' = "due"
    /\ UNCHANGED <<writer, files, reader, faults>>

ScanAsSaid ==
    /\ reaper = "idle" /\ dir /\ snapshot.status \in Terminal
    /\ reaper' = "due"
    /\ UNCHANGED <<writer, files, reader, faults>>

\* The snapshot it reads: terminal, none at all, or one whose process it must probe.
Scan ==
    /\ reaper = "idle" /\ dir
    /\ reaper' = IF snapshot = Absent \/ snapshot.status \in Terminal THEN "due" ELSE "probe"
    /\ UNCHANGED <<writer, files, reader, faults>>

Probe ==
    /\ reaper = "probe"
    /\ reaper' = IF Alive THEN "idle" ELSE "due"
    /\ UNCHANGED <<writer, files, reader, faults>>

Sweep ==
    /\ reaper = "due"
    /\ reaper' = "idle"
    /\ IF aged THEN /\ dir' = FALSE /\ stream' = <<>> /\ partial' = FALSE
                    /\ snapshot' = Absent /\ marker' = FALSE /\ aged' = FALSE
               ELSE UNCHANGED files
    /\ UNCHANGED <<writer, reader, faults>>

\* Two minutes pass without a write.  Timing assumption: each step of begin, of one
\* look and drain of a subscriber and of one scan is far shorter than that, and so is
\* the pause between two polls: a subscriber who is still there knows of the last write.
UpToDate == sub \in {"out", "done"} \/ (sub = "polling" /\ (Alive \/ snapshot.status \in Terminal)
                                         /\ seen = snapshot)

GracePasses ==
    /\ dir /\ ~aged
    /\ at = "free" /\ run # "made" /\ reaper = "idle" /\ UpToDate
    /\ aged' = TRUE
    /\ UNCHANGED <<writer, dir, stream, partial, snapshot, marker, reader, reaper, faults>>

----------------------------------------------------------------------------
Write == \/ MakeDirectory \/ FirstSnapshot \/ BeginFails \/ (\E kind \in Kinds : Begin(kind))
         \/ SkipAppend \/ AppendPart \/ AppendRest \/ WriteState \/ WriteFails \/ Exit

Poll == Look \/ Judge \/ Drain \/ LastDrain

Reap == Scan \/ Probe \/ Sweep

PlaneNext == \/ Write \/ Interrupt \/ Kill
        \/ Poll \/ Open \/ Disconnect \/ Expire \/ RequestCancel
        \/ Reap \/ GracePasses
        \/ (run \in {"exited", "killed"} /\ UNCHANGED planeVars)

\* A subscription keeps polling; somebody lists the runs from time to time; and time
\* passes between two listings.
PlaneSpec ==
    /\ PlaneInit /\ [][PlaneNext]_planeVars
    /\ WF_planeVars(Poll) /\ WF_planeVars(Reap) /\ SF_planeVars(GracePasses)

----------------------------------------------------------------------------
(* Properties.                                                             *)

\* However its polls, its reconnections, partial tails and failed writes interleave, a
\* subscriber receives events in order and each once.
InOrderOnce == \A i, j \in DOMAIN got : i < j => got[i].seq < got[j].seq

\* The resume token never runs ahead of what was delivered: an event that is on disk and
\* not beyond the token has been received.
NothingSkipped ==
    dir => \A i \in DOMAIN stream : stream[i].seq <= since => stream[i] \in Range(got)

\* The final frame with a terminal status comes after every event up to `done`: nothing
\* the run wrote before it finished is missing.
DoneDeliversAll ==
    told \in Terminal /\ dir =>
        \A i \in DOMAIN stream :
            (\E j \in DOMAIN stream : j >= i /\ stream[j].kind = "done")
                => stream[i] \in Range(got)

\* The plane went off in begin, before the first event: there is no snapshot, and no
\* reader of the directory can tell that the run is alive.
Dark == ~enabled /\ seq = 0

\* A run that is alive and has not finished keeps its directory, however long it is
\* silent, also after its plane went off in the middle; unless it never published a
\* snapshot, when _scan takes the directory for one that nobody is creating any more.
LiveNeverSwept == /\ run = "made" => dir
                  /\ run = "on" => dir \/ Dark

\* Whatever the reader is told about how the run ended, it is told in the end.
SubscriptionEnds == [](~Alive => <>(sub \in {"out", "done"}))

\* No phantom rows: the directory of a run that is gone is collected.
PhantomsCollected == [](~Alive => <>~dir)

\* What a subscriber receives is what the run wrote: in order, each event once, no gap
\* behind the resume token, and nothing after the final frame.
StreamIsFaithful == InOrderOnce /\ NothingSkipped /\ DoneDeliversAll

\* When the writer is gone, whoever waits for it stops waiting: the subscription ends and
\* the directory is collected.
NothingOutlivesTheWriter == SubscriptionEnds /\ PhantomsCollected
=============================================================================
