--------------------------- MODULE ConsoleLaunch ---------------------------
(***************************************************************************)
(* Starting runs from the viewer's console: viewer/server.py::_start_run,  *)
(* viewer/launch.py::spawn_run and the listing of core/progress.py that    *)
(* counts what is in flight.  Each request has a thread of its own.  A run *)
(* is a detached child process that publishes its first snapshot some time *)
(* after it was spawned.  Nobody waits for a child: once dead it stays a   *)
(* zombie, for which the signal-0 probe succeeds, until the server process *)
(* spawns another child (subprocess.Popen polls the dead ones first) or    *)
(* ends.                                                                   *)
(***************************************************************************)
EXTENDS Naturals, FiniteSets

CONSTANTS
    Runs,            \* run ids the console can hand out
    Handlers,        \* request threads
    MAX_ACTIVE_RUNS,
    Prompt           \* TRUE: a child publishes before the next request is looked at

ASSUME CapAssumption == MAX_ACTIVE_RUNS \in Nat \ {0}
ASSUME PromptAssumption == Prompt \in BOOLEAN

VARIABLES process,   \* of each run: none, alive, zombie, gone
          row,       \* its progress directory: none, running, terminal, swept
          fresh,     \* rows whose snapshot is younger than TERMINAL_GRACE_S
          handler,   \* request threads: idle, or about to spawn
          restarted  \* has the server been restarted?

vars == <<process, row, fresh, handler, restarted>>

Init ==
    /\ process = [r \in Runs |-> "none"]
    /\ row = [r \in Runs |-> "none"]
    /\ fresh = {}
    /\ handler = [h \in Handlers |-> "idle"]
    /\ restarted = FALSE

\* _pid_alive: kill(pid, 0) knows a zombie.
PidAlive(r) == process[r] \in {"alive", "zombie"}

\* What a run is to somebody who asks how many benchmarks this machine is running.
InFlight == {r \in Runs : process[r] = "alive" /\ row[r] \in {"none", "running"}}

\* Mutant of Over: only who said so is over.
OverAsSaid(r) == row[r] = "terminal"

\* list_active: a snapshot that says running and whose process is there; or one that is
\* terminal, or abandoned, and still within the grace.
Running(r) == row[r] = "running" /\ PidAlive(r)
Over(r)    == row[r] = "terminal" \/ (row[r] = "running" /\ ~PidAlive(r))
Listed     == {r \in Runs : Running(r) \/ (Over(r) /\ r \in fresh)}
PastDue    == {r \in Runs : Over(r) /\ r \notin fresh}

\* The listing, which also collects what is past due.
Collect == row' = [r \in Runs |-> IF r \in PastDue THEN "swept" ELSE row[r]]

----------------------------------------------------------------------------
(* _start_run.                                                             *)

\* Timing assumption of a Prompt console: every child has published.
Settled == Prompt => \A r \in Runs : process[r] = "alive" => row[r] # "none"

Refuse(h) ==
    /\ handler[h] = "idle" /\ Settled
    /\ Cardinality(Listed) >= MAX_ACTIVE_RUNS
    /\ Collect
    /\ UNCHANGED <<process, fresh, handler, restarted>>

\* Mutant of Accept: one more than the cap.
AcceptOneMore(h) ==
    /\ handler[h] = "idle" /\ Settled
    /\ Cardinality(Listed) <= MAX_ACTIVE_RUNS
    /\ \E r \in Runs : process[r] = "none"
    /\ Collect
    /\ handler' = [handler EXCEPT ![h] = "spawn"]
    /\ UNCHANGED <<process, fresh, restarted>>

Accept(h) ==
    /\ handler[h] = "idle" /\ Settled
    /\ Cardinality(Listed) < MAX_ACTIVE_RUNS
    /\ \E r \in Runs : process[r] = "none"
    /\ Collect
    /\ handler' = [handler EXCEPT ![h] = "spawn"]
    /\ UNCHANGED <<process, fresh, restarted>>

\* spawn_run: Popen reaps the server's dead children, then starts the new one.
Spawn(h) ==
    /\ handler[h] = "spawn"
    /\ \E r \in Runs :
         /\ process[r] = "none"
         /\ process' = [q \in Runs |-> IF q = r THEN "alive"
                                       ELSE IF process[q] = "zombie" THEN "gone"
                                       ELSE process[q]]
    /\ handler' = [handler EXCEPT ![h] = "idle"]
    /\ UNCHANGED <<row, fresh, restarted>>

\* The launch note, the log file or the process cannot be created: 500.
SpawnFails(h) ==
    /\ handler[h] = "spawn"
    /\ handler' = [handler EXCEPT ![h] = "idle"]
    /\ UNCHANGED <<process, row, fresh, restarted>>

\* Any other reader of the plane: the list of active runs, the start of a run.
List ==
    /\ PastDue # {}
    /\ Collect
    /\ UNCHANGED <<process, fresh, handler, restarted>>

----------------------------------------------------------------------------
(* The children, the clock and the server process.                         *)

Publish(r) ==
    /\ process[r] = "alive" /\ row[r] = "none"
    /\ row' = [row EXCEPT ![r] = "running"] /\ fresh' = fresh \union {r}
    /\ UNCHANGED <<process, handler, restarted>>

Finish(r) ==
    /\ process[r] = "alive" /\ row[r] = "running"
    /\ row' = [row EXCEPT ![r] = "terminal"] /\ fresh' = fresh \union {r}
    /\ UNCHANGED <<process, handler, restarted>>

\* A child ends: after its last snapshot, killed in the middle of its run, or before it
\* ever published (its command line was refused).  A child of a server that is gone is
\* waited for by init.
End(r) ==
    /\ process[r] = "alive"
    /\ process' = [process EXCEPT ![r] = IF restarted THEN "gone" ELSE "zombie"]
    /\ UNCHANGED <<row, fresh, handler, restarted>>

GracePasses(r) ==
    /\ r \in fresh
    /\ fresh' = fresh \ {r}
    /\ UNCHANGED <<process, row, handler, restarted>>

\* The server is stopped and started again; the children have their own session.  (The
\* model ends its requests there: what the next server spawns is another instance.)
Restart ==
    /\ ~restarted
    /\ restarted' = TRUE
    /\ process' = [r \in Runs |-> IF process[r] = "none" THEN "gone"
                                  ELSE IF process[r] = "zombie" THEN "gone" ELSE process[r]]
    /\ handler' = [h \in Handlers |-> "idle"]
    /\ UNCHANGED <<row, fresh>>

----------------------------------------------------------------------------
Finished == (\A r \in Runs : process[r] \in {"zombie", "gone"}) /\ UNCHANGED vars

Child == \E r \in Runs : Publish(r) \/ Finish(r) \/ End(r) \/ GracePasses(r)

Next == \/ \E h \in Handlers : Refuse(h) \/ Accept(h) \/ Spawn(h) \/ SpawnFails(h)
        \/ List \/ Child \/ Restart \/ Finished

\* Time passes, children end, and somebody keeps the page with the list open.
Spec == /\ Init /\ [][Next]_vars
        /\ WF_vars(List)
        /\ \A r \in Runs : WF_vars(GracePasses(r)) /\ WF_vars(End(r))

----------------------------------------------------------------------------
(* Properties.                                                             *)

\* launch.py:44-47: as many runs may be in flight before the console stops starting more,
\* counting those that have not published anything yet.
CapHolds == Cardinality(InFlight) <= MAX_ACTIVE_RUNS

\* A run whose process has been waited for leaves no row behind.
WaitedForIsCollected ==
    \A r \in Runs : (process[r] = "gone" /\ row[r] \notin {"none"}) ~> row[r] = "swept"
=============================================================================
