---------------------------- MODULE TpcOfficial ----------------------------
(***************************************************************************)
(* suites/_tpc_official: the official TPC-H and TPC-DS runs on DuckDB.     *)
(* Power is one ordered stream on the run's own connection.  A Throughput  *)
(* test runs NStreams query streams on a thread pool, each on a connection *)
(* of its own, TPC-H with a refresh stream beside them; TPC-DS runs its    *)
(* data maintenance between two Throughput tests.  ACID probes come last.  *)
(*                                                                         *)
(* A query is a step that may raise.  A refresh function is its two        *)
(* separately committed statements, line items before orders, so `db'      *)
(* counts the refresh statements each table has seen.                      *)
(***************************************************************************)
EXTENDS SuiteRunner

VARIABLES
    phase,      \* "check", "power", "open", "streams", "dm", "acid", "seal"
    round,      \* which Throughput test
    done,       \* units each worker has finished in this phase
    at,         \* per stream: "poll", "exec", "done", "cancelled", "error"
    conns,      \* open connections
    db,         \* refresh statements applied: [lines, orders]
    acid,       \* verdict of each probe that has run
    txn         \* the ACID connection: "none", "aborted" (a transaction left open)

tpcVars == <<phase, round, done, at, conns, db, acid, txn>>

Streams == 1 .. NStreams
HasRefresh == suite = "official"
Active == IF HasRefresh THEN Streams \cup {Refresh} ELSE Streams
Rounds == IF HasRefresh THEN 1 ELSE 2
Probes == <<"atomicity", "consistency", "isolation", "durability">>

TpcInit ==
    /\ phase = "check" /\ round = 1
    /\ done = [w \in Workers |-> 0] /\ at = [w \in Workers |-> "poll"]
    /\ conns = {} /\ db = [lines |-> 0, orders |-> 0]
    /\ acid = << >> /\ txn = "none"

Driving(p) == Running(Official) /\ phase = p

\* What one official step leaves alone in the runner.
Settled == UNCHANGED <<suite, env, outcome, cancel, loopVars, sweVars, con>>
Idle == Settled /\ UNCHANGED dropped
Stay == UNCHANGED <<stage, pending, raw>>

\* run() raises: its finally closes the run's connection.
Abort(why) == Raise(why) /\ conns' = {} /\ UNCHANGED phase
Enter(p) == phase' = p /\ Stay
PollInto(p) == IF cancel THEN Abort("cancelled") ELSE Enter(p) /\ UNCHANGED conns

\* Loading the extension and reading its version come before the try.
CheckAndConnect ==
    /\ Driving("check")
    /\ IF cancel
          THEN Abort("cancelled") /\ UNCHANGED dropped
          ELSE \/ Enter("power") /\ conns' = {0} /\ UNCHANGED dropped
               \/ Abort("error") /\ dropped' \in {dropped, dropped \cup {0}}
    /\ UNCHANGED <<round, done, at, db, acid, txn, late, dirs>> /\ Settled

(***************************************************************************)
(* Power: TPC-H brackets the queries with RF1 and RF2; the poll follows    *)
(* each query, and once more before the next phase.                        *)
(***************************************************************************)

PowerUnits == IF HasRefresh THEN NUnits + 2 ELSE NUnits
IsRefresh(k) == HasRefresh /\ k \in {1, PowerUnits}

PowerUnit ==
    LET k == done[0] + 1 IN
    /\ Driving("power") /\ k <= PowerUnits /\ Begin(0)
    /\ \/ /\ done' = [done EXCEPT ![0] = k]
          /\ db' = IF IsRefresh(k) THEN [lines |-> db.lines + 1, orders |-> db.orders + 1] ELSE db
          /\ IF cancel /\ ~IsRefresh(k) THEN Abort("cancelled") ELSE Stay /\ UNCHANGED <<phase,
                                                                                         conns>>
       \/ done' = done /\ db' = db /\ Abort("error")
    /\ UNCHANGED <<round, at, acid, txn, dirs>> /\ Idle

PowerEnds ==
    /\ Driving("power") /\ done[0] = PowerUnits
    /\ PollInto("open")
    /\ UNCHANGED <<round, done, at, db, acid, txn, late, dirs>> /\ Idle

(***************************************************************************)
(* The Throughput test: run_throughput on its thread pool                  *)
(***************************************************************************)

\* One after the other, before the try: a connection that fails to open or to
\* load its extension ends the run, and nothing closes the ones before it.
OpenStreams ==
    /\ Driving("open")
    /\ \/ /\ Enter("streams")
          /\ conns' = conns \cup Active
          /\ done' = [w \in Workers |-> IF w = 0 THEN done[0] ELSE 0]
          /\ at' = [w \in Workers |-> IF w \in Active THEN "poll" ELSE "done"]
          /\ UNCHANGED dropped
       \/ /\ Abort("error")
          /\ \E last \in Workers : dropped' = dropped \cup {w \in Active : w <= last}
          /\ UNCHANGED <<done, at>>
    /\ UNCHANGED <<round, db, acid, txn, late, dirs>> /\ Settled

\* Each stream polls before a unit; a raise ends that stream only.
StreamPolls(w) ==
    /\ Driving("streams") /\ at[w] = "poll"
    /\ at' = [at EXCEPT ![w] = IF cancel THEN "cancelled" ELSE "exec"]
    /\ IF cancel THEN UNCHANGED late ELSE Begin(w)
    /\ Stay /\ UNCHANGED <<phase, round, done, conns, db, acid, txn, dirs>> /\ Idle

Finished(w, last) ==
    /\ done' = [done EXCEPT ![w] = @ + 1]
    /\ at' = [at EXCEPT ![w] = IF done[w] + 1 = last THEN "done" ELSE "poll"]

StreamQuery(w) ==
    /\ Driving("streams") /\ w \in Streams /\ at[w] = "exec"
    /\ \/ Finished(w, NUnits)
       \/ at' = [at EXCEPT ![w] = "error"] /\ UNCHANGED done
    /\ Stay /\ UNCHANGED <<phase, round, conns, db, acid, txn, late, dirs>> /\ Idle

\* RF1 inserts, and RF2 deletes, line items first; NStreams pairs in all.
RefreshStatement ==
    /\ Driving("streams") /\ at[Refresh] = "exec" /\ HasRefresh
    /\ \/ /\ db.lines = db.orders
          /\ db' = [db EXCEPT !.lines = @ + 1]
          /\ UNCHANGED <<done, at>>
       \/ /\ db.lines > db.orders
          /\ db' = [db EXCEPT !.orders = @ + 1]
          /\ IF db.orders % 2 = 0
                THEN UNCHANGED <<done, at>>             \* RF1 done, RF2 follows
                ELSE Finished(Refresh, NStreams)
       \/ at' = [at EXCEPT ![Refresh] = "error"] /\ UNCHANGED <<db, done>>
    /\ Stay /\ UNCHANGED <<phase, round, conns, acid, txn, late, dirs>> /\ Idle

\* Mutant: a worker that raised never counts as finished.
QuietUnlessFailed == \A w \in Active : at[w] \in {"done", "cancelled"}

\* The pool waits for every worker before the first exception comes out, so
\* the finally closes the connections with nobody on them.
Quiet == \A w \in Active : at[w] \in {"done", "cancelled", "error"}
Raised(w) == at[w] \in {"cancelled", "error"}
FirstRaise == CHOOSE w \in Active : Raised(w) /\ \A v \in Active : v < w => ~Raised(v)

\* Mutant: a stream's exception is swallowed with its future.
StreamsJoinRegardless ==
    /\ Driving("streams") /\ Quiet
    /\ conns' = conns \ Active
    /\ Enter(IF HasRefresh THEN "acid" ELSE "dm")
    /\ UNCHANGED <<round, done, at, db, acid, txn, late, dirs>> /\ Idle

StreamsJoin ==
    /\ Driving("streams") /\ Quiet
    /\ IF \E w \in Active : Raised(w)
          THEN Abort(at[FirstRaise])
          ELSE /\ conns' = conns \ Active
               /\ Enter(IF HasRefresh THEN "acid" ELSE "dm")
    /\ UNCHANGED <<round, done, at, db, acid, txn, late, dirs>> /\ Idle

\* TPC-DS maintenance polls, then inserts a batch and deletes exactly it.
Maintain ==
    /\ Driving("dm")
    /\ IF cancel
          THEN Abort("cancelled") /\ UNCHANGED <<round, late>>
          ELSE /\ Begin(0)
               /\ \/ /\ Enter(IF round = Rounds THEN "acid" ELSE "open")
                     /\ round' = IF round = Rounds THEN round ELSE round + 1
                     /\ UNCHANGED conns
                  \/ Abort("error") /\ UNCHANGED round
    /\ UNCHANGED <<done, at, db, acid, txn, dirs>> /\ Idle

(***************************************************************************)
(* ACID probes, in order; a crash is a "fail", and one inside an explicit  *)
(* transaction leaves it aborted on the connection the next probe uses.    *)
(***************************************************************************)

Probe == Probes[Len(acid) + 1]
NotApplicable == Probe = "durability" \/ (Probe = "consistency" /\ ~HasRefresh)

\* The isolation probe rolls back in a finally; the other two do not.  Its
\* second connection is closed too, unless the extension fails to load on it.
AcidProbe ==
    /\ Driving("acid") /\ Len(acid) < 4
    /\ Begin(0)
    /\ \/ /\ NotApplicable /\ acid' = Append(acid, "n/a")
          /\ UNCHANGED <<txn, dropped>>
       \/ /\ ~NotApplicable /\ txn = "none" /\ acid' = Append(acid, "pass")
          /\ UNCHANGED <<txn, dropped>>
       \/ /\ ~NotApplicable /\ acid' = Append(acid, "fail")
          /\ IF txn = "none" /\ Probe = "isolation"
                THEN txn' = txn /\ dropped' \in {dropped, dropped \cup {0}}
                ELSE /\ txn' \in (IF txn = "none" THEN {"none", "aborted"} ELSE {txn})
                     /\ UNCHANGED dropped
    /\ Stay /\ UNCHANGED <<phase, round, done, at, conns, db, dirs>> /\ Settled

\* engine metadata, root span, con.close(), then official.json is written.
SealOfficial ==
    /\ Driving("acid") /\ Len(acid) = 4
    /\ phase' = "seal" /\ conns' = {}
    /\ Return("art") /\ dirs' = dirs \cup {"art"}
    /\ UNCHANGED <<round, done, at, db, acid, txn, late>> /\ Idle

TpcStep ==
    \/ CheckAndConnect \/ PowerUnit \/ PowerEnds
    \/ OpenStreams \/ RefreshStatement \/ StreamsJoin
    \/ (\E w \in Streams : StreamQuery(w))
    \/ (\E w \in Active : StreamPolls(w))
    \/ Maintain \/ AcidProbe \/ SealOfficial
=============================================================================
