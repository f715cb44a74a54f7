---------------------------- MODULE DisruptedRun ----------------------------
(***************************************************************************)
(* suites/ycsb: the load phase, then the measured run phase, and the       *)
(* core/disruption proxy a reliability plan puts between the tool and the  *)
(* store.  Five kinds of thread meet in the proxy: the run's own, the      *)
(* timer that fires the disruption, one handshake per accepted connection, *)
(* two pumps per relayed pair, and the tool, which connects and hangs up   *)
(* as it likes.  Each critical section of the proxy's lock is one step;    *)
(* the sockets are closed outside it, one pair at a time.                  *)
(***************************************************************************)
EXTENDS SuiteRunner

CONSTANT NConns     \* connections the tool opens during the measured run

Conns == 1 .. NConns

VARIABLES
    plan,       \* "none", "misfit" (not redis, or no endpoint), "reset", "stall"
    step,       \* where run() stands
    timer,      \* "none", "armed", "firing", "closing", "fired", "cancelled"
    crashed,    \* the tool exited non-zero
    link,       \* per connection: "none", "handshake", "up", "down", "gone"
    tracked,    \* DisruptionProxy._conns
    cutting,    \* pairs the reset took out of it and has yet to close
    doomed,     \* pairs stop() took out of it and has yet to close
    closing,    \* DisruptionProxy._closing
    stats,      \* DisruptionStats
    snap,       \* the copy run() took of them
    gaveUp      \* join(timeout=5.0) ran out while the timer was firing

disVars == <<plan, step, timer, crashed, link, tracked, cutting, doomed, closing, stats, snap,
             gaveUp>>

NoStats == [total |-> 0, reset |-> 0, at |-> 0, windows |-> 0]
Plans == {"none", "misfit", "reset", "stall"}
Proxied == plan \in {"reset", "stall"}

DisInit ==
    /\ plan \in (IF suite = "ycsb" /\ stage = "prepare" THEN Plans ELSE {"none"})
    /\ step = "load" /\ timer = "none" /\ crashed = FALSE
    /\ link = [c \in Conns |-> "none"] /\ tracked = {} /\ cutting = {} /\ doomed = {}
    /\ closing = FALSE /\ stats = NoStats /\ snap = NoStats /\ gaveUp = FALSE

Benching(s) == Running({"ycsb"}) /\ step = s

\* What a step of run() leaves alone in the runner and in the relays.
Rest == UNCHANGED <<suite, env, outcome, cancel, loopVars, sweVars, dbVars, plan>>
Relays == UNCHANGED <<link, tracked, cutting, stats>>

(***************************************************************************)
(* YcsbSuite.run                                                           *)
(***************************************************************************)

\* One blocking tool run per phase; the poll stands before each.
LoadPhase ==
    /\ Benching("load")
    /\ \/ cancel /\ Raise("cancelled") /\ UNCHANGED <<step, late>>
       \/ ~cancel /\ Begin(0) /\ step' = "gate" /\ UNCHANGED <<stage, pending, raw>>
       \/ ~cancel /\ Begin(0) /\ Raise("error") /\ UNCHANGED step
    /\ Rest /\ Relays /\ UNCHANGED <<timer, crashed, doomed, closing, snap, gaveUp, dirs>>

\* The plan is looked at here, after the load: a misfit is refused; otherwise
\* the proxy listens and the timer is armed before the tool is started.
ArmAndRun ==
    /\ Benching("gate")
    /\ IF cancel THEN Raise("cancelled") /\ UNCHANGED <<step, timer>>
       ELSE IF plan = "misfit" THEN Raise("error") /\ UNCHANGED <<step, timer>>
       ELSE /\ step' = "tool" /\ timer' = IF Proxied THEN "armed" ELSE "none"
            /\ UNCHANGED <<stage, pending, raw>>
    /\ Rest /\ Relays /\ UNCHANGED <<late, crashed, doomed, closing, snap, gaveUp, dirs>>

ToolExits ==
    /\ Benching("tool") /\ Begin(0)
    /\ crashed' \in BOOLEAN
    /\ step' = IF Proxied THEN "quiesce" ELSE "stopped"
    /\ Rest /\ Relays /\ UNCHANGED <<stage, pending, raw, timer, doomed, closing, snap, gaveUp,
                                     dirs>>

\* timer.cancel() takes only if it has not fired.
CancelTimer ==
    /\ Benching("quiesce")
    /\ timer' = IF timer = "armed" THEN "cancelled" ELSE timer
    /\ step' = "join"
    /\ Rest /\ Relays /\ UNCHANGED <<stage, pending, raw, late, crashed, doomed, closing, snap,
                                     gaveUp, dirs>>

\* join() waits five seconds, and the copy is taken whoever is still at it.
JoinAndSnapshot ==
    /\ Benching("join")
    /\ \/ timer \in {"fired", "cancelled"} /\ UNCHANGED gaveUp
       \/ timer \in {"firing", "closing"} /\ gaveUp' = TRUE
    /\ snap' = stats /\ step' = "stop"
    /\ Rest /\ Relays /\ UNCHANGED <<stage, pending, raw, late, timer, crashed, doomed, closing,
                                     dirs>>

\* stop(): the flag first, then the pairs are taken out under the lock.
RaiseClosing ==
    /\ Benching("stop") /\ ~closing
    /\ closing' = TRUE
    /\ Rest /\ Relays /\ UNCHANGED <<stage, pending, raw, late, step, timer, crashed, doomed,
                                     snap, gaveUp, dirs>>

TakeAll ==
    /\ Benching("stop") /\ closing
    /\ doomed' = tracked /\ tracked' = {} /\ step' = "close"
    /\ Rest /\ UNCHANGED <<link, cutting, stats, stage, pending, raw, late, timer, crashed,
                           closing, snap, gaveUp, dirs>>

ProxyStopped ==
    /\ Benching("close") /\ doomed = {}
    /\ step' = "stopped"
    /\ Rest /\ Relays /\ UNCHANGED <<stage, pending, raw, late, timer, crashed, doomed, closing,
                                     snap, gaveUp, dirs>>

SealYcsb ==
    /\ Benching("stopped")
    /\ IF crashed THEN Raise("error") /\ UNCHANGED dirs
                  ELSE Return("art") /\ dirs' = dirs \cup {"art"}
    /\ Rest /\ Relays /\ UNCHANGED <<late, step, timer, crashed, doomed, closing, snap, gaveUp>>

(***************************************************************************)
(* The proxy's other threads                                               *)
(***************************************************************************)

\* None of them touches the runner, the plan or the run's own variables.
Elsewhere == UNCHANGED <<runnerVars, plan, step, crashed, closing, snap, gaveUp>>

TimerFires ==
    /\ timer = "armed" /\ timer' = "firing"
    /\ Elsewhere /\ UNCHANGED <<link, tracked, cutting, doomed, stats>>

\* reset_connections: counts and forgets every tracked pair, then closes.
ResetAll ==
    /\ timer = "firing" /\ plan = "reset"
    /\ timer' = "closing" /\ cutting' = tracked /\ tracked' = {}
    /\ stats' = [stats EXCEPT !.reset = @ + Cardinality(tracked), !.at = @ + 1]
    /\ Elsewhere /\ UNCHANGED <<link, doomed>>

Stall ==
    /\ timer = "firing" /\ plan = "stall"
    /\ timer' = "fired"
    /\ stats' = [stats EXCEPT !.windows = @ + 1, !.at = @ + 1]
    /\ Elsewhere /\ UNCHANGED <<link, tracked, cutting, doomed>>

\* The timer and stop() each close, one by one, the pairs they took out.
ClosePair(c) ==
    /\ \/ c \in cutting /\ cutting' = cutting \ {c} /\ UNCHANGED doomed
       \/ c \in doomed /\ doomed' = doomed \ {c} /\ UNCHANGED cutting
    /\ link' = [link EXCEPT ![c] = IF @ = "up" THEN "down" ELSE @]
    /\ Elsewhere /\ UNCHANGED <<timer, tracked, stats>>

ResetDone ==
    /\ timer = "closing" /\ cutting = {} /\ timer' = "fired"
    /\ Elsewhere /\ UNCHANGED <<link, tracked, cutting, doomed, stats>>

\* The tool opens connections only while it runs.
Accept(c) ==
    /\ Benching("tool") /\ Proxied /\ link[c] = "none"
    /\ link' = [link EXCEPT ![c] = "handshake"]
    /\ Elsewhere /\ UNCHANGED <<timer, tracked, cutting, doomed, stats>>

\* Mutant: the handshake does not look at _closing under the lock.
HandshakeUnchecked(c) ==
    /\ link[c] = "handshake"
    /\ \/ link' = [link EXCEPT ![c] = "gone"] /\ UNCHANGED <<tracked, stats>>
       \/ /\ link' = [link EXCEPT ![c] = "up"]
          /\ tracked' = tracked \cup {c}
          /\ stats' = [stats EXCEPT !.total = @ + 1]
    /\ Elsewhere /\ UNCHANGED <<timer, cutting, doomed>>

\* The upstream may refuse; a proxy already closing closes the pair at once.
Handshake(c) ==
    /\ link[c] = "handshake"
    /\ \/ link' = [link EXCEPT ![c] = "gone"] /\ UNCHANGED <<tracked, stats>>
       \/ /\ ~closing
          /\ link' = [link EXCEPT ![c] = "up"]
          /\ tracked' = tracked \cup {c}
          /\ stats' = [stats EXCEPT !.total = @ + 1]
    /\ Elsewhere /\ UNCHANGED <<timer, cutting, doomed>>

\* Either end hangs up: a pump closes both legs, and then forgets the pair.
HangUp(c) ==
    /\ link[c] = "up" /\ link' = [link EXCEPT ![c] = "down"]
    /\ Elsewhere /\ UNCHANGED <<timer, tracked, cutting, doomed, stats>>

Discard(c) ==
    /\ link[c] = "down" /\ link' = [link EXCEPT ![c] = "gone"]
    /\ tracked' = tracked \ {c}
    /\ Elsewhere /\ UNCHANGED <<timer, cutting, doomed, stats>>

ProxyStep ==
    \/ TimerFires \/ ResetAll \/ Stall \/ ResetDone
    \/ \E c \in Conns : ClosePair(c) \/ Accept(c) \/ Handshake(c) \/ HangUp(c) \/ Discard(c)

DisStep ==
    \/ LoadPhase \/ ArmAndRun \/ ToolExits \/ CancelTimer \/ JoinAndSnapshot
    \/ RaiseClosing \/ TakeAll \/ ProxyStopped \/ SealYcsb
=============================================================================
