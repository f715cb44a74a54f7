----------------------------- MODULE RunContract -----------------------------
(***************************************************************************)
(* What one benchmark run promises to whoever pays for it, without its     *)
(* stages: nothing is spent before the gates have opened or after the      *)
(* window has closed, and a run that spent leaves a record only once its   *)
(* resources have been through teardown.  A run that is killed, or whose   *)
(* record the store refuses, leaves no record at all.                      *)
(***************************************************************************)
CONSTANT Runtimes

VARIABLES phase,   \* gates -> window -> closing -> closed -> recorded, or gone
          used     \* the runtimes this run has ever created

vars == <<phase, used>>

Phases == {"gates", "window", "closing", "closed", "recorded", "gone"}

Init == phase = "gates" /\ used = {}

\* A gate refuses: the run is closed having spent nothing.
Refuse == phase = "gates" /\ phase' = "closed" /\ UNCHANGED used

Open == phase = "gates" /\ phase' = "window" /\ UNCHANGED used

Spend == /\ phase = "window"
         /\ \E r \in Runtimes \ used : used' = used \union {r}
         /\ UNCHANGED phase

Leave == phase = "window" /\ phase' = "closing" /\ UNCHANGED used

Teardown == phase = "closing" /\ phase' = "closed" /\ UNCHANGED used

Record == phase = "closed" /\ phase' = "recorded" /\ UNCHANGED used

\* The process ends before the record is written.
Vanish == /\ phase \in {"gates", "closing", "closed"}
          /\ phase' = "gone" /\ UNCHANGED used

Next == Refuse \/ Open \/ Spend \/ Leave \/ Teardown \/ Record \/ Vanish

Spec == Init /\ [][Next]_vars
=============================================================================
