-------------------------- MODULE AtMostOncePublish --------------------------
(***************************************************************************)
(* What the publishing boundary promises (core/publish.py): whatever       *)
(* processes publish one immutable result, crash and start again, the      *)
(* publisher is called at most once for each idempotency key, and a call   *)
(* is confirmed only after it was made.                                    *)
(***************************************************************************)
CONSTANTS Keys, Attempts

VARIABLES calls,      \* the calls made: pairs of an attempt and its key
          confirmed   \* those whose success is on record

vars == <<calls, confirmed>>

Init == calls = {} /\ confirmed = {}

Call(a, k) ==
    /\ \A c \in calls : c[2] # k
    /\ calls' = calls \union {<<a, k>>}
    /\ UNCHANGED confirmed

Confirm(c) ==
    /\ c \in calls
    /\ confirmed' = confirmed \union {c}
    /\ UNCHANGED calls

Next == \/ \E a \in Attempts, k \in Keys : Call(a, k)
        \/ \E c \in calls : Confirm(c)

Spec == Init /\ [][Next]_vars
=============================================================================
