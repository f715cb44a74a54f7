------------------------------ MODULE Console ------------------------------
(***************************************************************************)
(* The viewer as one program: what it does is start runs under a cap       *)
(* (ConsoleLaunch), answer requests about the target configs               *)
(* (ConsoleRequests), or show records (ConsoleViews).  The three share no  *)
(* state but the process, so a behaviour is one of them with the others at *)
(* rest.                                                                   *)
(***************************************************************************)
EXTENDS ConsoleLaunch, ConsoleRequests, ConsoleViews

VARIABLE scene   \* which of the three

LaunchAtRest ==
    /\ process = [r \in Runs |-> "gone"] /\ row = [r \in Runs |-> "none"]
    /\ fresh = {} /\ handler = [h \in Handlers |-> "idle"] /\ restarted = TRUE

RequestsAtRest ==
    /\ file = "absent" /\ allow = FALSE
    /\ at = [h \in Threads |-> "idle"] /\ req = [h \in Threads |-> Nothing]
    /\ saw = [h \in Threads |-> "absent"] /\ touched = {} /\ orphans = {}
    /\ answer = Nothing
    /\ child = [r \in Launches |-> "none"] /\ moved = {}
    /\ asked = [r \in Launches |-> "absent"] /\ conf = [r \in Launches |-> "unread"]
    /\ held = 0 /\ upsets = 0 /\ edited = FALSE /\ masked = FALSE

ListsAtRest ==
    /\ version = [p \in Paths |-> 0] /\ written = 0 /\ removed = 0
    /\ cache = << >> /\ step = [t \in Listers |-> "idle"]
    /\ live = [t \in Listers |-> {}] /\ found = live /\ stale = live
    /\ key = [t \in Listers |-> 0] /\ rows = [t \in Listers |-> << >>]
    /\ been = [t \in Listers |-> [p \in Paths |-> {}]] /\ crossed = {}

ConsoleInit ==
    \/ /\ scene = "launch" /\ Init
       /\ RequestsAtRest /\ ListsAtRest /\ page = << >>
    \/ /\ scene = "requests" /\ RequestInit
       /\ LaunchAtRest /\ ListsAtRest /\ page = << >>
    \/ /\ scene = "lists" /\ ListInit
       /\ LaunchAtRest /\ RequestsAtRest /\ page = << >>
    \/ /\ scene = "pages" /\ PageInit
       /\ LaunchAtRest /\ RequestsAtRest /\ ListsAtRest

ConsoleNext ==
    \/ scene = "launch"   /\ Next        /\ UNCHANGED <<scene, requestVars, viewVars>>
    \/ scene = "requests" /\ RequestNext /\ UNCHANGED <<scene, vars, viewVars>>
    \/ scene = "lists"    /\ ViewNext    /\ UNCHANGED <<scene, vars, requestVars>>

ConsoleSpec == /\ ConsoleInit /\ [][ConsoleNext]_<<scene, vars, requestVars, viewVars>>
               /\ WF_vars(List)
               /\ \A r \in Runs : WF_vars(GracePasses(r)) /\ WF_vars(End(r))

\* What the console shows of the archive is true, and the same on every page
\* (ListingsAreTrue, PagesAgree).
ViewsHold == ListingsAreTrue /\ PagesAgree
=============================================================================
