----------------------------- MODULE CostBudget -----------------------------
(***************************************************************************)
(* The cumulative cost cap: core/cost_budget.py and the two places where   *)
(* execute() uses it, over every run that shares a results directory.  A   *)
(* run plan drives its runs one after another; the viewer's console starts *)
(* several at once.  The ledger is one JSON file, rewritten in place       *)
(* without a lock; while it is being rewritten, and after a crash in the   *)
(* middle of it, it does not parse and is read as an empty ledger.         *)
(***************************************************************************)
EXTENDS Naturals, FiniteSets, FiniteSetsExt

CONSTANTS
    Runs,        \* provisioning runs that share the results directory
    Budget,      \* --cost-budget, in units of money
    MaxCost,     \* bound: the highest estimate a caller gives
    MaxPrice,    \* bound: the highest price the pricing enricher puts on a run
    MaxActive,   \* runs in flight at once: 1 for a run plan, 4 for the console
    MaxLosses    \* bound: runs interrupted or killed after they spent

ASSUME BudgetAssumption == Budget \in Nat /\ MaxCost \in Nat /\ MaxPrice \in Nat
ASSUME LimitsAssumption == MaxActive \in Nat /\ MaxLosses \in Nat
ASSUME RunsAssumption == IsFiniteSet(Runs)

VARIABLES place,    \* where each run is
          est,      \* target["estimated_cost_usd"]
          cost,     \* what run_cost_usd says the run cost
          total, entries,   \* the ledger file
          readable,         \* does the file parse?
          size,             \* its length, counted in entries
          view,     \* the data each run loaded: <<total, entries>>
          losses,   \* runs lost: interrupted, or killed in the rewrite, after they spent
          crowded   \* history: was a run ever admitted while another was in flight?

ledger     == <<total, entries, readable, size>>
budgetVars == <<place, est, cost, ledger, view, losses, crowded>>

BudgetInit ==
    /\ place = [r \in Runs |-> "new"]
    /\ est \in [Runs -> 0 .. MaxCost]
    /\ cost = [r \in Runs |-> 0]
    /\ total = 0 /\ entries = {} /\ readable = TRUE /\ size = 0
    /\ view = [r \in Runs |-> <<0, {}>>]
    /\ losses = 0 /\ crowded = FALSE

InFlight == {r \in Runs : place[r] \in {"running", "load", "rewrite", "fill"}}

Move(r, where) == place' = [place EXCEPT ![r] = where]

\* _load: an unreadable ledger is an empty one.
Loaded == IF readable THEN <<total, entries>> ELSE <<0, {}>>

\* Mutant of WouldExceed: what the run itself may cost is not counted.
SpentExceeds(spent, estimate) == spent >= Budget

\* budget_would_exceed(spent, estimate, budget)
WouldExceed(spent, estimate) == spent + estimate >= Budget

\* The gate of execute(): refused before anything is provisioned, or provisioning.
Refused(r) ==
    /\ place[r] = "new"
    /\ WouldExceed(Loaded[1], est[r])
    /\ Move(r, "refused")
    /\ UNCHANGED <<est, cost, ledger, view, losses, crowded>>

Admitted(r) ==
    /\ place[r] = "new" /\ Cardinality(InFlight) < MaxActive
    /\ ~WouldExceed(Loaded[1], est[r])
    /\ Move(r, "running")
    /\ crowded' = (crowded \/ InFlight # {})
    /\ UNCHANGED <<est, cost, ledger, view, losses>>

\* run_cost_usd: what the pricing enricher computed from the metered usage, which the
\* caller's estimate has no part in; without a price, the estimate itself.
Realized(r) == 0 .. MaxPrice \union {est[r]}

Recorded(r) ==
    /\ place[r] = "running"
    /\ \E c \in Realized(r) : cost' = [cost EXCEPT ![r] = c]
    /\ Move(r, "load")
    /\ UNCHANGED <<est, ledger, view, losses, crowded>>

\* Interrupted or killed: the money is spent and execute() never reaches the ledger.
Lost(r) ==
    /\ place[r] = "running" /\ losses < MaxLosses
    /\ \E c \in Realized(r) : cost' = [cost EXCEPT ![r] = c]
    /\ Move(r, "done")
    /\ losses' = losses + 1
    /\ UNCHANGED <<est, ledger, view, crowded>>

----------------------------------------------------------------------------
(* CostLedger.add: load, truncate, write.                                  *)

Load(r) ==
    /\ place[r] = "load"
    /\ view' = [view EXCEPT ![r] = Loaded]
    /\ Move(r, "rewrite")
    /\ UNCHANGED <<est, cost, ledger, losses, crowded>>

Truncate(r) ==
    /\ place[r] = "rewrite"
    /\ readable' = FALSE /\ size' = 0
    /\ Move(r, "fill")
    /\ UNCHANGED <<est, cost, total, entries, view, losses, crowded>>

\* Mutant of Fill: the total is taken from the file as it is now, the entries from the
\* copy that was loaded.
FillMixed(r) ==
    /\ place[r] = "fill"
    /\ total' = total + cost[r]
    /\ entries' = view[r][2] \union {r}
    /\ readable' = TRUE /\ size' = Cardinality(entries')
    /\ Move(r, "done")
    /\ UNCHANGED <<est, cost, view, losses, crowded>>

\* Mutant of Fill: the entry replaces the entries before it.
FillOnlyMine(r) ==
    /\ place[r] = "fill"
    /\ total' = view[r][1] + cost[r]
    /\ entries' = {r}
    /\ readable' = TRUE /\ size' = 1
    /\ Move(r, "done")
    /\ UNCHANGED <<est, cost, view, losses, crowded>>

\* The text goes to the start of the file.  What another run wrote since the
\* truncation shows behind it when that text was the longer one.
Fill(r) ==
    /\ place[r] = "fill"
    /\ total' = view[r][1] + cost[r]
    /\ entries' = view[r][2] \union {r}
    /\ LET length == Cardinality(entries') IN
         /\ readable' \in IF length > size THEN {TRUE}
                          ELSE IF length < size THEN {FALSE} ELSE BOOLEAN
         /\ size' = IF length > size THEN length ELSE size
    /\ Move(r, "done")
    /\ UNCHANGED <<est, cost, view, losses, crowded>>

\* The process dies in the rewrite: a truncated ledger stays.
DieInRewrite(r) ==
    /\ place[r] = "fill" /\ losses < MaxLosses
    /\ Move(r, "done")
    /\ losses' = losses + 1
    /\ UNCHANGED <<est, cost, ledger, view, crowded>>

AllOver == (\A r \in Runs : place[r] \in {"refused", "done"}) /\ UNCHANGED budgetVars

Step(r) == \/ Refused(r) \/ Admitted(r) \/ Recorded(r) \/ Lost(r)
           \/ Load(r) \/ Truncate(r) \/ Fill(r) \/ DieInRewrite(r)

BudgetNext == (\E r \in Runs : Step(r)) \/ AllOver

BudgetSpec == BudgetInit /\ [][BudgetNext]_budgetVars

----------------------------------------------------------------------------
(* Properties.                                                             *)

CostOf(S) == MapThenSumSet(LAMBDA r : cost[r], S)

\* The ledger never charges for what was not spent: its total is the cost of the runs
\* it lists, whatever updates were lost, so a run is never refused for money nobody
\* spent.
NeverOvercharges == readable => total = CostOf(entries)

\* Runs that came one after another and ended by themselves.
Orderly == ~crowded /\ losses = 0

\* As long as the runs of a results directory come one after another and end by
\* themselves, they pass the budget by no more than what one of them cost over its
\* estimate: the gate of each sees the cost of all that came before.  (The docstring of
\* cost_budget.py says that the budget caps the realized cost; a run is gated by its
\* estimate, 0 unless the caller gives one, and priced by its usage.)
BudgetCaps ==
    Orderly => \/ CostOf(Runs) = 0
               \/ \E r \in Runs : CostOf(Runs \ {r}) + est[r] < Budget

\* Then, too, whatever was spent is in the ledger that the next admission reads.
EveryRunBooked ==
    Orderly /\ InFlight = {} => {r \in Runs : cost[r] > 0} \subseteq Loaded[2]

\* As long as runs come one after another and end by themselves, the ledger does its
\* work: only one run's misjudged cost can pass the budget, and no later gate is
\* missing a cost.
OrderlyRunsAreCapped == BudgetCaps /\ EveryRunBooked
=============================================================================
