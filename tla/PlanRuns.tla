------------------------------ MODULE PlanRuns ------------------------------
(***************************************************************************)
(* The two commands that run more than one benchmark.  `csbench run' with  *)
(* --repeat or --resume is the plan of RunPlan, over several sessions; the *)
(* tasks of `csbench run-plan' (PlanManifest) are plans of one session,    *)
(* never resumed.  A behaviour is of one of them: of the second if it has  *)
(* a plan file.                                                            *)
(***************************************************************************)
EXTENDS RunPlan, PlanManifest

allVars == <<vars, campaignVars>>

PlanInit ==
    /\ Init /\ ManifestInit
    /\ plan = NoPlan => probe = "none"
    /\ plan # NoPlan => now = CHOOSE f \in Fingerprints : TRUE

PlanNext ==
    \/ plan = NoPlan /\ Next /\ UNCHANGED campaignVars
    \/ plan # NoPlan /\ (CampaignStep \/ Killed \/ Watch) /\ UNCHANGED vars

\* execute_plan returns or raises, and a watcher wakes from every sleep; nobody
\* is bound to kill anything.
PlanSpec ==
    /\ PlanInit /\ [][PlanNext]_allVars
    /\ WF_allVars(plan # NoPlan /\ CampaignStep /\ UNCHANGED vars)
    /\ WF_allVars(plan # NoPlan /\ Watch /\ UNCHANGED vars)

\* What is left of a plan tells of all of it: its aggregate, or its manifest.
PlanIsSound == AggregateIsSound /\ ManifestIsTrue

\* What the time after a step holds: a slot resumed from rests, a watched
\* campaign ends, and its watcher is let go.
PlanProgress == ResumedSlotsRest /\ WatchEnds /\ CampaignEnds
=============================================================================
