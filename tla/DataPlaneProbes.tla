--------------------------- MODULE DataPlaneProbes ----------------------------
(***************************************************************************)
(* The data-plane probes of the agent-runtime domain: a job is either one  *)
(* of the fault-injecting probes, which may meet others on the same mock   *)
(* server (FaultProbes), or one of the measuring probes, which has the     *)
(* platform to itself (LoadProbes).  The dispatcher knows no other probe   *)
(* (dataplane_dispatch.py).                                                *)
(***************************************************************************)
EXTENDS FaultProbes, LoadProbes

dataPlaneVars == <<faultVars, loadVars>>

FaultParked ==
    /\ kind = [p \in Probes |-> "none"] /\ serial = FALSE /\ pace = 1 /\ ahead = 0
    /\ point = [p \in Probes |-> "parked"]
    /\ counts = [c \in Probes \cup {None} |-> 0] /\ tried = counts
    /\ fault = NoFault /\ latency = None
    /\ agent = [p \in Probes |-> Idle] /\ heard = [p \in Probes |-> "pending"]
    /\ observed = [p \in Probes |-> 0] /\ upsets = 0 /\ hits = {}
    /\ alone = [p \in Probes |-> TRUE]
    /\ held = [p \in Probes |-> FALSE] /\ cut = held /\ again = held

LoadParked ==
    /\ measured = [impl |-> "none", name |-> "none"] /\ world = [plain |-> TRUE]
    /\ seen = <<>> /\ blips = 0 /\ tally = NoTally /\ started = 0 /\ over = FALSE
    /\ crew = [w \in Workers |-> "idle"]

DataPlaneInit ==
    \/ FaultInit /\ LoadParked
    \/ LoadInit /\ FaultParked

DataPlaneNext ==
    \/ FaultNext /\ UNCHANGED loadVars
    \/ LoadNext /\ UNCHANGED faultVars

DataPlaneSpec == DataPlaneInit /\ [][DataPlaneNext]_dataPlaneVars
=============================================================================
