---------------------------- MODULE MCComponents ----------------------------
(* Instances for TLC of the components of module Components. *)
EXTENDS Components, TLC

CONSTANTS r1, r2, r3, c1, c2, k1

\* Two of three process ids are equal modulo the number of slots.
Starts == r1 :> 0 @@ r2 :> 1 @@ r3 :> 0
Homes  == c1 :> 0 @@ c2 :> 1

(* Of two collectors that name no state directory neither has to do with the *)
(* other, so one that does is there; the other one may or may not.           *)
Named    == ComponentsInit /\ a_named[k1]
Instance == Named /\ [][ComponentsNext]_allVars /\ Fairness

(* Setups, closes, waits for a slot or for an image cache's lock, interrupted *)
(* packs and sweeps all end:                                                 *)
(* SetupAndCloseEnd, WaiterBuilds and StagingEnds of one process each,        *)
(* MembersStop and SweepStops, as one formula.                                *)
Begun ==
    \/ which = "gateway" /\ G!Pending(r1)
    \/ which = "sandbox" /\ S!Waiting(r3)
    \/ which = "pack" /\ P!Stopping
    \/ which = "sweep" /\ W!Stopping
    \/ which = "images" /\ i_pc["stage 1"] = "idle"
Over ==
    \/ which = "gateway" /\ ~G!Pending(r1)
    \/ which = "sandbox" /\ ~S!Waiting(r3)
    \/ which = "pack" /\ P!Stopped
    \/ which = "sweep" /\ W!Stopped
    \/ which = "images" /\ i_pc["stage 1"] \in {"done", "failed", "killed"}

ComponentsEnd == Begun ~> Over
=============================================================================
