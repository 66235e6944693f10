----------------------------- MODULE PackMembers -----------------------------
(* The independent experiments of one batch job. *)
CONSTANTS Members
=============================================================================
