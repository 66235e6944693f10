---------------------------- MODULE MCMultiNode ----------------------------
(***************************************************************************)
(* Instances of MultiNode for TLC.                                         *)
(***************************************************************************)
EXTENDS MultiNode, TLC

CONSTANTS r1, r2, h1, h2

\* One replica per frontend.
OneEach == [r \in Replicas |-> IF r = r1 THEN h1 ELSE h2]

\* All replicas on one frontend.
Shared == [r \in Replicas |-> h1]

\* Swapping the two pairs of replica and frontend changes nothing.
PairSymmetry ==
  {f \in Permutations({r1, r2, h1, h2}) :
     {f[r1], f[r2]} = {r1, r2} /\ (f[r1] = r1 <=> f[h1] = h1)
     /\ {f[h1], f[h2]} = {h1, h2}}
=============================================================================
