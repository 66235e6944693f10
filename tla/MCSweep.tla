------------------------------- MODULE MCSweep -------------------------------
(* The instance of Sweep for TLC in which a point's exported verdict is     *)
(* compared with its checks; MCComponents has the other properties.         *)
EXTENDS Sweep
=============================================================================
