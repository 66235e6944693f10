--------------------------- MODULE MCReplayEngine ---------------------------
(***************************************************************************)
(* An instance of ReplayEngine for TLC: five nodes with a join, two        *)
(* sibling tools and a chain.                                              *)
(***************************************************************************)
EXTENDS ReplayEngine

CONSTANTS l1, t1, t2, l2, t3

\* l1 issues two sibling tools; l2 waits for both; t3 hangs on one of them.
TheLLMs == {l1, l2}
TheNodes == {l1, t1, t2, l2, t3}
TheParents ==
  [n \in TheNodes |-> CASE n = l1 -> {}
                        [] n \in {t1, t2} -> {l1}
                        [] n = l2 -> {t1, t2}
                        [] n = t3 -> {t1}]
=============================================================================
