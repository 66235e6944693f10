--------------------------- MODULE MCCaptureProxy ---------------------------
(***************************************************************************)
(* Instances of CaptureProxy for TLC: one trace with two calls and one     *)
(* with a single call.                                                     *)
(***************************************************************************)
EXTENDS CaptureProxy

CONSTANTS c1, c2, c3, t1, t2

TheCalls   == {c1, c2, c3}
TheTraces  == {t1, t2}
TheTraceOf == [c \in TheCalls |-> IF c = c3 THEN t2 ELSE t1]
TheScopes  == {t1, None}

\* Two calls, of which the collector of t1 waits for one and the other waiter
\* for both.
FewCalls   == {c1, c3}
FewTraceOf == [c \in FewCalls |-> IF c = c3 THEN t2 ELSE t1]
=============================================================================
