------------------------------- MODULE Sandbox -------------------------------
(***************************************************************************)
(* MiniSWEAgentToolExecutor (adapters/minisweagent.py) of several replay   *)
(* processes on one node, and the node's build slots, sandbox_build_slot   *)
(* (miniswe_images.py).  Building, running a command and cleaning up are   *)
(* blocking calls in threads (asyncio.to_thread): a cancelled coroutine    *)
(* goes on without waiting for its thread, which nothing stops.            *)
(***************************************************************************)
EXTENDS ReplayNode

Slots == 0 .. Limit - 1

VARIABLES pc,          \* the executor's coroutine, and the life of its process
          build,       \* the thread of create_environment
          offset,      \* slots tried in this round of the scan
          slot,        \* who holds the lock of a slot file
          command,     \* a thread runs a command in the sandbox
          cleanup,     \* a thread removes the sandbox
          environment, \* self.environment: unset, set, or lost with a cancelled setup()
          sandbox      \* the sandbox directory exists in the scratch space

vars == <<pc, build, offset, slot, command, cleanup, environment, sandbox>>

Alive(r) == pc[r] # "gone"
Builders == {r \in Replays : build[r] = "building"}
Waiting(r) == build[r] \in {"scan", "sleep"}

TypeOK ==
    /\ pc \in [Replays -> {"new", "setup", "ready", "calling", "failed",
                           "closing", "closed", "aborted", "gone"}]
    /\ build \in [Replays -> {"none", "scan", "sleep", "building", "ended"}]
    /\ offset \in [Replays -> 0 .. Limit]
    /\ slot \in [Slots -> Replays \cup {None}]
    /\ command \in [Replays -> BOOLEAN] /\ cleanup \in [Replays -> BOOLEAN]
    /\ environment \in [Replays -> {"unset", "set", "lost"}]
    /\ sandbox \in [Replays -> BOOLEAN]

Init ==
    /\ pc = [r \in Replays |-> "new"]
    /\ build = [r \in Replays |-> "none"]
    /\ offset = [r \in Replays |-> 0]
    /\ slot = [s \in Slots |-> None]
    /\ command = [r \in Replays |-> FALSE]
    /\ cleanup = [r \in Replays |-> FALSE]
    /\ environment = [r \in Replays |-> "unset"]
    /\ sandbox = [r \in Replays |-> FALSE]

Goto(r, label) == pc' = [pc EXCEPT ![r] = label]
FreeSlots(r) == [s \in Slots |-> IF slot[s] = r THEN None ELSE slot[s]]

-----------------------------------------------------------------------------
(* setup() and the thread it starts *)

\* The image is not cached, or a thread begins to build.
Setup(r) ==
    /\ pc[r] = "new"
    /\ \/ Goto(r, "failed") /\ UNCHANGED build
       \/ /\ Goto(r, "setup")
          /\ build' = [build EXCEPT ![r] = IF Limit = 0 THEN "building" ELSE "scan"]
    /\ UNCHANGED <<offset, slot, command, cleanup, environment, sandbox>>

\* One non-blocking flock of the scan over all slots.
TrySlot(r) ==
    /\ build[r] = "scan" /\ offset[r] < Limit
    /\ LET s == (Start[r] + offset[r]) % Limit IN
       IF slot[s] = None
       THEN /\ slot' = [slot EXCEPT ![s] = r]
            /\ build' = [build EXCEPT ![r] = "building"]
            /\ UNCHANGED offset
       ELSE /\ offset' = [offset EXCEPT ![r] = @ + 1]
            /\ UNCHANGED <<slot, build>>
    /\ UNCHANGED <<pc, command, cleanup, environment, sandbox>>

\* Mutant: the scan is not repeated.
PauseForEver(r) ==
    /\ build[r] = "scan" /\ offset[r] = Limit
    /\ build' = [build EXCEPT ![r] = "sleep"]
    /\ offset' = [offset EXCEPT ![r] = 0]
    /\ UNCHANGED <<pc, slot, command, cleanup, environment, sandbox>>

\* Every slot was taken: sleep a tenth of a second, then scan again.
Pause(r) ==
    /\ \/ /\ build[r] = "scan" /\ offset[r] = Limit
          /\ build' = [build EXCEPT ![r] = "sleep"]
       \/ /\ build[r] = "sleep"
          /\ build' = [build EXCEPT ![r] = "scan"]
    /\ offset' = [offset EXCEPT ![r] = 0]
    /\ UNCHANGED <<pc, slot, command, cleanup, environment, sandbox>>

\* The builder makes the directory and ends; the slot is given back either way.
\* Only a setup() that still waits for the thread learns of the environment.
BuildEnds(r) ==
    /\ build[r] = "building"
    /\ build' = [build EXCEPT ![r] = "ended"]
    /\ slot' = FreeSlots(r)
    /\ \E ok \in BOOLEAN :
         /\ sandbox' = [sandbox EXCEPT ![r] = ok]
         /\ environment' = [environment EXCEPT ![r] =
                              IF ~ok THEN @ ELSE IF pc[r] = "setup" THEN "set" ELSE "lost"]
         /\ IF pc[r] = "setup" THEN Goto(r, IF ok THEN "ready" ELSE "failed") ELSE UNCHANGED pc
    /\ UNCHANGED <<offset, command, cleanup>>

-----------------------------------------------------------------------------
(* execute() and close() *)

Call(r) ==
    /\ pc[r] = "ready" /\ environment[r] = "set"
    /\ Goto(r, "calling")
    /\ command' = [command EXCEPT ![r] = TRUE]
    /\ UNCHANGED <<build, offset, slot, cleanup, environment, sandbox>>

\* A return code, a timeout or a submission is a result; other errors raise.
CommandEnds(r) ==
    /\ command[r]
    /\ command' = [command EXCEPT ![r] = FALSE]
    /\ \/ pc[r] = "calling" /\ (Goto(r, "ready") \/ Goto(r, "failed"))
       \/ pc[r] # "calling" /\ UNCHANGED pc
    /\ UNCHANGED <<build, offset, slot, cleanup, environment, sandbox>>

\* Mutant: the slot belongs to the coroutine and is given back with it.
CancelFreesSlot(r) ==
    /\ pc[r] \in {"setup", "calling"}
    /\ Goto(r, "failed")
    /\ slot' = FreeSlots(r)
    /\ UNCHANGED <<build, offset, command, cleanup, environment, sandbox>>

\* The engine cancels the task: the coroutine leaves to_thread at once.
Cancel(r) ==
    /\ pc[r] \in {"setup", "calling"}
    /\ Goto(r, "failed")
    /\ UNCHANGED <<build, offset, slot, command, cleanup, environment, sandbox>>

\* Without an environment there is nothing to clean up.
Close(r) ==
    /\ pc[r] \in {"ready", "failed"}
    /\ IF environment[r] = "set"
       THEN Goto(r, "closing") /\ cleanup' = [cleanup EXCEPT ![r] = TRUE]
       ELSE Goto(r, "closed") /\ UNCHANGED cleanup
    /\ UNCHANGED <<build, offset, slot, command, environment, sandbox>>

\* cleanup() removes the directory, or raises out of close().
CleanupEnds(r) ==
    /\ cleanup[r]
    /\ cleanup' = [cleanup EXCEPT ![r] = FALSE]
    /\ \E ok \in BOOLEAN :
         /\ sandbox' = [sandbox EXCEPT ![r] = ~ok]
         /\ IF pc[r] = "closing"
            THEN /\ Goto(r, IF ok THEN "closed" ELSE "aborted")
                 /\ environment' = [environment EXCEPT ![r] = IF ok THEN "unset" ELSE @]
            ELSE UNCHANGED <<pc, environment>>
    /\ UNCHANGED <<build, offset, slot, command>>

CloseCancelled(r) ==
    /\ pc[r] = "closing"
    /\ Goto(r, "aborted")
    /\ UNCHANGED <<build, offset, slot, command, cleanup, environment, sandbox>>

\* asyncio.run() joins its threads before the process ends by itself.
Exit(r) ==
    /\ pc[r] \in {"closed", "aborted"}
    /\ build[r] \in {"none", "ended"} /\ ~command[r] /\ ~cleanup[r]
    /\ Goto(r, "gone")
    /\ UNCHANGED <<build, offset, slot, command, cleanup, environment, sandbox>>

\* A kill takes the threads along and leaves what they made on the disk; the
\* kernel gives the slot's lock back.
Kill(r) ==
    /\ Alive(r)
    /\ Goto(r, "gone")
    /\ slot' = FreeSlots(r)
    /\ build' = [build EXCEPT ![r] = "ended"]
    /\ command' = [command EXCEPT ![r] = FALSE]
    /\ cleanup' = [cleanup EXCEPT ![r] = FALSE]
    /\ sandbox' = [sandbox EXCEPT ![r] = @ \/ build[r] = "building"]
    /\ UNCHANGED <<offset, environment>>

Thread(r) == TrySlot(r) \/ Pause(r) \/ BuildEnds(r)

Next == \E r \in Replays :
    \/ Setup(r) \/ Thread(r) \/ Call(r) \/ CommandEnds(r) \/ Cancel(r) \/ Close(r)
    \/ CleanupEnds(r) \/ CloseCancelled(r) \/ Exit(r) \/ Kill(r)

\* The building threads run, and a build ends: its subprocesses have timeouts.
Spec == Init /\ [][Next]_vars
        /\ \A r \in Replays : WF_vars(Thread(r))

-----------------------------------------------------------------------------
(* Properties *)

\* At most Limit sandboxes are built at once on the node, each under a slot of
\* its own, whichever processes are cancelled or killed while they build.
BuildsBounded ==
    Limit > 0 => /\ \A r \in Builders : \E s \in Slots : slot[s] = r
                 /\ Cardinality(Builders) <= Limit

\* After a close() that returned, a sandbox is left, or still being built, only
\* because setup() was cancelled while its thread worked; every sandbox the
\* executor was given is gone, failed calls and cancelled ones included.
KnownSandboxRemoved ==
    \A r \in Replays : pc[r] = "closed" =>
        /\ environment[r] # "set" /\ ~cleanup[r]
        /\ sandbox[r] => environment[r] = "lost"

SandboxesBounded == BuildsBounded /\ KnownSandboxRemoved

\* Whoever waits for a slot gets one, although others are killed while they
\* hold theirs.
WaiterBuilds == \A r \in Replays : Waiting(r) ~> ~Waiting(r)
=============================================================================
