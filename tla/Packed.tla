------------------------------- MODULE Packed -------------------------------
(***************************************************************************)
(* run_pack (experiments/multi/packed.py): one batch job runs independent  *)
(* experiments, each behind an ssh client whose stdin is the experiment's  *)
(* leash (until_disconnect).  A signal, or a member that raises, cancels   *)
(* the members; a second one cancels them again in their cleanup.          *)
(***************************************************************************)
EXTENDS Naturals, PackMembers

VARIABLES pack,     \* run_pack: where its coroutine is
          cancels,  \* how often the members were cancelled
          status,   \* what status.json says
          pc,       \* run_member: where the task is
          file,     \* what the member's status file says
          ssh,      \* its ssh client
          stdin,    \* the pipe to ssh is open
          remote    \* the experiment on the member's coordinator node

vars == <<pack, cancels, status, pc, file, ssh, stdin, remote>>

Over == pack \in {"returned", "raised", "killed"}
Ended(m) == pc[m] \in {"done", "raised", "cancelled"}
AllEnded == \A m \in Members : Ended(m)
Exited(m) == ssh[m] \in {"zero", "nonzero"}

TypeOK ==
    /\ pack \in {"waiting", "cleanup", "joined", "returned", "raised", "killed"}
    /\ cancels \in 0 .. 2
    /\ status \in {"none", "interrupted", "completed", "failed"}
    /\ pc \in [Members -> {"new", "spawn", "wait", "drain", "reap", "done", "raised", "cancelled"}]
    /\ file \in [Members -> {"none", "completed", "failed"}]
    /\ ssh \in [Members -> {"none", "running", "zero", "nonzero"}]
    /\ stdin \in [Members -> BOOLEAN]
    /\ remote \in [Members -> {"none", "running", "ok", "bad", "stopped"}]

Init ==
    /\ pack = "waiting" /\ cancels = 0 /\ status = "none"
    /\ pc = [m \in Members |-> "new"]
    /\ file = [m \in Members |-> "none"]
    /\ ssh = [m \in Members |-> "none"]
    /\ stdin = [m \in Members |-> FALSE]
    /\ remote = [m \in Members |-> "none"]

Goto(m, label) == pc' = [pc EXCEPT ![m] = label]

-----------------------------------------------------------------------------
(* run_member *)

\* The result is written, or writing it raises out of the task.
Finish(m, result) ==
    \/ Goto(m, "done") /\ file' = [file EXCEPT ![m] = result]
    \/ Goto(m, "raised") /\ UNCHANGED file

\* The node file is written before the try: an error there raises.  An error
\* of the log or of the spawn is the member's failure.
Begin(m) ==
    /\ ~Over /\ pc[m] = "new"
    /\ \/ Goto(m, "raised") /\ UNCHANGED <<file, ssh, stdin>>
       \/ Finish(m, "failed") /\ UNCHANGED <<ssh, stdin>>
       \/ /\ Goto(m, "spawn")
          /\ ssh' = [ssh EXCEPT ![m] = "running"]
          /\ stdin' = [stdin EXCEPT ![m] = TRUE]
          /\ UNCHANGED file
    /\ UNCHANGED <<pack, cancels, status, remote>>

Spawned(m) ==
    /\ ~Over /\ pc[m] = "spawn"
    /\ Goto(m, "wait")
    /\ UNCHANGED <<pack, cancels, status, file, ssh, stdin, remote>>

\* Mutant: the exit code is not looked at.
WaitEndsWell(m) ==
    /\ ~Over /\ pc[m] = "wait" /\ Exited(m)
    /\ Finish(m, "completed")
    /\ stdin' = [stdin EXCEPT ![m] = FALSE]
    /\ UNCHANGED <<pack, cancels, status, ssh, remote>>

\* The finally clause closes stdin; ssh has ended already.
WaitEnds(m) ==
    /\ ~Over /\ pc[m] = "wait" /\ Exited(m)
    /\ Finish(m, IF ssh[m] = "zero" THEN "completed" ELSE "failed")
    /\ stdin' = [stdin EXCEPT ![m] = FALSE]
    /\ UNCHANGED <<pack, cancels, status, ssh, remote>>

\* After a cancellation ssh ends, or is killed after 120 seconds.
DrainEnds(m) ==
    /\ ~Over /\ pc[m] = "drain"
    /\ IF Exited(m)
       THEN Goto(m, "cancelled") /\ UNCHANGED ssh
       ELSE Goto(m, "reap") /\ ssh' = [ssh EXCEPT ![m] = "nonzero"]
    /\ UNCHANGED <<pack, cancels, status, file, stdin, remote>>

Reap(m) ==
    /\ ~Over /\ pc[m] = "reap"
    /\ Goto(m, "cancelled")
    /\ UNCHANGED <<pack, cancels, status, file, ssh, stdin, remote>>

\* What task.cancel() does to a member: a task that never ran is dropped, a
\* spawn is undone by asyncio, the wait turns into the finally clause, and a
\* finally clause that is cancelled itself is left at once.
CancelledPc(m) ==
    CASE Ended(m) -> pc[m]
      [] pc[m] = "wait" /\ ~Exited(m) -> "drain"
      [] OTHER -> "cancelled"

CancelMembers ==
    /\ pc' = [m \in Members |-> CancelledPc(m)]
    /\ ssh' = [m \in Members |-> IF pc[m] = "spawn" /\ ~Exited(m) THEN "nonzero" ELSE ssh[m]]
    /\ stdin' = [m \in Members |-> stdin[m] /\ Ended(m)]
    /\ cancels' = cancels + 1

-----------------------------------------------------------------------------
(* run_pack *)

\* The shielded join is interrupted by a signal, or a member raised: status.json
\* says so, unless it cannot be written, and the members are cancelled.
Interrupt ==
    /\ pack = "waiting"
    /\ status' \in {"interrupted", status}
    /\ CancelMembers
    /\ pack' = "cleanup"
    /\ UNCHANGED <<file, remote>>

Signal == cancels < 2 /\ Interrupt

MemberRaised == (\E m \in Members : pc[m] = "raised") /\ Interrupt

\* A signal during the finally clause: the gather passes it on to the members
\* and still waits for them; with all of them done it only drops the result.
SignalAgain ==
    /\ pack \in {"cleanup", "joined"} /\ cancels < 2
    /\ CancelMembers
    /\ pack' = "cleanup"
    /\ UNCHANGED <<status, file, remote>>

MembersEnd ==
    /\ pack = "cleanup" /\ AllEnded
    /\ pack' = "raised"
    /\ UNCHANGED <<cancels, status, pc, file, ssh, stdin, remote>>

Join ==
    /\ pack = "waiting" /\ \A m \in Members : pc[m] = "done"
    /\ pack' = "joined"
    /\ UNCHANGED <<cancels, status, pc, file, ssh, stdin, remote>>

WriteStatus ==
    /\ pack = "joined"
    /\ \/ /\ pack' = "returned"
          /\ status' = IF \A m \in Members : file[m] = "completed" THEN "completed" ELSE "failed"
       \/ pack' = "raised" /\ UNCHANGED status
    /\ UNCHANGED <<cancels, pc, file, ssh, stdin, remote>>

\* The process is killed: the kernel closes its pipes.
Kill ==
    /\ ~Over
    /\ pack' = "killed"
    /\ stdin' = [m \in Members |-> FALSE]
    /\ UNCHANGED <<cancels, status, pc, file, ssh, remote>>

-----------------------------------------------------------------------------
(* ssh and the experiment at its other end *)

RemoteStarts(m) ==
    /\ ssh[m] = "running" /\ remote[m] = "none"
    /\ remote' = [remote EXCEPT ![m] = "running"]
    /\ UNCHANGED <<pack, cancels, status, pc, file, ssh, stdin>>

RemoteEnds(m) ==
    /\ remote[m] = "running"
    /\ \E result \in {"ok", "bad"} : remote' = [remote EXCEPT ![m] = result]
    /\ UNCHANGED <<pack, cancels, status, pc, file, ssh, stdin>>

\* until_disconnect: end of file on stdin cancels the experiment.
RemoteStops(m) ==
    /\ remote[m] = "running" /\ (stdin[m] => Exited(m))
    /\ remote' = [remote EXCEPT ![m] = "stopped"]
    /\ UNCHANGED <<pack, cancels, status, pc, file, ssh, stdin>>

\* ssh ends with the remote command's code.
SshEnds(m) ==
    /\ ssh[m] = "running" /\ remote[m] \in {"ok", "bad", "stopped"}
    /\ ssh' = [ssh EXCEPT ![m] = IF remote[m] = "ok" THEN "zero" ELSE "nonzero"]
    /\ UNCHANGED <<pack, cancels, status, pc, file, stdin, remote>>

ConnectionFails(m) ==
    /\ ssh[m] = "running"
    /\ ssh' = [ssh EXCEPT ![m] = "nonzero"]
    /\ UNCHANGED <<pack, cancels, status, pc, file, stdin, remote>>

Member(m) == Begin(m) \/ Spawned(m) \/ WaitEnds(m) \/ DrainEnds(m) \/ Reap(m)

Coordinator == MemberRaised \/ MembersEnd \/ Join \/ WriteStatus

Next ==
    \/ Coordinator \/ Signal \/ SignalAgain \/ Kill
    \/ \E m \in Members : \/ Member(m) \/ RemoteStarts(m) \/ RemoteEnds(m)
                          \/ RemoteStops(m) \/ SshEnds(m) \/ ConnectionFails(m)

\* asyncio runs ready tasks, ssh forwards an end and an end of file.  Nothing
\* forces an experiment to end, or a connection to be made.
Spec == Init /\ [][Next]_vars
        /\ WF_vars(Coordinator)
        /\ \A m \in Members : WF_vars(Member(m)) /\ WF_vars(RemoteStops(m)) /\ WF_vars(SshEnds(m))

-----------------------------------------------------------------------------
(* Properties *)

\* What the status files claim is so: a completed pack's experiments all ended
\* well, a failed one has a result of every member, and only an interrupted or
\* killed pack, or one whose disk failed, leaves members without a result.
StatusTells ==
    /\ status = "completed" => \A m \in Members : remote[m] = "ok" /\ file[m] = "completed"
    /\ status = "failed" => /\ \A m \in Members : file[m] # "none"
                            /\ \E m \in Members : file[m] = "failed"
    /\ status = "interrupted" => cancels > 0

\* A pack that has ended leaves an ssh client running only if its members were
\* cancelled twice, and never one whose experiment is not told to stop.
LeftOnlyWhenCut ==
    Over => \A m \in Members : ssh[m] = "running" =>
        ~stdin[m] /\ (pack = "killed" \/ cancels = 2)

PackTells == StatusTells /\ LeftOnlyWhenCut

\* After a signal, a failing member or the death of the pack, the pack ends and
\* so does every experiment it started.
Stopping == cancels > 0 \/ pack = "killed"
Stopped == Over /\ \A m \in Members : remote[m] # "running"
MembersStop == Stopping ~> Stopped
=============================================================================
