------------------------------- MODULE Gateway -------------------------------
(***************************************************************************)
(* OpenClawToolExecutor (adapters/openclaw.py): each replay process leases *)
(* a port, starts its own OpenClaw gateway on it, waits until that gateway *)
(* answers an authenticated probe, sends it the tool calls and closes it.  *)
(* Other programs bind ports at any moment, gateways crash, and any await  *)
(* may be cancelled; a replay process may die without its gateway.         *)
(***************************************************************************)
EXTENDS ReplayNode

VARIABLES pc,       \* where the executor's coroutine is
          port,     \* the port in gateway_url of an owned gateway
          tries,    \* health polls done
          client,   \* self.client is open
          logs,     \* the gateway's log files are open
          lease,    \* who holds the lock of a port's lease file
          bound,    \* who listens on a port
          gateway   \* the life of the replay's gateway process

vars == <<pc, port, tries, client, logs, lease, bound, gateway>>

Setup   == {"spawn", "health", "sleep", "probe"}
Closing == {"aclose", "terminate", "grace", "reap"}
Running(r) == gateway[r] \in {"starting", "up"}
Live(r)    == pc[r] # "gone"

TypeOK ==
    /\ pc \in [Replays -> {"new", "free", "lock", "ready", "calling", "failed",
                           "closed", "cut", "gone"} \cup Setup \cup Closing]
    /\ port \in [Replays -> Ports \cup {None}]
    /\ tries \in [Replays -> 0 .. Polls]
    /\ client \in [Replays -> BOOLEAN] /\ logs \in [Replays -> BOOLEAN]
    /\ lease \in [Ports -> Replays \cup {None}]
    /\ bound \in [Ports -> Replays \cup {None, Other}]
    /\ gateway \in [Replays -> {"none", "starting", "up", "exited"}]

Init ==
    /\ pc = [r \in Replays |-> "new"]
    /\ port = [r \in Replays |-> None]
    /\ tries = [r \in Replays |-> 0]
    /\ client = [r \in Replays |-> FALSE]
    /\ logs = [r \in Replays |-> FALSE]
    /\ lease = [q \in Ports |-> None]
    /\ bound = [q \in Ports |-> None]
    /\ gateway = [r \in Replays |-> "none"]

Goto(r, label) == pc' = [pc EXCEPT ![r] = label]
Free(f, r) == [q \in Ports |-> IF f[q] = r THEN None ELSE f[q]]

-----------------------------------------------------------------------------
(* setup() *)

\* A search without a usable recorded delay fails before anything is started;
\* a trace of recorded searches only needs no gateway; a configured gateway_url
\* needs a client only.  Otherwise the state directory is written first.
Begin(r) ==
    /\ pc[r] = "new"
    /\ \/ Goto(r, "failed") /\ UNCHANGED client
       \/ Goto(r, "ready") /\ UNCHANGED client
       \/ Goto(r, "ready") /\ client' = [client EXCEPT ![r] = TRUE]
       \/ Goto(r, "free") /\ UNCHANGED client
    /\ UNCHANGED <<port, tries, logs, lease, bound, gateway>>

\* _free_port: the kernel names a port nobody listens on at this moment.
FreePort(r) ==
    /\ pc[r] = "free"
    /\ \E q \in Ports : bound[q] = None /\ port' = [port EXCEPT ![r] = q]
    /\ Goto(r, "lock")
    /\ UNCHANGED <<tries, client, logs, lease, bound, gateway>>

\* Mutant: the lock is taken on a descriptor that another process locked.
LockHeldPort(r) ==
    /\ pc[r] = "lock"
    /\ lease' = [lease EXCEPT ![port[r]] = r]
    /\ logs' = [logs EXCEPT ![r] = TRUE]
    /\ Goto(r, "spawn")
    /\ UNCHANGED <<port, tries, client, bound, gateway>>

\* flock without blocking; a lease somebody holds means another port.
LockPort(r) ==
    /\ pc[r] = "lock"
    /\ IF lease[port[r]] = None
       THEN /\ lease' = [lease EXCEPT ![port[r]] = r]
            /\ logs' = [logs EXCEPT ![r] = TRUE]
            /\ Goto(r, "spawn")
       ELSE Goto(r, "free") /\ UNCHANGED <<lease, logs>>
    /\ UNCHANGED <<port, tries, client, bound, gateway>>

\* The gateway program may be missing; otherwise it runs and the client opens.
Spawn(r) ==
    /\ pc[r] = "spawn"
    /\ \/ Goto(r, "failed") /\ UNCHANGED <<client, gateway>>
       \/ /\ gateway' = [gateway EXCEPT ![r] = "starting"]
          /\ client' = [client EXCEPT ![r] = TRUE]
          /\ Goto(r, "health")
    /\ UNCHANGED <<port, tries, logs, lease, bound>>

\* One round of the readiness loop.  /health is public: any listener may pass.
Health(r) ==
    /\ pc[r] = "health"
    /\ \/ ~Running(r) /\ Goto(r, "failed")
       \/ Running(r) /\ bound[port[r]] # None /\ Goto(r, "probe")
       \/ Running(r) /\ Goto(r, IF tries[r] = Polls THEN "failed" ELSE "sleep")
    /\ UNCHANGED <<port, tries, client, logs, lease, bound, gateway>>

Sleep(r) ==
    /\ pc[r] = "sleep"
    /\ tries' = [tries EXCEPT ![r] = @ + 1]
    /\ Goto(r, "health")
    /\ UNCHANGED <<port, client, logs, lease, bound, gateway>>

\* The empty tools/invoke request: only the gateway that was given this task's
\* token rejects it after authentication; every other answer fails the setup.
Probe(r) ==
    /\ pc[r] = "probe"
    /\ \/ bound[port[r]] = r /\ Goto(r, "ready")
       \/ Goto(r, "failed")
    /\ UNCHANGED <<port, tries, client, logs, lease, bound, gateway>>

-----------------------------------------------------------------------------
(* execute() *)

\* A recorded search sleeps and changes nothing; any other call needs a client.
Call(r) ==
    /\ pc[r] = "ready"
    /\ Goto(r, IF client[r] THEN "calling" ELSE "failed")
    /\ UNCHANGED <<port, tries, client, logs, lease, bound, gateway>>

\* A result, tool errors included, comes from a listener that knows the token;
\* every other answer, and a broken connection, raises.  Nothing is retried.
Answer(r) ==
    /\ pc[r] = "calling"
    /\ \/ (port[r] # None => bound[port[r]] = r) /\ Goto(r, "ready")
       \/ Goto(r, "failed")
    /\ UNCHANGED <<port, tries, client, logs, lease, bound, gateway>>

\* The engine cancels the task at one of its awaits.
Cancel(r) ==
    /\ pc[r] \in Setup \cup {"calling"}
    /\ Goto(r, "failed")
    /\ UNCHANGED <<port, tries, client, logs, lease, bound, gateway>>

-----------------------------------------------------------------------------
(* close(): the client, the process, the lease, the logs, in this order *)

Close(r) ==
    /\ pc[r] \in {"ready", "failed"}
    /\ Goto(r, IF client[r] THEN "aclose" ELSE "terminate")
    /\ UNCHANGED <<port, tries, client, logs, lease, bound, gateway>>

CloseClient(r) ==
    /\ pc[r] = "aclose"
    /\ client' = [client EXCEPT ![r] = FALSE]
    /\ Goto(r, "terminate")
    /\ UNCHANGED <<port, tries, logs, lease, bound, gateway>>

Release(r) ==
    /\ lease' = Free(lease, r)
    /\ logs' = [logs EXCEPT ![r] = FALSE]
    /\ Goto(r, "closed")

\* SIGTERM goes to a gateway that still runs.
Terminate(r) ==
    /\ pc[r] = "terminate"
    /\ IF Running(r) THEN Goto(r, "grace") /\ UNCHANGED <<lease, logs>> ELSE Release(r)
    /\ UNCHANGED <<port, tries, client, bound, gateway>>

\* It ends, or five seconds pass and it is killed.
GraceEnds(r) ==
    /\ pc[r] = "grace"
    /\ \/ ~Running(r) /\ Release(r) /\ UNCHANGED <<bound, gateway>>
       \/ /\ Running(r)
          /\ gateway' = [gateway EXCEPT ![r] = "exited"]
          /\ bound' = Free(bound, r)
          /\ Goto(r, "reap")
          /\ UNCHANGED <<lease, logs>>
    /\ UNCHANGED <<port, tries, client>>

Reap(r) ==
    /\ pc[r] = "reap"
    /\ Release(r)
    /\ UNCHANGED <<port, tries, client, bound, gateway>>

\* Closing the client raises, or close() is cancelled at one of its awaits:
\* everything after that point is skipped.
CloseCut(r) ==
    /\ pc[r] \in {"aclose", "grace", "reap"}
    /\ Goto(r, "cut")
    /\ UNCHANGED <<port, tries, client, logs, lease, bound, gateway>>

-----------------------------------------------------------------------------
(* The processes around the coroutine *)

\* The replay process ends by itself after close(), or is killed before; the
\* kernel gives back its lock.  The gateway may be killed with it, or not.
ProcessEnds(r) ==
    /\ Live(r)
    /\ Goto(r, "gone")
    /\ lease' = Free(lease, r)
    /\ client' = [client EXCEPT ![r] = FALSE]
    /\ logs' = [logs EXCEPT ![r] = FALSE]
    /\ \/ UNCHANGED <<bound, gateway>>
       \/ /\ Running(r)
          /\ gateway' = [gateway EXCEPT ![r] = "exited"]
          /\ bound' = Free(bound, r)
    /\ UNCHANGED <<port, tries>>

\* A gateway binds its port, or finds it taken and exits.
Bind(r) ==
    /\ gateway[r] = "starting"
    /\ IF bound[port[r]] = None
       THEN /\ bound' = [bound EXCEPT ![port[r]] = r]
            /\ gateway' = [gateway EXCEPT ![r] = "up"]
       ELSE /\ gateway' = [gateway EXCEPT ![r] = "exited"]
            /\ UNCHANGED bound
    /\ UNCHANGED <<pc, port, tries, client, logs, lease>>

\* It crashes, or obeys SIGTERM.
GatewayExits(r) ==
    /\ Running(r)
    /\ gateway' = [gateway EXCEPT ![r] = "exited"]
    /\ bound' = Free(bound, r)
    /\ UNCHANGED <<pc, port, tries, client, logs, lease>>

OtherListens(q) ==
    /\ bound[q] \in {None, Other}
    /\ bound' = [bound EXCEPT ![q] = IF @ = None THEN Other ELSE None]
    /\ UNCHANGED <<pc, port, tries, client, logs, lease, gateway>>

Executor(r) ==
    \/ Begin(r) \/ FreePort(r) \/ LockPort(r) \/ Spawn(r) \/ Health(r) \/ Sleep(r)
    \/ Probe(r) \/ Close(r) \/ CloseClient(r) \/ Terminate(r) \/ GraceEnds(r) \/ Reap(r)

Next ==
    \/ \E r \in Replays :
         \/ Executor(r) \/ Call(r) \/ Answer(r) \/ Cancel(r) \/ CloseCut(r)
         \/ ProcessEnds(r) \/ Bind(r) \/ GatewayExits(r)
    \/ \E q \in Ports : OtherListens(q)

\* The coroutine's own steps are taken: every await of setup() and close() has
\* a timeout.  Nothing forces a call to be answered, which has none.
Spec == Init /\ [][Next]_vars /\ \A r \in Replays : WF_vars(Executor(r))

-----------------------------------------------------------------------------
(* Properties *)

\* Two replays whose processes are alive never run gateways for one port: the
\* lease covers the moment between choosing the port and listening on it, and
\* close() keeps it until the gateway has ended, also when it is cut short.
NoSharedPort ==
    \A r, s \in Replays :
        r # s /\ Live(r) /\ Live(s) /\ Running(r) /\ Running(s) => port[r] # port[s]

\* After a close() that returned, the replay has no gateway, listens nowhere,
\* and holds no client, lock or log file.
ClosedIsClean ==
    \A r \in Replays : pc[r] = "closed" =>
        /\ ~Running(r) /\ ~client[r] /\ ~logs[r]
        /\ \A q \in Ports : lease[q] # r /\ bound[q] # r

GatewaysApart == NoSharedPort /\ ClosedIsClean

\* A started gateway's readiness loop and close() come to an end whatever the
\* gateway and the other programs do.
Pending(r) == pc[r] \in Setup \cup Closing
SetupAndCloseEnd == \A r \in Replays : Pending(r) ~> ~Pending(r)
=============================================================================
