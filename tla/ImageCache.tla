----------------------------- MODULE ImageCache -----------------------------
(***************************************************************************)
(* The mini-SWE image caches: `prepare` pulls images into a shared cache,  *)
(* `stage_images` copies them to a node-local one, and replays look an     *)
(* image up in either by its source.                                       *)
(*                                                                         *)
(* prepare and stage_images run in any number of processes; each may be    *)
(* killed between any two of its steps, together with the transfer it has  *)
(* started, and what it has renamed into place by then stays.  A lookup    *)
(* may happen at any moment, so what it finds is stated of every state.    *)
(***************************************************************************)
EXTENDS Integers

CONSTANTS
  Sources,       \* image sources, each with a file name of its own
  Preparers,     \* processes that run prepare
  Stagers,       \* processes that run stage_images
  MaxFailures,   \* network failures after which a pull is given up
  MaxCrashes     \* bound on the processes killed

Procs == Preparers \cup Stagers

Nobody == "nobody"

ASSUME CacheAssumption ==
  /\ Preparers \cap Stagers = {} /\ Nobody \notin Procs
  /\ MaxFailures \in Nat \ {0} /\ MaxCrashes \in Nat


VARIABLES
  image,     \* image[d][s]: the file under its final name in cache d
  partial,   \* partial[d][s]: the .partial file
  index,     \* index[d]: sources in the index file
  lock,      \* lock[d]: the process that holds cache d's lock file
  pc,        \* where each process is
  todo,      \* sources the process has yet to deal with
  pool,      \* sources it was asked for
  current,   \* the source it is dealing with
  mem,       \* the index as the process holds it in memory
  failures,  \* network_failures of the current pull
  crashes    \* processes killed so far

diskVars == <<image, partial, index>>
procVars == <<pc, todo, pool, current, mem, failures>>
vars == <<diskVars, lock, procVars, crashes>>

-----------------------------------------------------------------------------
Caches == {"shared", "local"}

\* A file is absent, torn (still being written, or left by a killed writer),
\* an image without the benchmark's workspace, or a good image.
Files  == {"none", "torn", "useless", "good"}
States == {"idle", "index", "next", "pull", "check", "copy", "rename",
           "save", "done", "failed", "killed"}

CacheOf(p) == IF p \in Preparers THEN "shared" ELSE "local"
NoSource == "no source"

\* cached_image finds a usable entry; an empty file is none.
Cached(d, s) == s \in index[d] /\ image[d][s] # "none"

Init ==
  /\ image = [d \in Caches |-> [s \in Sources |-> "none"]]
  /\ partial = [d \in Caches |-> [s \in Sources |-> "none"]]
  /\ index = [d \in Caches |-> {}]
  /\ lock = [d \in Caches |-> Nobody]
  /\ pc = [p \in Procs |-> "idle"]
  /\ pool \in [Procs -> (SUBSET Sources) \ {{}}]
  /\ todo = pool
  /\ current = [p \in Procs |-> NoSource]
  /\ mem = [p \in Procs |-> {}]
  /\ failures = [p \in Procs |-> 0]
  /\ crashes = 0

-----------------------------------------------------------------------------
Goto(p, state) == pc' = [pc EXCEPT ![p] = state]

\* Mutant: the lock file outlives its owner.
EndLocked(p, state) == Goto(p, state) /\ UNCHANGED lock

\* A process ends: the kernel releases its lock.
End(p, state) ==
  /\ Goto(p, state)
  /\ lock' = [d \in Caches |-> IF lock[d] = p THEN Nobody ELSE lock[d]]

\* Both take the lock of their cache: prepare gives up if it is held,
\* stage_images first looks every image up in the shared cache and then waits.
Begin(p) ==
  /\ pc[p] = "idle"
  /\ LET d == CacheOf(p) IN
     \/ /\ p \in Preparers /\ lock[d] # Nobody
        /\ End(p, "failed")
     \/ /\ p \in Stagers /\ \E s \in pool[p] : ~Cached("shared", s)
        /\ End(p, "failed")
     \/ /\ lock[d] = Nobody
        /\ p \in Stagers => \A s \in pool[p] : Cached("shared", s)
        /\ lock' = [lock EXCEPT ![d] = p]
        /\ Goto(p, "index")
  /\ UNCHANGED <<diskVars, todo, pool, current, mem, failures, crashes>>

\* Under the lock, the index file is read once.
ReadIndex(p) ==
  /\ pc[p] = "index"
  /\ mem' = [mem EXCEPT ![p] = index[CacheOf(p)]]
  /\ Goto(p, "next")
  /\ UNCHANGED <<diskVars, lock, todo, pool, current, failures, crashes>>

\* The next source: nothing to do if its image is cached, or a transfer of it.
\* prepare refuses an image file that the index does not know.
NextSource(p) ==
  LET d == CacheOf(p) IN
  /\ pc[p] = "next"
  /\ \/ /\ todo[p] = {}
        /\ End(p, "done")
        /\ UNCHANGED <<todo, current, failures>>
     \/ \E s \in todo[p] :
          /\ todo' = [todo EXCEPT ![p] = @ \ {s}]
          /\ \/ /\ Cached(d, s)
                /\ UNCHANGED <<pc, lock, current, failures>>
             \/ /\ ~Cached(d, s) /\ p \in Preparers /\ image[d][s] # "none"
                /\ End(p, "failed")
                /\ UNCHANGED <<current, failures>>
             \/ /\ ~Cached(d, s)
                /\ p \in Preparers => image[d][s] = "none"
                /\ current' = [current EXCEPT ![p] = s]
                /\ failures' = [failures EXCEPT ![p] = 0]
                /\ Goto(p, IF p \in Preparers THEN "pull" ELSE "copy")
                /\ UNCHANGED lock
  /\ UNCHANGED <<diskVars, pool, mem, crashes>>

SetPartial(p, file) ==
  partial' = [partial EXCEPT ![CacheOf(p)][current[p]] = file]

\* One `pull --force`: it succeeds; it is rate limited and tried again for as
\* long as it takes; the network fails, which is tolerated MaxFailures - 1
\* times; or it fails for good.
Pull(p) ==
  /\ pc[p] = "pull"
  /\ \/ /\ \E file \in {"good", "useless"} : SetPartial(p, file)
        /\ Goto(p, "check")
        /\ UNCHANGED <<lock, failures>>
     \/ /\ SetPartial(p, "torn")
        /\ UNCHANGED <<pc, lock, failures>>
     \/ /\ SetPartial(p, "torn")
        /\ failures' = [failures EXCEPT ![p] = @ + 1]
        /\ IF failures[p] + 1 >= MaxFailures
           THEN End(p, "failed")
           ELSE UNCHANGED <<pc, lock>>
     \/ /\ SetPartial(p, "torn")
        /\ End(p, "failed")
        /\ UNCHANGED failures
  /\ UNCHANGED <<image, index, todo, pool, current, mem, crashes>>

\* Mutant: the pulled image is not checked.
AcceptPulled(p) ==
  /\ pc[p] = "check"
  /\ Goto(p, "save")
  /\ UNCHANGED <<diskVars, lock, todo, pool, current, mem, failures, crashes>>

\* The image must contain the benchmark workspace.
CheckPulled(p) ==
  /\ pc[p] = "check"
  /\ \/ partial["shared"][current[p]] = "good" /\ Goto(p, "save") /\ UNCHANGED lock
     \/ partial["shared"][current[p]] # "good" /\ End(p, "failed")
  /\ UNCHANGED <<diskVars, todo, pool, current, mem, failures, crashes>>

\* shutil.copyfile from the shared cache: it is complete, or the process gives
\* up on an error or a short copy.
Copy(p) ==
  /\ pc[p] = "copy"
  /\ \/ /\ SetPartial(p, image["shared"][current[p]])
        /\ Goto(p, "rename")
        /\ UNCHANGED lock
     \/ SetPartial(p, "torn") /\ End(p, "failed")
  /\ UNCHANGED <<image, index, todo, pool, current, mem, failures, crashes>>

\* partial.replace(target): after the index in prepare, before it in
\* stage_images.
Rename(p) ==
  LET d == CacheOf(p) s == current[p] IN
  /\ pc[p] = "rename"
  /\ image' = [image EXCEPT ![d][s] = partial[d][s]]
  /\ partial' = [partial EXCEPT ![d][s] = "none"]
  /\ Goto(p, IF p \in Preparers THEN "next" ELSE "save")
  /\ UNCHANGED <<index, lock, todo, pool, current, mem, failures, crashes>>

\* Mutant: the index that is written has only the new entry.
SaveEntry(p) ==
  LET d == CacheOf(p) IN
  /\ pc[p] = "save"
  /\ index' = [index EXCEPT ![d] = {current[p]}]
  /\ Goto(p, IF p \in Preparers THEN "rename" ELSE "next")
  /\ UNCHANGED <<image, partial, lock, todo, pool, current, mem, failures, crashes>>

\* write_json(index): the whole index in memory replaces the file atomically.
SaveIndex(p) ==
  LET d == CacheOf(p) s == current[p] IN
  /\ pc[p] = "save"
  /\ mem' = [mem EXCEPT ![p] = @ \cup {s}]
  /\ index' = [index EXCEPT ![d] = mem[p] \cup {s}]
  /\ Goto(p, IF p \in Preparers THEN "rename" ELSE "next")
  /\ UNCHANGED <<image, partial, lock, todo, pool, current, failures, crashes>>

\* A process is killed; a transfer in progress leaves a torn partial file.
Crash(p) ==
  /\ crashes < MaxCrashes
  /\ pc[p] \notin {"idle", "done", "failed", "killed"}
  /\ crashes' = crashes + 1
  /\ End(p, "killed")
  /\ IF pc[p] \in {"pull", "copy"} THEN SetPartial(p, "torn") ELSE UNCHANGED partial
  /\ UNCHANGED <<image, index, todo, pool, current, mem, failures>>

\* The operator runs a killed or failed command again.
Rerun(p) ==
  /\ pc[p] \in {"killed", "failed"}
  /\ Goto(p, "idle")
  /\ todo' = [todo EXCEPT ![p] = pool[p]]
  /\ UNCHANGED <<diskVars, lock, pool, current, mem, failures, crashes>>

Step(p) ==
  \/ Begin(p) \/ ReadIndex(p) \/ NextSource(p) \/ Pull(p) \/ CheckPulled(p)
  \/ Copy(p) \/ Rename(p) \/ SaveIndex(p)

Next == \E p \in Procs : Step(p) \/ Crash(p) \/ Rerun(p)

Spec == Init /\ [][Next]_vars

\* Every running command goes on; flock hands a released lock to its waiters in
\* turn; a registry or a file system that fails for ever is not waited for.
FairSpec ==
  /\ Spec
  /\ \A p \in Procs : WF_vars(Step(p))
  /\ \A p \in Stagers : SF_vars(Begin(p))

-----------------------------------------------------------------------------
\* The variables have their types.
TypeOK ==
  /\ image \in [Caches -> [Sources -> Files]]
  /\ partial \in [Caches -> [Sources -> Files]]
  /\ index \in [Caches -> SUBSET Sources]
  /\ lock \in [Caches -> Procs \cup {Nobody}]
  /\ pc \in [Procs -> States]
  /\ pool \in [Procs -> SUBSET Sources]
  /\ todo \in [Procs -> SUBSET Sources]
  /\ current \in [Procs -> Sources \cup {NoSource}]
  /\ mem \in [Procs -> SUBSET Sources]
  /\ failures \in [Procs -> 0 .. MaxFailures]
  /\ crashes \in 0 .. MaxCrashes

\* Whatever is killed, fails or runs at once, a file under its final name is a
\* complete image with the workspace: a replay that looks an image up never
\* runs on a torn or unchecked one (cached_image accepts any non-empty file).
OnlyGoodImages ==
  \A d \in Caches, s \in Sources : image[d][s] \in {"none", "good"}

\* An image in the shared cache is in its index, so that a command run again
\* after a kill never stops at "unindexed image exists; inspect before
\* replacing": the index is written before the rename and no process loses the
\* entry of another.
ImagesAreIndexed ==
  \A s \in Sources : image["shared"][s] # "none" => s \in index["shared"]

\* A command that has reported success has every image of its pool in its
\* cache, and keeps it there whatever later commands do.
SuccessIsCached ==
  \A p \in Procs : pc[p] = "done" => \A s \in pool[p] : Cached(CacheOf(p), s)

\* What a lookup has found, a later lookup finds: no step of any process makes
\* a cached image uncached.
CachedStays ==
  [][\A d \in Caches, s \in Sources : Cached(d, s) => Cached(d, s)']_vars

\* stage_images never waits for ever: the lock of a process that ends in any
\* way, a kill included, is released, and a copy comes to an end.
StagingEnds ==
  \A p \in Stagers : pc[p] = "idle" ~> pc[p] \in {"done", "failed", "killed"}
=============================================================================
