----------------------------- MODULE Leadership -----------------------------
(***************************************************************************)
(* Leadership of one Hub identity over PostgreSQL: class                   *)
(* PostgresPersistence (images/hub/src/postgres.ts) driven by "hub serve"  *)
(* (images/hub/src/cli.ts).  Every replica that may lead is a process; a   *)
(* process runs one SQL statement per step, so every await between two     *)
(* statements is an interleaving point.                                    *)
(*                                                                         *)
(* Abstractions: hubs.revision is kept modulo 2, so that every write of    *)
(* the row is a step, with the set `current' of processes whose cached     *)
(* revision equals the row's; a heartbeat timestamp is kept as `fresh',    *)
(* true while it is younger than the lease of 30 seconds.                  *)
(***************************************************************************)
EXTENDS Naturals, FiniteSets

CONSTANTS
  Proc,         \* replicas of the Hub
  Dep,          \* deployment identities (HUB_DEPLOYMENT_ID)
  DepOf,        \* the deployment a replica belongs to
  Coordinated,  \* replicas with HUB_LEADER_HANDOFF in effect
  Laggards,     \* deployments whose processes may be suspended past a lease
  RestartOld,   \* whether the executor restarts a replaced deployment
  MaxFaults,    \* bound on crashes, lost connections and failed openings
  NoProc

ASSUME ConstantsAssumption ==
  /\ DepOf \in [Proc -> Dep]
  /\ Coordinated \subseteq Proc
  /\ Laggards \subseteq Dep
  /\ RestartOld \in BOOLEAN
  /\ MaxFaults \in Nat
  /\ NoProc \notin Proc

VARIABLES
  lock,      \* holder of the session-level advisory lock
  revision,  \* hubs.revision modulo 2
  current,   \* processes whose cached revision is the row's
  issued,    \* identity values handed out for deployments.generation
  gen,       \* deployments.generation, 0 while there is no row
  status,    \* deployments.status
  fresh,     \* deployments.heartbeat is younger than the lease
  desired,   \* leadership.desired_generation, 0 while there is no row
  up,        \* the server side of the process's connection is alive
  broken,    \* the process has given the connection up (lost())
  pc,        \* where the process is
  mon,       \* step of the monitor's task in the serial queue
  workers,   \* the manager has running session workers
  blocked,   \* the row registerDeployment returned forbids a proposal
  manages,   \* managesDeploymentStatus
  handoff,   \* handoffRequested
  failed,    \* deploymentFailed
  faults,    \* faults injected so far
  started    \* processes that have been started once

hubVars == <<lock, revision, current>>
rowVars == <<issued, gen, status, fresh, desired>>
connVars == <<up, broken>>
flagVars == <<blocked, manages, handoff, failed>>
envVars == <<faults, started>>
vars == <<hubVars, rowVars, connVars, pc, mon, workers, flagVars, envVars>>

Statuses == {"none", "standby", "candidate", "leader", "draining", "failed"}
Waiting == {"heartbeat", "desired", "trylock"}
Managing == {"opening", "serving", "failing", "closing"}
Locked == {"refresh", "activate", "desire"} \cup Managing
PCs == {"down", "schema", "register", "lock", "propose", "proposed", "pgclose",
        "end"} \cup Waiting \cup Locked

Takeover_OnlyOlder(p) ==
  /\ desired < gen[DepOf[p]]
  /\ \E d \in Dep : gen[d] = desired /\ status[d] = "candidate" /\ fresh[d]

\* What the monitor looks for: another generation is desired and its candidate
\* is alive.
Takeover(p) ==
  /\ desired # gen[DepOf[p]]
  /\ \E d \in Dep : gen[d] = desired /\ status[d] = "candidate" /\ fresh[d]

\* The status a proposal leaves in the deployment's row.
Proposed_Unknown(selected) == IF selected THEN "candidate" ELSE "superseded"
Proposed(selected) == IF selected THEN "candidate" ELSE "standby"

\* The server releases the session lock with the connection.
Release_KeepsLock(p) == lock' = lock
Release(p) == lock' = IF lock = p THEN NoProc ELSE lock

Goto(p, l) == pc' = [pc EXCEPT ![p] = l]
\* sql(): the statement runs only on a connection neither side has given up.
Sql(p, l) == pc[p] = l /\ up[p] /\ ~broken[p]
Beat(d) == fresh' = [fresh EXCEPT ![d] = TRUE]

Init ==
  /\ lock = NoProc /\ revision = 0 /\ current = {} /\ desired = 0 /\ issued = 0
  /\ gen = [d \in Dep |-> 0]
  /\ status = [d \in Dep |-> "none"]
  /\ fresh = [d \in Dep |-> FALSE]
  /\ up = [p \in Proc |-> FALSE]
  /\ broken = [p \in Proc |-> FALSE]
  /\ pc = [p \in Proc |-> "down"]
  /\ mon = [p \in Proc |-> "idle"]
  /\ workers = [p \in Proc |-> FALSE]
  /\ blocked = [p \in Proc |-> FALSE]
  /\ manages = [p \in Proc |-> FALSE]
  /\ handoff = [p \in Proc |-> FALSE]
  /\ failed = [p \in Proc |-> FALSE]
  /\ faults = 0 /\ started = {}
-----------------------------------------------------------------------------
(* open(): connect, prepareSchema, registerDeployment, tryLock             *)

\* A deployment that has been replaced by a newer one that has not failed.
Replaced(d) == \E e \in Dep : gen[e] > gen[d] /\ status[e] # "failed"

\* The executor starts a replica, and restarts it as long as it wants it.
Start(p) ==
  /\ pc[p] = "down"
  /\ p \in started => RestartOld \/ ~Replaced(DepOf[p])
  /\ Goto(p, "schema")
  /\ started' = started \cup {p}
  /\ up' = [up EXCEPT ![p] = TRUE]
  /\ UNCHANGED <<hubVars, rowVars, broken, mon, workers, flagVars, faults>>

\* One transaction; its row's revision is cached before the lock is held.
PrepareSchema(p) ==
  /\ Sql(p, "schema")
  /\ current' = current \cup {p}
  /\ Goto(p, IF p \in Coordinated THEN "register" ELSE "lock")
  /\ UNCHANGED <<lock, revision, rowVars, connVars, mon, workers, flagVars, envVars>>

RegisterDeployment(p) ==
  LET d == DepOf[p] IN
  /\ Sql(p, "register")
  /\ IF gen[d] = 0
       THEN /\ gen' = [gen EXCEPT ![d] = issued + 1]
            /\ issued' = issued + 1
            /\ status' = [status EXCEPT ![d] = "standby"]
            /\ Beat(d)
       ELSE UNCHANGED <<issued, gen, status, fresh>>
  /\ Goto(p, IF status[d] = "failed" THEN "pgclose" ELSE "lock")
  /\ blocked' = [blocked EXCEPT ![p] = \/ status[d] \in {"leader", "draining"}
                                       \/ status[d] = "candidate" /\ fresh[d]]
  /\ UNCHANGED <<hubVars, desired, connVars, mon, workers, manages, handoff,
                 failed, envVars>>

Acquire_IgnoresResult(p, l) ==
  /\ Sql(p, l)
  /\ lock' = p
  /\ manages' = [manages EXCEPT ![p] = p \in Coordinated]
  /\ Goto(p, "refresh")
  /\ UNCHANGED <<revision, current, rowVars, connVars, mon, workers, blocked, handoff,
                 failed, envVars>>

\* pg_try_advisory_lock succeeds, at once or while waiting.
Acquire(p, l) ==
  /\ Sql(p, l)
  /\ lock = NoProc
  /\ lock' = p
  /\ manages' = [manages EXCEPT ![p] = p \in Coordinated]
  /\ Goto(p, "refresh")
  /\ UNCHANGED <<revision, current, rowVars, connVars, mon, workers, blocked, handoff,
                 failed, envVars>>

TryLock(p) == Acquire(p, "lock")

\* HUB_ALREADY_ACTIVE, or go on to request the leadership.
LockHeld(p) ==
  /\ Sql(p, "lock")
  /\ lock # NoProc
  /\ Goto(p, IF p \in Coordinated /\ ~blocked[p] THEN "propose" ELSE "pgclose")
  /\ UNCHANGED <<hubVars, rowVars, connVars, mon, workers, flagVars, envVars>>
-----------------------------------------------------------------------------
(* proposeLeadership and awaitLeadership                                   *)

\* The WHERE clause of the upsert.
MayReplace(g) ==
  \/ desired = 0
  \/ g > desired
  \/ ~ \E d \in Dep : gen[d] = desired /\ status[d] # "failed" /\ fresh[d]

ProposeLeadership(p) ==
  /\ Sql(p, "propose")
  /\ LET selected == MayReplace(gen[DepOf[p]]) IN
       /\ desired' = IF selected THEN gen[DepOf[p]] ELSE desired
       /\ manages' = [manages EXCEPT ![p] = selected]
  /\ Goto(p, "proposed")
  /\ UNCHANGED <<hubVars, issued, gen, status, fresh, connVars, mon, workers, blocked,
                 handoff, failed, envVars>>

\* Second statement of proposeLeadership; DEPLOYMENT_SUPERSEDED if not selected.
ProposedStatus(p) ==
  LET d == DepOf[p] IN
  /\ Sql(p, "proposed")
  /\ status' = [status EXCEPT ![d] = Proposed(manages[p])]
  /\ Beat(d)
  /\ Goto(p, IF manages[p] THEN "heartbeat" ELSE "pgclose")
  /\ UNCHANGED <<hubVars, issued, gen, desired, connVars, mon, workers, flagVars, envVars>>

AwaitHeartbeat(p) ==
  /\ Sql(p, "heartbeat")
  /\ Beat(DepOf[p])
  /\ Goto(p, "desired")
  /\ UNCHANGED <<hubVars, issued, gen, status, desired, connVars, mon, workers, flagVars,
                 envVars>>

\* DEPLOYMENT_SUPERSEDED as soon as another generation is desired.
AwaitDesired(p) ==
  /\ Sql(p, "desired")
  /\ Goto(p, IF desired = gen[DepOf[p]] THEN "trylock" ELSE "pgclose")
  /\ UNCHANGED <<hubVars, rowVars, connVars, mon, workers, flagVars, envVars>>

AwaitAcquire(p) == Acquire(p, "trylock")

AwaitAgain(p) ==
  /\ Sql(p, "trylock")
  /\ lock # NoProc
  /\ Goto(p, "heartbeat")
  /\ UNCHANGED <<hubVars, rowVars, connVars, mon, workers, flagVars, envVars>>

\* LEADERSHIP_TIMEOUT after 180 s.  A leader that answers needs a monitor
\* period of 2 s and a shutdown of at most 20 s, so the deadline passes only
\* while the holder neither drains nor is going to see a fresh candidate.
AwaitTimeout(p) ==
  /\ pc[p] = "heartbeat" /\ ~broken[p]
  /\ lock # NoProc
  /\ pc[lock] \in {"opening", "serving"}
  /\ ~ (up[lock] /\ lock \in Coordinated /\ Takeover(lock))
  /\ Goto(p, "pgclose")
  /\ UNCHANGED <<hubVars, rowVars, connVars, mon, workers, flagVars, envVars>>
-----------------------------------------------------------------------------
(* refreshValidatedState, activateDeployment, Manager.open                 *)

RefreshValidatedState_KeepsRevision(p) ==
  /\ Sql(p, "refresh")
  /\ Goto(p, IF p \in Coordinated THEN "activate" ELSE "opening")
  /\ UNCHANGED <<hubVars, rowVars, connVars, mon, workers, flagVars, envVars>>

RefreshValidatedState(p) ==
  /\ Sql(p, "refresh")
  /\ current' = current \cup {p}
  /\ Goto(p, IF p \in Coordinated THEN "activate" ELSE "opening")
  /\ UNCHANGED <<lock, revision, rowVars, connVars, mon, workers, flagVars, envVars>>

ActivateStatus(p) ==
  LET d == DepOf[p] IN
  /\ Sql(p, "activate")
  /\ status' = [status EXCEPT ![d] = "leader"]
  /\ Beat(d)
  /\ Goto(p, "desire")
  /\ UNCHANGED <<hubVars, issued, gen, desired, connVars, mon, workers, flagVars, envVars>>

ActivateDesired(p) ==
  /\ Sql(p, "desire")
  /\ desired' = gen[DepOf[p]]
  /\ Goto(p, "opening")
  /\ UNCHANGED <<hubVars, issued, gen, status, fresh, connVars, mon, workers, flagVars,
                 envVars>>

\* Manager.open has come to its end and resumes the desired sessions.
Opened(p) ==
  /\ pc[p] = "opening"
  /\ Goto(p, "serving")
  /\ workers' = [workers EXCEPT ![p] = TRUE]
  /\ UNCHANGED <<hubVars, rowVars, connVars, mon, flagVars, envVars>>

\* Manager.open throws something other than a database error.
OpenFails(p) ==
  /\ pc[p] = "opening" /\ ~broken[p]
  /\ faults < MaxFaults
  /\ faults' = faults + 1
  /\ Goto(p, "failing")
  /\ UNCHANGED <<hubVars, rowVars, connVars, mon, workers, flagVars, started>>

\* preflight rejects the stored state, before or after the lock is held.
PreflightFails(p) ==
  /\ pc[p] \in {"schema", "refresh"} /\ ~broken[p]
  /\ faults < MaxFaults
  /\ faults' = faults + 1
  /\ Goto(p, "pgclose")
  /\ UNCHANGED <<hubVars, rowVars, connVars, mon, workers, flagVars, started>>

MarkFailed(p) ==
  LET d == DepOf[p]
      marks == manages[p] /\ ~broken[p] IN
  /\ pc[p] = "failing"
  /\ marks => up[p] /\ mon[p] = "idle"
  /\ IF marks
       THEN /\ status' = [status EXCEPT ![d] = "failed"]
            /\ Beat(d)
            /\ failed' = [failed EXCEPT ![p] = TRUE]
       ELSE UNCHANGED <<status, fresh, failed>>
  /\ Goto(p, "closing")
  /\ UNCHANGED <<hubVars, issued, gen, desired, connVars, mon, workers, blocked, manages,
                 handoff, envVars>>

\* The UPDATE finds the cached revision: it adds one, and only its writer knows the new one.
Accepted(p) == revision' = 1 - revision /\ current' = {p}

Write_AnyConnection(p) ==
  /\ pc[p] \in Managing /\ ~broken[p] /\ mon[p] = "idle" /\ Accepted(p)
  /\ UNCHANGED <<lock, rowVars, connVars, pc, mon, workers, flagVars, envVars>>

\* write(): accepted only at the cached revision, otherwise the owner is fenced.
Write(p) ==
  /\ pc[p] \in Managing /\ up[p] /\ ~broken[p] /\ mon[p] = "idle"
  /\ IF p \in current
       THEN Accepted(p) /\ UNCHANGED broken
       ELSE broken' = [broken EXCEPT ![p] = TRUE] /\ UNCHANGED <<revision, current>>
  /\ UNCHANGED <<lock, rowVars, up, pc, mon, workers, flagVars, envVars>>
-----------------------------------------------------------------------------
(* startMonitor: one task of three statements in the serial queue          *)

MonitorBeat(p) ==
  /\ p \in Coordinated /\ pc[p] \in Managing /\ up[p] /\ ~broken[p]
  /\ mon[p] = "idle" /\ ~handoff[p]
  /\ Beat(DepOf[p])
  /\ mon' = [mon EXCEPT ![p] = "check"]
  /\ UNCHANGED <<hubVars, issued, gen, status, desired, connVars, pc, workers, flagVars,
                 envVars>>

MonitorCheck(p) ==
  /\ mon[p] = "check" /\ up[p] /\ ~broken[p]
  /\ mon' = [mon EXCEPT ![p] = IF Takeover(p) THEN "drain" ELSE "idle"]
  /\ handoff' = [handoff EXCEPT ![p] = Takeover(p)]
  /\ UNCHANGED <<hubVars, rowVars, connVars, pc, workers, blocked, manages, failed,
                 envVars>>

\* shutdown() while Manager.open still runs may make it throw.
ShutdownTo(p) ==
  CASE pc[p] = "opening" -> {"closing", "failing"}
    [] pc[p] = "serving" -> {"closing"}
    [] OTHER -> {pc[p]}

\* The drained leader publishes the fact and onTakeover shuts it down.
MonitorDrain(p) ==
  LET d == DepOf[p] IN
  /\ mon[p] = "drain" /\ up[p] /\ ~broken[p]
  /\ status' = [status EXCEPT ![d] = "draining"]
  /\ Beat(d)
  /\ mon' = [mon EXCEPT ![p] = "idle"]
  /\ \E l \in ShutdownTo(p) : Goto(p, l)
  /\ UNCHANGED <<hubVars, issued, gen, desired, connVars, workers, flagVars, envVars>>
-----------------------------------------------------------------------------
(* shutdown(), Manager.close and PostgresPersistence.close                 *)

\* SIGTERM once the handlers are installed.
Terminate(p) ==
  /\ pc[p] \in {"opening", "serving"}
  /\ faults < MaxFaults
  /\ faults' = faults + 1
  /\ \E l \in ShutdownTo(p) : Goto(p, l)
  /\ UNCHANGED <<hubVars, rowVars, connVars, mon, workers, flagVars, started>>

\* Manager.close stops every worker and ends with a save.
ManagerClose(p) ==
  /\ pc[p] = "closing"
  /\ mon[p] = "idle" \/ broken[p] \/ ~up[p]
  /\ workers' = [workers EXCEPT ![p] = FALSE]
  /\ IF up[p] /\ ~broken[p]
       THEN /\ IF p \in current THEN Accepted(p) ELSE UNCHANGED <<revision, current>>
            /\ broken' = [broken EXCEPT ![p] = p \notin current]
       ELSE UNCHANGED <<revision, current, broken>>
  /\ Goto(p, "pgclose")
  /\ UNCHANGED <<lock, rowVars, up, mon, flagVars, envVars>>

\* close() first waits for the queue, then records how the deployment ends.
CloseStatus(p) ==
  LET d == DepOf[p]
      records == manages[p] /\ up[p] /\ ~broken[p] IN
  /\ pc[p] = "pgclose"
  /\ mon[p] = "idle" \/ broken[p] \/ ~up[p]
  /\ IF records
       THEN /\ status' = [status EXCEPT ![d] = IF failed[p] THEN "failed"
                                          ELSE IF handoff[p] THEN "draining"
                                          ELSE "standby"]
            /\ Beat(d)
       ELSE UNCHANGED <<status, fresh>>
  /\ Goto(p, "end")
  /\ UNCHANGED <<hubVars, issued, gen, desired, connVars, mon, workers, flagVars, envVars>>

\* The connection ends, the server releases the lock, the process is gone.
Exit(p) ==
  /\ pc' = [pc EXCEPT ![p] = "down"]
  /\ up' = [up EXCEPT ![p] = FALSE]
  /\ broken' = [broken EXCEPT ![p] = FALSE]
  /\ Release(p)
  /\ current' = current \ {p} /\ UNCHANGED revision
  /\ mon' = [mon EXCEPT ![p] = "idle"]
  /\ workers' = [workers EXCEPT ![p] = FALSE]
  /\ blocked' = [blocked EXCEPT ![p] = FALSE]
  /\ manages' = [manages EXCEPT ![p] = FALSE]
  /\ handoff' = [handoff EXCEPT ![p] = FALSE]
  /\ failed' = [failed EXCEPT ![p] = FALSE]
  /\ UNCHANGED <<rowVars, started>>

EndConnection(p) ==
  /\ pc[p] = "end"
  /\ Exit(p)
  /\ UNCHANGED faults
-----------------------------------------------------------------------------
(* Faults                                                                  *)

\* The container dies at any point, or the 20 s shutdown deadline passes.
Crash(p) ==
  /\ pc[p] # "down"
  /\ faults < MaxFaults
  /\ faults' = faults + 1
  /\ Exit(p)

\* The server drops the session, and with it the lock; the process may not
\* know it for a while.
DropConnection(p) ==
  /\ up[p]
  /\ faults < MaxFaults
  /\ faults' = faults + 1
  /\ up' = [up EXCEPT ![p] = FALSE]
  /\ Release(p)
  /\ UNCHANGED <<revision, current, rowVars, broken, pc, mon, workers, flagVars, started>>

\* query_timeout: the client gives up a connection the server still keeps.
QueryTimeout(p) ==
  /\ pc[p] \notin {"down", "end"} /\ ~broken[p]
  /\ faults < MaxFaults
  /\ faults' = faults + 1
  /\ broken' = [broken EXCEPT ![p] = TRUE]
  /\ UNCHANGED <<hubVars, rowVars, up, pc, mon, workers, flagVars, started>>

\* lost(): fence and shut down when a manager exists, fail open() otherwise.
Lost(p) ==
  /\ pc[p] \notin {"down", "closing", "pgclose", "end"}
  /\ broken[p] \/ ~up[p]
  /\ broken' = [broken EXCEPT ![p] = TRUE]
  /\ workers' = [workers EXCEPT ![p] = FALSE]
  /\ Goto(p, IF pc[p] \in Managing THEN "closing" ELSE "pgclose")
  /\ UNCHANGED <<hubVars, rowVars, up, mon, flagVars, envVars>>

\* The lease of a heartbeat runs out: nobody of the deployment runs, or its
\* process is suspended for longer than the lease.
Expire(d) ==
  /\ fresh[d]
  /\ d \in Laggards
     \/ \A p \in Proc : DepOf[p] = d => pc[p] = "down"
  /\ fresh' = [fresh EXCEPT ![d] = FALSE]
  /\ UNCHANGED <<hubVars, issued, gen, status, desired, connVars, pc, mon, workers,
                 flagVars, envVars>>
-----------------------------------------------------------------------------
Step(p) ==
  \/ PrepareSchema(p) \/ RegisterDeployment(p) \/ TryLock(p) \/ LockHeld(p)
  \/ ProposeLeadership(p) \/ ProposedStatus(p) \/ AwaitHeartbeat(p)
  \/ AwaitDesired(p) \/ AwaitAcquire(p) \/ AwaitAgain(p)
  \/ RefreshValidatedState(p) \/ ActivateStatus(p) \/ ActivateDesired(p)
  \/ Opened(p) \/ MarkFailed(p) \/ ManagerClose(p) \/ CloseStatus(p)
  \/ EndConnection(p) \/ Lost(p)

Monitor(p) == MonitorBeat(p) \/ MonitorCheck(p) \/ MonitorDrain(p)

Fault(p) ==
  \/ OpenFails(p) \/ PreflightFails(p) \/ Terminate(p) \/ Crash(p)
  \/ DropConnection(p) \/ QueryTimeout(p)

Next ==
  \/ \E p \in Proc : \/ Start(p) \/ Step(p) \/ AwaitTimeout(p) \/ Write(p)
                     \/ Monitor(p) \/ Fault(p)
  \/ \E d \in Dep : Expire(d)

Spec == Init /\ [][Next]_vars

\* A started process keeps running (the serial queue is first in first out, so a
\* step that waits for it gets its turn), its 2 s interval keeps firing, the executor
\* keeps restarting the replicas it wants and backs off: now and then it waits
\* for longer than a lease.
FairSpec ==
  /\ Spec
  /\ \A p \in Proc : WF_vars(Start(p)) /\ SF_vars(Step(p)) /\ WF_vars(Monitor(p))
  /\ \A d \in Dep : SF_vars(Expire(d))
-----------------------------------------------------------------------------
(* Properties                                                              *)

\* Every variable keeps its type.
TypeOK ==
  /\ lock \in Proc \cup {NoProc} /\ revision \in {0, 1} /\ current \subseteq Proc
  /\ issued \in Nat /\ gen \in [Dep -> Nat] /\ status \in [Dep -> Statuses]
  /\ fresh \in [Dep -> BOOLEAN] /\ desired \in Nat
  /\ up \in [Proc -> BOOLEAN] /\ broken \in [Proc -> BOOLEAN]
  /\ pc \in [Proc -> PCs] /\ mon \in [Proc -> {"idle", "check", "drain"}]
  /\ workers \in [Proc -> BOOLEAN] /\ blocked \in [Proc -> BOOLEAN]
  /\ manages \in [Proc -> BOOLEAN] /\ handoff \in [Proc -> BOOLEAN]
  /\ failed \in [Proc -> BOOLEAN]
  /\ faults \in Nat /\ started \subseteq Proc

\* README "The database lock prevents a second active manager": a manager whose
\* connection the server still keeps runs session workers only while it holds
\* the lock, so a handoff never overlaps two managers.  (After the server has
\* dropped a connection the old workers run until lost() fences them.)
WorkersUnderLock == \A p \in Proc : workers[p] /\ up[p] => lock = p

\* Once it has passed refreshValidatedState the holder of the lock caches the
\* revision of the row, however often the row changed while it was waiting:
\* its saves never end in POSTGRES_STATE_CONFLICT.
HolderIsCurrent ==
  \A p \in Proc : lock = p /\ pc[p] \in Locked \ {"refresh"} => p \in current

\* The state row is written only by the holder of the lock: whenever its revision grows,
\* the one process that knows the new revision, its writer, holds the lock.  A manager
\* that lost the lock with its connection cannot overwrite the state of its successor,
\* nor write while the lock is free (write, Manager.close).
OnlyHolderWrites ==
  [][revision' # revision => \E p \in Proc : lock = p /\ current' = {p}]_vars

\* A newer deployment whose row says standby or
\* candidate is eventually selected and the older one drains, also when proposals
\* and activations of the two interleave or one of them crashes in between.
StandbyReplacesOlder ==
  \A p \in Proc :
    []<>~(workers[p] /\ \E d \in Dep : /\ gen[d] > gen[DepOf[p]]
                                       /\ status[d] \in {"standby", "candidate"})

\* Whatever a handoff, a crash or a lost connection interrupts, some manager
\* comes to serve again, unless every registered deployment is marked failed.
ServiceResumes ==
  []<>(\/ \E p \in Proc : workers[p]
       \/ \A d \in Dep : status[d] \in {"none", "failed"})
=============================================================================
