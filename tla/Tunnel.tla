------------------------------- MODULE Tunnel -------------------------------
(***************************************************************************)
(* The private tunnel of one session: create, migrate, verify and serve.   *)
(* start() and provision() of manager.ts, credentials() and details() of   *)
(* auth.ts, the relay worker's refresh (worker.ts, mapped-host.ts), and    *)
(* the Dev Tunnels service and CLI they call, which are external.          *)
(*                                                                         *)
(* Every CLI call may be done and answered, be done and its answer lost,   *)
(* or fail; a stranger (the owner's other tools, the service's expiry) may *)
(* change a tunnel between any two calls; the manager may die at any time. *)
(* A save precedes every step that relies on what it saves, so the saved   *)
(* and the remembered session are one here.  The order of ports does not   *)
(* matter and is left open.                                                *)
(***************************************************************************)
EXTENDS Naturals, FiniteSets

CONSTANTS
  Clusters,      \* of the service; a tunnel's id is its name and cluster
  Ports,
  Default,       \* DEFAULT_PROXY_PORT, of a session that has recorded none
  Policies,      \* the ports a policy can publish: HTTP, or HTTP and SOCKS
  MaxRetries,    \* of a session that keeps failing
  MaxFaults,     \* bound on lost and failed calls and crashes
  MaxStrangers,  \* bound on changes by strangers
  None

ASSUME ConstantsAssumption ==
  /\ Default \in Ports
  /\ Policies \subseteq SUBSET Ports /\ Policies # {}
  /\ MaxRetries \in Nat /\ MaxFaults \in Nat /\ MaxStrangers \in Nat
  /\ None \notin Clusters /\ None \notin Policies

VARIABLES
  alive, ports, shared,  \* tunnels of the session's name: their ports, and
                         \* whether they or a port have an access grant
  ours,        \* those the Hub created
  policy,      \* ports the policy publishes
  id, rec,     \* tunnel_id; proxy_port and socks_port
  want,        \* desired
  pc, cur,     \* the next step of provision(), the ports it takes to be there
  again,       \* a confirmed missing tunnel is being created anew
  made,        \* the tunnel just created
  why,         \* how the last run ended
  failures,    \* transient ones since the worker was last connected
  faults, strangers,
  touched,     \* history: a stranger has changed the tunnel since its creation
  dirty,       \*          ... since the Hub last read it
  unfinished   \*          the policy of a migration that has not been recorded

remoteVars == <<alive, ports, shared, ours>>
sessionVars == <<id, rec, want>>
hubVars == <<pc, cur, again, made, why, failures>>
historyVars == <<touched, dirty, unfinished>>
vars == <<remoteVars, policy, sessionVars, hubVars, faults, strangers, historyVars>>

PCs == {"down", "create", "compensate", "details", "migrate", "readback", "record",
        "credentials", "serving", "renew"}

TypeOK ==
  /\ alive \subseteq Clusters /\ shared \subseteq Clusters /\ ours \subseteq Clusters
  /\ ports \in [Clusters -> SUBSET Ports]
  /\ policy \in Policies
  /\ id \in Clusters \cup {None} /\ rec \subseteq Ports /\ want \in BOOLEAN
  /\ pc \in PCs /\ (pc \notin {"down", "create", "compensate"} => id # None)
  /\ cur \subseteq Ports /\ again \in BOOLEAN
  /\ made \in Clusters \cup {None} /\ (pc = "compensate" => made # None)
  /\ why \in {"none", "transient", "refused"} /\ failures \in 0 .. MaxRetries + 1
  /\ faults \in Nat /\ strangers \in Nat
  /\ touched \in BOOLEAN /\ dirty \in BOOLEAN
  /\ unfinished \in Policies \cup {None}

\* A new session; the name may already be taken by tunnels that are not ours.
Init ==
  /\ alive \in SUBSET Clusters /\ ports \in [Clusters -> {{}, {Default}}]
  /\ shared = {} /\ ours = {}
  /\ \A c \in Clusters \ alive : ports[c] = {}
  /\ policy \in Policies
  /\ id = None /\ rec = {Default} /\ want = FALSE
  /\ pc = "down" /\ cur = {} /\ again = FALSE /\ made = None /\ why = "none"
  /\ failures = 0 /\ faults = 0 /\ strangers = 0
  /\ touched = FALSE /\ dirty = FALSE /\ unfinished = None
-----------------------------------------------------------------------------
\* The ports provision() may touch: recorded or desired.
Known_Desired == policy
Known == rec \cup policy

\* privateTunnel(): the tunnel is owner-only and has exactly these ports.
Private(P) == id \notin shared /\ ports[id] = P

Down(reason) ==
  pc' = "down" /\ why' = reason /\ cur' = {} /\ again' = FALSE /\ made' = None
\* fail(): the transient errors of a desired session are counted.
Ends(reason) ==
  /\ Down(reason)
  /\ failures' = IF reason = "transient" /\ want /\ failures <= MaxRetries
                   THEN failures + 1 ELSE failures
Goes(step) == pc' = step /\ UNCHANGED <<again, made, why, failures>>
Faulty == faults < MaxFaults /\ faults' = faults + 1
Fine == UNCHANGED faults

\* start() until provision(): the cached identity is checked and taken to be
\* good (a login that has expired is CredentialStore's).
FirstStep_Blind == "details"
FirstStep == IF id = None THEN "create" ELSE "details"
Begins ==
  /\ pc = "down" /\ pc' = FirstStep
  /\ UNCHANGED <<remoteVars, policy, sessionVars, cur, again, made, why, failures,
                 faults, strangers, historyVars>>
Start == Begins
\* fail(): a transient error of a desired session is retried after a delay, unless
\* MaxRetries of them came without a connection in between.
RetryDue == want /\ why = "transient" /\ failures <= MaxRetries
Retry == RetryDue /\ Begins

\* applyPolicy(): only while no session is desired or running.
SetPolicy ==
  /\ pc = "down" /\ ~want /\ policy' \in Policies
  /\ UNCHANGED <<remoteVars, sessionVars, hubVars, faults, strangers, historyVars>>

\* stopSession().
Stop ==
  /\ pc \in {"down", "serving", "renew"} /\ want' = FALSE /\ Ends("none")
  /\ UNCHANGED <<remoteVars, policy, id, rec, faults, strangers, historyVars>>
-----------------------------------------------------------------------------
\* A call that changes nothing and fails: an error of the CLI, or its timeout.
CallFails ==
  /\ pc \notin {"down", "record", "serving"} /\ Faulty /\ Ends("transient")
  /\ UNCHANGED <<remoteVars, policy, sessionVars, strangers, historyVars>>

\* `devtunnel create', in whatever cluster the service chooses.
Created(c) ==
  /\ c \notin alive
  /\ alive' = alive \cup {c} /\ ours' = ours \cup {c} /\ shared' = shared \ {c}
  /\ ports' = [ports EXCEPT ![c] = {}]
Create(c) ==
  /\ pc = "create" /\ Created(c) /\ Fine
  /\ IF id \in {None, c}
       THEN id' = c /\ touched' = FALSE /\ Goes("details")
       ELSE /\ made' = c /\ pc' = "compensate"
            /\ UNCHANGED <<id, touched, again, why, failures>>
  /\ UNCHANGED <<policy, rec, want, cur, strangers, dirty, unfinished>>
CreateLost(c) ==
  /\ pc = "create" /\ Created(c) /\ Faulty /\ Ends("transient")
  /\ UNCHANGED <<policy, sessionVars, strangers, historyVars>>
\* TUNNEL_NAME_CONFLICT: the tunnel that is there is never adopted.
OnConflict_Adopts(c) == id' = c /\ Goes("details") /\ UNCHANGED cur
OnConflict(c) == Ends("refused") /\ UNCHANGED id
Conflict(c) ==
  /\ pc = "create" /\ c \in alive /\ OnConflict(c)
  /\ UNCHANGED <<remoteVars, policy, rec, want, faults, strangers, historyVars>>

\* TUNNEL_CLUSTER_CHANGED: the tunnel just created is deleted again.
Removed(c) == alive' = alive \ {c} /\ ports' = [ports EXCEPT ![c] = {}]
Compensate ==
  /\ pc = "compensate" /\ made \in alive
  /\ Removed(made) /\ Fine /\ Ends("refused")
  /\ UNCHANGED <<shared, ours, policy, sessionVars, strangers, historyVars>>
CompensateLost ==
  /\ pc = "compensate" /\ made \in alive
  /\ Removed(made) /\ Faulty /\ Ends("transient")
  /\ UNCHANGED <<shared, ours, policy, sessionVars, strangers, historyVars>>
-----------------------------------------------------------------------------
Accepted(P) == P \subseteq Known

\* details() fails with TUNNEL_NOT_FOUND; nothing else counts as missing.
Missing == id \notin alive
Recreate ==
  /\ pc = "details" /\ Missing /\ ~again
  /\ again' = TRUE /\ pc' = "create"
  /\ UNCHANGED <<remoteVars, policy, sessionVars, cur, made, why, failures, faults,
                 strangers, historyVars>>
\* In any other place a missing tunnel ends the run; it may be retried.
Gone ==
  /\ \/ pc = "details" /\ again
     \/ pc \in {"migrate", "readback", "credentials", "serving", "renew"}
     \/ pc = "compensate"
  /\ IF pc = "compensate" THEN made \notin alive ELSE id \notin alive
  /\ Ends("transient")
  /\ UNCHANGED <<remoteVars, policy, sessionVars, faults, strangers, historyVars>>

\* The first reading: accept a known subset, to finish an interrupted migration.
Details ==
  /\ pc = "details" /\ id \in alive
  /\ dirty' = FALSE
  /\ IF id \notin shared /\ Accepted(ports[id])
       THEN cur' = ports[id] /\ Goes("migrate")
       ELSE Ends("refused")
  /\ UNCHANGED <<remoteVars, policy, sessionVars, faults, strangers, touched,
                 unfinished>>

\* `devtunnel port delete', `port create'; the surplus goes first.
Edits(P) ==
  /\ ports' = [ports EXCEPT ![id] = P] /\ unfinished' = policy
  /\ UNCHANGED <<alive, shared, ours, policy, sessionVars, strangers, touched, dirty>>
DeletePort(p) ==
  /\ pc = "migrate" /\ id \in alive /\ p \in cur \ policy /\ p \in ports[id]
  /\ Edits(ports[id] \ {p})
  /\ \/ Fine /\ cur' = cur \ {p} /\ Goes("readback")
     \/ Faulty /\ Ends("transient")
CreatePort(p) ==
  /\ pc = "migrate" /\ id \in alive /\ cur \subseteq policy
  /\ p \in policy \ cur /\ p \notin ports[id]
  /\ Edits(ports[id] \cup {p})
  /\ \/ Fine /\ cur' = cur \cup {p} /\ Goes("readback")
     \/ Faulty /\ Ends("transient")
\* A stranger was faster: the port is gone, or there.
EditRefused ==
  /\ pc = "migrate" /\ id \in alive
  /\ \/ \E p \in cur \ policy : p \notin ports[id] /\ Ends("transient")
     \/ cur \subseteq policy /\ \E p \in policy \ cur : p \in ports[id] /\ Ends("refused")
  /\ UNCHANGED <<remoteVars, policy, sessionVars, faults, strangers, historyVars>>
\* Every change is read back exactly.
Readback ==
  /\ pc = "readback" /\ id \in alive /\ dirty' = FALSE
  /\ IF Private(cur) THEN Goes("migrate") /\ UNCHANGED cur ELSE Ends("refused")
  /\ UNCHANGED <<remoteVars, policy, sessionVars, faults, strangers, touched,
                 unfinished>>

Migrated == cur = policy
Record ==
  /\ pc = "migrate" /\ Migrated
  /\ rec' = policy /\ unfinished' = None /\ Goes("credentials")
  /\ UNCHANGED <<remoteVars, policy, id, want, cur, faults, strangers, touched, dirty>>
-----------------------------------------------------------------------------
\* credentials(): identity, details and the recorded ports, then the worker runs.
Verified_Trusting == TRUE
Verified == Private(rec)
Credentials ==
  /\ pc = "credentials" /\ id \in alive /\ dirty' = FALSE
  /\ IF Verified THEN want' = TRUE /\ Goes("serving") /\ UNCHANGED cur
                 ELSE UNCHANGED want /\ Ends("refused")
  /\ UNCHANGED <<remoteVars, policy, id, rec, faults, strangers, touched, unfinished>>

\* The worker asks for credentials, on its timer (refreshPorts) or for the relay;
\* credentialsForWorker() verifies again, and may renew the resource's expiration.
Refresh ==
  /\ pc = "serving" /\ id \in alive /\ dirty' = FALSE
  /\ IF Verified THEN UNCHANGED cur /\ (Goes("serving") \/ Goes("renew"))
                 ELSE Ends("refused")
  /\ UNCHANGED <<remoteVars, policy, sessionVars, faults, strangers, touched,
                 unfinished>>
Renew ==
  /\ pc = "renew" /\ id \in alive /\ Goes("serving")
  /\ UNCHANGED <<remoteVars, policy, sessionVars, cur, faults, strangers, historyVars>>
\* The worker's relay is connected: `ready', or a status message.
Connected ==
  /\ pc \in {"serving", "renew"} /\ failures # 0 /\ failures' = 0
  /\ UNCHANGED <<remoteVars, policy, sessionVars, pc, cur, again, made, why, faults,
                 strangers, historyVars>>
\* The worker ends: WORKER_FAILED.
WorkerFails ==
  /\ pc \in {"serving", "renew"} /\ Faulty /\ Ends("transient")
  /\ UNCHANGED <<remoteVars, policy, sessionVars, strangers, historyVars>>

\* open() starts the desired sessions of a manager that died; no failure is saved.
AfterCrash_Idle == "none"
AfterCrash == IF want THEN "transient" ELSE "none"
Crash ==
  /\ pc # "down" /\ Faulty /\ Down(AfterCrash) /\ failures' = 0
  /\ UNCHANGED <<remoteVars, policy, sessionVars, strangers, historyVars>>
-----------------------------------------------------------------------------
\* A stranger adds or removes a port, grants access, or deletes the tunnel.  None
\* creates one under the session's name and cluster once the Hub's is gone: details()
\* knows a tunnel by these alone and would take it up.
Stranger(c) ==
  /\ strangers < MaxStrangers /\ strangers' = strangers + 1 /\ c \in alive
  /\ touched' = (touched \/ c = id) /\ dirty' = (dirty \/ c = id)
  /\ UNCHANGED <<ours, policy, sessionVars, hubVars, faults, unfinished>>
AddPort(c) ==
  /\ Stranger(c)
  /\ \E p \in Ports \ ports[c] : ports' = [ports EXCEPT ![c] = @ \cup {p}]
  /\ UNCHANGED <<alive, shared>>
DropPort(c) ==
  /\ Stranger(c)
  /\ \E p \in ports[c] : ports' = [ports EXCEPT ![c] = @ \ {p}]
  /\ UNCHANGED <<alive, shared>>
Share(c) == Stranger(c) /\ shared' = shared \cup {c} /\ UNCHANGED <<alive, ports>>
Delete(c) == Stranger(c) /\ Removed(c) /\ UNCHANGED shared

HubStep ==
  \/ CallFails \/ Compensate \/ CompensateLost
  \/ \E c \in Clusters : Create(c) \/ CreateLost(c) \/ Conflict(c)
  \/ Recreate \/ Gone \/ Details \/ EditRefused \/ Readback \/ Record
  \/ \E p \in Ports : DeletePort(p) \/ CreatePort(p)
  \/ Credentials \/ Renew
Next ==
  \/ Start \/ Retry \/ HubStep \/ Refresh \/ Connected \/ WorkerFails
  \/ SetPolicy \/ Stop \/ Crash
  \/ \E c \in Clusters : AddPort(c) \/ DropPort(c) \/ Share(c) \/ Delete(c)

Spec == Init /\ [][Next]_vars

\* The manager's event loop goes on, and a retry's timer fires.
FairSpec == Spec /\ WF_vars(HubStep) /\ WF_vars(Retry)
-----------------------------------------------------------------------------
\* What is served is what was verified: as long as no stranger has changed the
\* tunnel since it was last read, a serving session has a tunnel of its own that
\* is owner-only and publishes exactly the policy's ports (start, provision,
\* credentials).
ServedIsVerified ==
  pc = "serving" /\ ~dirty =>
    id \in alive /\ id \in ours /\ id \notin shared /\ ports[id] = policy

\* A migration that a crash, a lost answer or a failed call interrupted is taken
\* up by the next start: unless a stranger interfered or the policy has changed
\* once more, the tunnel has only ports that start accepts (provision).
MigrationResumes ==
  /\ id \in alive /\ ~touched /\ unfinished \in {None, policy}
  => id \notin shared /\ ports[id] \subseteq Known

\* A tunnel that is not ours is never changed by the Hub, whatever was lost between
\* create and the save of its id (create never adopts), and of its own the Hub
\* removes no port that it neither recorded nor is to publish, even when strangers
\* add ports while it migrates (provision touches only known ports).
OwnOnly ==
  [][strangers' = strangers =>
       /\ \A c \in alive \ ours : c \in alive' /\ ports'[c] = ports[c]
       /\ \A c \in alive \cap alive' : ports[c] \ ports'[c] \subseteq rec \cup policy]_vars

\* A desired session serves again after transient faults and crashes, unless a
\* stranger changed its tunnel, its user stops it, or it failed once more than it is
\* retried without a connection in between (fail, open).
Recovers ==
  want /\ ~touched ~>
    pc = "serving" \/ touched \/ ~want \/ failures > MaxRetries
=============================================================================
