--------------------------- MODULE CredentialStore ---------------------------
(***************************************************************************)
(* The login of one session on its way between the private home of the     *)
(* manager that uses it and the database (auth.ts withCredentials,         *)
(* postgres.ts beginAuth, checkpoint, restore, read), with managers that   *)
(* crash or lose the connection that holds the advisory lock.              *)
(*                                                                         *)
(* A login is a number: whatever the CLI writes into the keyring is a new  *)
(* one, 0 is none.  What it replaces is spent: the provider may refuse it. *)
(* Sealing and generations are left out: a package can be opened and       *)
(* belongs to its row.  Statuses are left out but for desired.             *)
(***************************************************************************)
EXTENDS Integers, FiniteSets

CONSTANTS
  Managers,   \* processes, one after the other or at the same time
  None,       \* no connection holds the lock
  MaxIssued   \* bound on the logins issued

ASSUME ConstantsAssumption == None \notin Managers /\ MaxIssued \in Nat

VARIABLES
  conn,      \* the manager whose connection is alive and holds the lock
  row,       \* the row of credentials: the dirty marker and the package
  stored,    \* desired, in the state of the database
  pc,        \* how far a manager is in open()
  wants,     \* desired, in the memory of a manager
  runtime,   \* the SessionRuntime of a manager
  task,      \* where withCredentials is
  ring,      \* the login that the keyring holds in memory
  home,      \* the login in the files of the home
  packed,    \* the login in the package that is about to be written
  issued,    \* logins issued so far
  spent,     \* logins replaced or logged out
  lost       \* history: logins that a keyring fell back to as it lost what
             \*          replaced them, and its runtime went on

managerVars == <<pc, wants, runtime>>
loginVars == <<ring, home, packed, issued, spent, lost>>
vars == <<conn, row, stored, managerVars, task, loginVars>>

\* The CLI or the keyring may be running.
InUse(m) == task[m] \in {"services", "cli", "stopping"}
To(m, step) == task' = [task EXCEPT ![m] = step]
From(m, step) == task[m] = step /\ UNCHANGED <<stored, pc, wants, issued>>

Init ==
  /\ conn = None /\ row = [dirty |-> FALSE, package |-> 0] /\ stored = FALSE
  /\ pc = [m \in Managers |-> "down"] /\ wants = [m \in Managers |-> FALSE]
  /\ runtime = [m \in Managers |-> "none"] /\ task = [m \in Managers |-> "none"]
  /\ ring = [m \in Managers |-> 0] /\ home = [m \in Managers |-> 0]
  /\ packed = [m \in Managers |-> 0]
  /\ issued = 0 /\ spent = {} /\ lost = {}
-----------------------------------------------------------------------------
(* The manager                                                             *)

ReadDesired_AsStored == stored

\* read(): an interrupted session has to log in again.
ReadDesired == stored /\ ~row.dirty

Load(m) ==
  /\ pc[m] = "down" /\ conn = None /\ conn' = m
  /\ pc' = [pc EXCEPT ![m] = "loaded"]
  /\ wants' = [wants EXCEPT ![m] = ReadDesired]
  /\ UNCHANGED <<row, stored, runtime, task, loginVars>>

\* The saves of load() and open().
Ready(m) ==
  /\ pc[m] = "loaded" /\ conn = m /\ stored' = wants[m]
  /\ pc' = [pc EXCEPT ![m] = "ready"]
  /\ UNCHANGED <<conn, row, wants, runtime, task, loginVars>>

\* The last step of open(): a desired session is started.
Resume(m) ==
  /\ pc[m] = "ready" /\ pc' = [pc EXCEPT ![m] = "up"]
  /\ UNCHANGED <<conn, row, stored, wants, runtime, task, loginVars>>

\* start sets desired once its CLI calls have succeeded; stop, login and logout
\* clear it.  Either is saved later.
SetDesired(m) ==
  /\ pc[m] = "up" /\ task[m] = "none"
  /\ \/ runtime[m] = "open" /\ home[m] # 0 /\ wants' = [wants EXCEPT ![m] = TRUE]
     \/ wants' = [wants EXCEPT ![m] = FALSE]
  /\ UNCHANGED <<conn, row, stored, pc, runtime, task, loginVars>>

Save(m) ==
  /\ pc[m] = "up" /\ conn = m /\ stored' = wants[m]
  /\ UNCHANGED <<conn, row, pc, wants, runtime, task, loginVars>>

Restored_AnyPackage == row.package

\* restore(): the package of a clean row, into an empty directory.
Restored == IF row.dirty THEN 0 ELSE row.package

OpenRuntime(m) ==
  /\ pc[m] = "up" /\ conn = m /\ runtime[m] = "none"
  /\ runtime' = [runtime EXCEPT ![m] = "open"]
  /\ home' = [home EXCEPT ![m] = Restored] /\ ring' = [ring EXCEPT ![m] = Restored]
  /\ UNCHANGED <<conn, row, stored, pc, wants, task, packed, issued, spent, lost>>

\* close() of the runtime aborts what runs, and then waits for it.
CloseRuntime(m) ==
  /\ \/ runtime[m] = "open"
     \/ runtime[m] = "failed" /\ task[m] = "none"
  /\ runtime' = [runtime EXCEPT ![m] = "closing"]
  /\ UNCHANGED <<conn, row, stored, pc, wants, task, loginVars>>

Idle_NotAwaited(m) == TRUE
Idle(m) == task[m] = "none"

RuntimeClosed(m) ==
  /\ runtime[m] = "closing" /\ Idle(m)
  /\ runtime' = [runtime EXCEPT ![m] = "none"]
  /\ home' = [home EXCEPT ![m] = 0] /\ ring' = [ring EXCEPT ![m] = 0]
  /\ UNCHANGED <<conn, row, stored, pc, wants, task, packed, issued, spent, lost>>

\* The connection ends and with it the lock; the manager may notice much later.
DropConnection ==
  /\ conn # None /\ conn' = None
  /\ UNCHANGED <<row, stored, managerVars, task, loginVars>>

\* The process ends, at any point; its home is never used again.
Exit(m) ==
  /\ pc[m] # "down" /\ pc' = [pc EXCEPT ![m] = "down"]
  /\ conn' = IF conn = m THEN None ELSE conn
  /\ wants' = [wants EXCEPT ![m] = FALSE]
  /\ runtime' = [runtime EXCEPT ![m] = "none"] /\ To(m, "none")
  /\ home' = [home EXCEPT ![m] = 0] /\ ring' = [ring EXCEPT ![m] = 0]
  /\ packed' = [packed EXCEPT ![m] = 0]
  /\ UNCHANGED <<row, stored, issued, spent, lost>>
-----------------------------------------------------------------------------
(* withCredentials: one task of a runtime at a time                        *)

BeginAuth(m) ==
  /\ From(m, "none") /\ runtime[m] = "open" /\ conn = m
  /\ row' = [row EXCEPT !.dirty = TRUE] /\ To(m, "services")
  /\ UNCHANGED <<conn, runtime, ring, home, packed, spent, lost>>

OpenServices(m) ==
  /\ From(m, "services") /\ runtime[m] = "open" /\ To(m, "cli")
  /\ UNCHANGED <<conn, row, runtime, ring, home, packed, spent, lost>>

\* Services that do not start end the task before its try block.
OpenServicesFails(m) ==
  /\ From(m, "services") /\ To(m, "none")
  /\ UNCHANGED <<conn, row, runtime, ring, home, packed, spent, lost>>

\* The CLI logs in, refreshes or logs out.
Use(m) ==
  /\ task[m] = "cli"
  /\ \/ /\ issued < MaxIssued /\ issued' = issued + 1
        /\ ring' = [ring EXCEPT ![m] = issued + 1]
     \/ ring' = [ring EXCEPT ![m] = 0] /\ UNCHANGED issued
  /\ spent' = spent \cup ({ring[m]} \ {0})
  /\ UNCHANGED <<conn, row, stored, managerVars, task, home, packed, lost>>

\* The keyring may write its files before it ends.
Flush(m) ==
  /\ From(m, "cli") /\ home' = [home EXCEPT ![m] = ring[m]]
  /\ UNCHANGED <<conn, row, runtime, task, ring, packed, spent, lost>>

\* The command succeeds, fails, times out or is aborted.
CliEnds(m) ==
  /\ From(m, "cli") /\ To(m, "stopping")
  /\ UNCHANGED <<conn, row, runtime, ring, home, packed, spent, lost>>

\* serviceExit: a service that dies by itself aborts the runtime for good.
ServiceDies(m) ==
  /\ task[m] \in {"services", "cli"} /\ runtime[m] = "open"
  /\ runtime' = [runtime EXCEPT ![m] = "failed"] /\ To(m, "stopping")
  /\ ring' = [ring EXCEPT ![m] = home[m]]
  /\ UNCHANGED <<conn, row, stored, pc, wants, home, packed, issued, spent, lost>>

\* The writes of a keyring that only its memory held are gone, but not its runtime.
FallsBack(m) ==
  /\ ring' = [ring EXCEPT ![m] = home[m]]
  /\ lost' = IF ring[m] # home[m] THEN lost \cup {home[m]} ELSE lost

\* Once the runtime is closing, or its services are being stopped, a keyring that
\* dies by itself is taken for one that has ended in time.
ServiceDiesUnnoticed(m) ==
  /\ \/ From(m, "cli") /\ runtime[m] = "closing"
     \/ From(m, "stopping") /\ runtime[m] # "failed"
  /\ FallsBack(m)
  /\ UNCHANGED <<conn, row, runtime, task, home, packed, spent>>

HomeAfterStop_NotQuiescent(m) == home[m]

\* A keyring that ends in time has written everything.
HomeAfterStop(m) == ring[m]

StopServices(m) ==
  /\ From(m, "stopping") /\ runtime[m] # "failed" /\ To(m, "pack")
  /\ home' = [home EXCEPT ![m] = HomeAfterStop(m)]
  /\ UNCHANGED <<conn, row, runtime, ring, packed, spent, lost>>

\* SESSION_SERVICE_FAILED: there is no checkpoint.
ServicesFailed(m) ==
  /\ From(m, "stopping") /\ runtime[m] = "failed" /\ To(m, "none")
  /\ UNCHANGED <<conn, row, runtime, ring, home, packed, spent, lost>>

\* CREDENTIAL_SERVICE_FORCED_EXIT: no checkpoint either, but the runtime stays.
ForcedExit(m) ==
  /\ From(m, "stopping") /\ runtime[m] # "failed" /\ To(m, "none")
  /\ FallsBack(m)
  /\ UNCHANGED <<conn, row, runtime, home, packed, spent>>

Pack(m) ==
  /\ From(m, "pack") /\ To(m, "commit")
  /\ packed' = [packed EXCEPT ![m] = home[m]]
  /\ UNCHANGED <<conn, row, runtime, ring, home, spent, lost>>

\* packHome refuses the home, or the connection is lost.
CheckpointFails(m) ==
  /\ task[m] = "pack" \/ (task[m] = "commit" /\ conn # m)
  /\ To(m, "none") /\ packed' = [packed EXCEPT ![m] = 0]
  /\ UNCHANGED <<conn, row, stored, managerVars, ring, home, issued, spent, lost>>

\* checkpoint(): the package and the clean marker in one statement.
Checkpoint(m) ==
  /\ From(m, "commit") /\ conn = m /\ row.dirty
  /\ row' = [dirty |-> FALSE, package |-> packed[m]]
  /\ To(m, "none") /\ packed' = [packed EXCEPT ![m] = 0]
  /\ UNCHANGED <<conn, runtime, ring, home, spent, lost>>

Next ==
  \/ DropConnection
  \/ \E m \in Managers :
       \/ Load(m) \/ Ready(m) \/ Resume(m) \/ SetDesired(m) \/ Save(m)
       \/ OpenRuntime(m) \/ CloseRuntime(m) \/ RuntimeClosed(m) \/ Exit(m)
       \/ BeginAuth(m) \/ OpenServices(m) \/ OpenServicesFails(m)
       \/ Use(m) \/ Flush(m) \/ CliEnds(m)
       \/ ServiceDies(m) \/ ServiceDiesUnnoticed(m)
       \/ StopServices(m) \/ ServicesFailed(m) \/ ForcedExit(m)
       \/ Pack(m) \/ CheckpointFails(m) \/ Checkpoint(m)

Spec == Init /\ [][Next]_vars
-----------------------------------------------------------------------------
Logins == 0 .. issued

\* Every variable keeps its type, and the home of a task is not removed under it.
TypeOK ==
  /\ conn \in Managers \cup {None} /\ issued \in 0 .. MaxIssued
  /\ row \in [dirty : BOOLEAN, package : Logins] /\ stored \in BOOLEAN
  /\ pc \in [Managers -> {"down", "loaded", "ready", "up"}]
  /\ wants \in [Managers -> BOOLEAN]
  /\ runtime \in [Managers -> {"none", "open", "failed", "closing"}]
  /\ task \in [Managers -> {"none", "services", "cli", "stopping", "pack", "commit"}]
  /\ ring \in [Managers -> Logins] /\ home \in [Managers -> Logins]
  /\ packed \in [Managers -> Logins]
  /\ spent \subseteq Logins /\ lost \subseteq Logins
  /\ \A m \in Managers : task[m] # "none" => runtime[m] # "none"

\* A superseded login is never restored, with one exception: whatever a clean row
\* holds has not been refreshed, replaced or logged out, by whichever manager, unless
\* a keyring fell back to this very login as it lost what replaced it, and its runtime
\* went on (auth.ts withCredentials and stopServices, postgres.ts checkpoint, restore).
CurrentUnlessLost == ~row.dirty /\ row.package \in spent => row.package \in lost

\* Two managers never use one login at the same time, not even while the old one
\* has not noticed that its connection and the lock are gone (postgres.ts restore).
ExclusiveUse ==
  \A m, n \in Managers :
    m # n /\ InUse(m) /\ InUse(n) /\ ring[m] # 0 => ring[m] # ring[n]

\* The manager that holds the lock never resumes by itself a session whose last
\* credential operation was interrupted (postgres.ts read, manager.ts open).
InterruptedNotResumed ==
  [][\A m \in Managers :
       pc[m] = "ready" /\ pc'[m] = "up" /\ conn = m /\ wants[m] => ~row.dirty]_vars
=============================================================================
