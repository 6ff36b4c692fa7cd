-------------------------- MODULE SessionLifecycle --------------------------
(***************************************************************************)
(* One session of the Hub in the manager (images/hub/src/manager.ts) with  *)
(* its SessionRuntime (auth.ts) and its relay worker (worker.ts).  A step  *)
(* is what the event loop runs between two awaits.  The tasks that         *)
(* interleave are the operation that holds exclusive(), the fail() calls   *)
(* that nothing serialises, the retry timers, the worker's messages and    *)
(* exit, the death of a session service, and close().                      *)
(*                                                                         *)
(* Abstractions: a run of CLI calls is one await with a nondeterministic   *)
(* outcome; error codes are kept as the classes the code tells apart; a    *)
(* save is an await that succeeds.                                         *)
(***************************************************************************)
EXTENDS Naturals, Sequences, FiniteSets

CONSTANTS
  Slots,       \* fail() calls that may be in progress at once
  MaxRetries,  \* consecutive retries of a session (8 in the code)
  Persisted    \* PostgreSQL backend: session services run per CLI call only

ASSUME ConstantsAssumption ==
  /\ MaxRetries \in Nat
  /\ Persisted \in BOOLEAN
  /\ "op" \notin Slots   \* the operation's saves are told from a failure's

VARIABLES
  desired,   \* s.desired
  status,    \* s.status
  error,     \* class of s.error
  identity,  \* s.identity is bound
  runtime,   \* entry of this.runtimes: none, open or aborted
  worker,    \* entry of this.workers: none, or what the worker last reported
  asked,     \* credentialsForWorker is in progress for that worker
  timer,     \* the timer whose handle this.retries holds is armed
  orphan,    \* a timer whose handle was overwritten is armed
  failures,  \* this.failures
  op,        \* the operation that holds exclusive() and what it awaits
  fails,     \* the fail() calls in progress
  saves,     \* whose save the store has still to write, first in first out
  phase      \* the manager: up, or how far close() is

sessionVars == <<desired, status, error, identity>>
workerVars == <<worker, asked>>
retryVars == <<timer, orphan, failures>>
vars == <<sessionVars, runtime, workerVars, retryVars, op, fails, saves, phase>>

Statuses == {"login_required", "ready", "starting", "running", "stopped",
             "reauth_required", "error", "removed"}
\* auth: AUTH_REQUIRED, LOGIN_TOKEN_EXPIRED; transient: WORKER_FAILED,
\* COMMAND_FAILED, COMMAND_CANCELLED_OR_TIMEOUT, TUNNEL_NOT_FOUND; busy:
\* SESSION_BUSY; already: SESSION_ALREADY_RUNNING; service:
\* SESSION_SERVICE_FAILED; policy: every other code.
Codes == {"auth", "transient", "policy", "busy", "already", "service"}
Commands == {"login", "connect", "reconnect", "start", "stop", "logout", "remove"}
Internal == {"resume", "retry", "check", "configure", "policy"}
Cli == {"logout", "login", "prepare", "cli"}
Awaits == Cli \cup {"enter", "halt", "apply", "fork", "save", "fail", "none"}

NoOp == [name |-> "none", await |-> "none", dying |-> FALSE]
NoFail == [await |-> "none", code |-> "none", dying |-> FALSE, holds |-> FALSE]

\* The store has written what task t saved, after everything saved before.
Written(t) == saves # <<>> /\ Head(saves) = t /\ saves' = Tail(saves)
Save == saves' = Append(saves, "op")

Await(a) == op' = [op EXCEPT !.await = a, !.dying = FALSE]
Release == op' = NoOp

\* Awaiting a promise that is already settled, such as terminate(undefined), lets
\* no event in: the continuation runs before anything else.
Quiet ==
  /\ op.await # "enter"
  /\ op.await = "halt" => op.dying
  /\ \A f \in Slots : fails[f].await = "halt" => fails[f].dying

\* The bound on fail() calls keeps a slot for the operation that may throw.
Spare(n) == Cardinality({f \in Slots : fails[f] = NoFail}) >= n
Begin(name, a, dying) ==
  /\ Quiet /\ op = NoOp /\ phase = "up" /\ Spare(1)
  /\ op' = [name |-> name, await |-> a, dying |-> dying]

\* After open(): a session added just now, or one that is being resumed.
Init ==
  /\ \/ /\ desired = FALSE /\ identity = FALSE /\ status = "login_required"
        /\ op = NoOp
     \/ /\ desired = TRUE /\ identity = TRUE /\ status = "stopped"
        /\ op = [name |-> "resume", await |-> "enter", dying |-> FALSE]
  /\ error = "none" /\ runtime = "none"
  /\ worker = "none" /\ asked = FALSE
  /\ timer = FALSE /\ orphan = FALSE /\ failures = 0
  /\ fails = [f \in Slots |-> NoFail]
  /\ saves = <<>> /\ phase = "up"
-----------------------------------------------------------------------------
(* stopWorker and fail                                                     *)

\* stopWorker up to its await, which lasts as long as the process taken from the
\* map is dying.
TakeWorker ==
  /\ timer' = FALSE
  /\ worker' = "none" /\ asked' = FALSE

\* fail(s, e) up to its first await.  A command and the auth check call it while
\* they hold exclusive().
Fail(code, holds, dying) ==
  IF phase # "up"
  THEN UNCHANGED <<workerVars, timer, fails>>
  ELSE /\ TakeWorker
       /\ \E f \in Slots :
            /\ fails[f] = NoFail
            /\ fails' = [fails EXCEPT ![f] = [await |-> "halt", code |-> code,
                                              dying |-> dying, holds |-> holds]]


Throw_KeepsBusy(code) ==
  LET holds == phase = "up" /\ op.name \in Commands \cup {"check"} IN
  /\ Fail(code, holds, worker # "none")
  /\ Await("fail")

\* The action given to exclusive() throws: dispatch and the auth check fail the
\* session inside exclusive(), the callers of start() do so after it.
Throw(code) ==
  LET holds == phase = "up" /\ op.name \in Commands \cup {"check"} IN
  /\ Fail(code, holds, worker # "none")
  /\ IF holds THEN Await("fail") ELSE Release

FailHalted_CodeAsStatus(f) ==
  /\ fails[f].await = "halt"
  /\ fails[f].dying => Quiet
  /\ status' = fails[f].code /\ error' = fails[f].code
  /\ fails' = [fails EXCEPT ![f].await = "save"]
  /\ saves' = Append(saves, f)
  /\ UNCHANGED <<desired, identity, runtime, workerVars, retryVars, op, phase>>

\* The worker is gone: the status is written, whatever it has become meanwhile.
FailHalted(f) ==
  /\ fails[f].await = "halt"
  /\ fails[f].dying => Quiet
  /\ IF fails[f].code = "none"
       THEN UNCHANGED <<status, error>>
       ELSE /\ status' = IF fails[f].code = "auth" THEN "reauth_required" ELSE "error"
            /\ error' = fails[f].code
  /\ fails' = [fails EXCEPT ![f].await = "save"]
  /\ saves' = Append(saves, f)
  /\ UNCHANGED <<desired, identity, runtime, workerVars, retryVars, op, phase>>

FailSaved_CountsOnly(f) ==
  LET counts == desired /\ fails[f].code = "transient" IN
  /\ Quiet /\ fails[f].await = "save" /\ Written(f)
  /\ failures' = IF counts /\ failures <= MaxRetries THEN failures + 1 ELSE failures
  /\ fails' = [fails EXCEPT ![f] = NoFail]
  /\ IF fails[f].holds THEN Release ELSE UNCHANGED op
  /\ UNCHANGED <<sessionVars, runtime, workerVars, timer, orphan, phase>>

\* After the save: a transient failure of a desired session arms a retry.
FailSaved(f) ==
  LET counts == desired /\ fails[f].code = "transient"
      arms == counts /\ failures < MaxRetries IN
  /\ Quiet /\ fails[f].await = "save" /\ Written(f)
  /\ failures' = IF counts /\ failures <= MaxRetries THEN failures + 1 ELSE failures
  /\ timer' = (timer \/ arms)
  /\ orphan' = (orphan \/ (arms /\ timer))
  /\ fails' = [fails EXCEPT ![f] = NoFail]
  /\ IF fails[f].holds THEN Release ELSE UNCHANGED op
  /\ UNCHANGED <<sessionVars, runtime, workerVars, phase>>
-----------------------------------------------------------------------------
(* start(s): from a command, from open() and from a retry timer            *)

\* An aborted runtime refuses every call; the call during which a service died
\* ends in SESSION_SERVICE_FAILED.
Errors == IF runtime = "aborted" THEN {"transient", "service"}
                                 ELSE {"auth", "transient", "policy"}
Open == IF runtime = "none" THEN "open" ELSE runtime

EnterStart_NoWorkerCheck ==
  /\ op.await = "enter"
  /\ IF identity
       THEN /\ timer' = FALSE /\ runtime' = Open
            /\ Await("prepare")
            /\ UNCHANGED <<workerVars, fails>>
       ELSE /\ Throw("auth")
            /\ UNCHANGED runtime
  /\ UNCHANGED <<sessionVars, orphan, failures, saves, phase>>

EnterStart ==
  /\ op.await = "enter"
  /\ IF identity /\ worker = "none"
       THEN /\ timer' = FALSE /\ runtime' = Open
            /\ Await("prepare")
            /\ UNCHANGED <<workerVars, fails>>
       ELSE /\ Throw(IF identity THEN "already" ELSE "auth")
            /\ UNCHANGED runtime
  /\ UNCHANGED <<sessionVars, orphan, failures, saves, phase>>

\* Identity, name, provisioning, credentials and squid are done.
Prepared ==
  /\ Quiet /\ op.await = "prepare"
  /\ runtime = "open" \/ phase # "up"
  /\ desired' = TRUE /\ status' = "starting" /\ error' = "none"
  /\ Await("fork") /\ Save
  /\ UNCHANGED <<identity, runtime, workerVars, retryVars, fails, phase>>

PrepareFails ==
  /\ Quiet /\ op.await = "prepare"
  /\ \E code \in Errors : Throw(code)
  /\ UNCHANGED <<sessionVars, runtime, orphan, failures, saves, phase>>

\* Neither the phase nor the session is looked at again.
Fork ==
  /\ Quiet /\ op.await = "fork" /\ Written("op")
  /\ worker' = "starting" /\ asked' = FALSE
  /\ Release
  /\ UNCHANGED <<sessionVars, runtime, retryVars, fails, phase>>

RetryFires(stale) ==
  /\ Quiet
  /\ IF stale THEN orphan ELSE timer
  /\ orphan' = (orphan /\ ~stale)
  /\ \/ /\ Begin("retry", "enter", FALSE)
        /\ timer' = (timer /\ stale)
        /\ UNCHANGED <<workerVars, fails>>
     \/ /\ phase = "up" /\ op # NoOp /\ Spare(2)
        /\ Fail("busy", FALSE, worker # "none")
        /\ UNCHANGED op
     \/ /\ phase # "up"
        /\ timer' = (timer /\ stale)
        /\ UNCHANGED <<workerVars, fails, op>>
  /\ UNCHANGED <<sessionVars, runtime, failures, saves, phase>>
-----------------------------------------------------------------------------
(* dispatch: the administrator's commands                                  *)

Command_KeepsTimer(name) ==
  /\ status # "removed"
  /\ IF name = "start"
       THEN /\ Begin(name, "enter", FALSE)
            /\ UNCHANGED <<desired, workerVars>>
       ELSE /\ Begin(name, "halt", worker # "none")
            /\ desired' = FALSE
            /\ worker' = "none" /\ asked' = FALSE
  /\ UNCHANGED <<status, error, identity, runtime, retryVars, fails, saves, phase>>

\* Every command but "start" first drops the desired state and stops the worker.
Command(name) ==
  /\ status # "removed"
  /\ IF name = "start"
       THEN /\ Begin(name, "enter", FALSE)
            /\ UNCHANGED <<desired, workerVars, timer>>
       ELSE /\ Begin(name, "halt", worker # "none")
            /\ desired' = FALSE
            /\ TakeWorker
  /\ UNCHANGED <<status, error, identity, runtime, orphan, failures, fails, saves, phase>>

Halted ==
  /\ op.await = "halt"
  /\ op.dying => Quiet
  /\ IF op.name = "stop"
       THEN /\ status' = IF identity THEN "stopped" ELSE "login_required"
            /\ Await("save") /\ Save
            /\ UNCHANGED runtime
       ELSE /\ runtime' = Open
            /\ Await(IF op.name \in {"login", "connect"} THEN "login" ELSE "logout")
            /\ UNCHANGED <<status, saves>>
  /\ UNCHANGED <<desired, error, identity, workerVars, retryVars, fails, phase>>

\* "user logout" went through or there was no login left; the runtime is closed.
LoggedOut ==
  /\ Quiet /\ op.await = "logout"
  /\ runtime = "open"
  /\ \/ /\ op.name = "reconnect"
        /\ status' = "reauth_required" /\ error' = "none"
        /\ runtime' = "open"
        /\ Await("login")
     \/ /\ op.name \in {"logout", "remove"}
        /\ status' = IF op.name = "remove" THEN "removed" ELSE "login_required"
        /\ runtime' = "none"
        /\ Await("apply")
        /\ UNCHANGED error
  /\ UNCHANGED <<desired, identity, workerVars, retryVars, fails, saves, phase>>

\* The CLI call fails, or closing the runtime does and leaves it in the map.
LogoutFails ==
  /\ Quiet /\ op.await = "logout"
  /\ \/ \E code \in Errors \ {"auth"} : Throw(code) /\ UNCHANGED runtime
     \/ Throw("policy") /\ runtime' = "aborted"
  /\ UNCHANGED <<sessionVars, orphan, failures, saves, phase>>

LoggedIn ==
  /\ Quiet /\ op.await = "login"
  /\ runtime = "open"
  /\ identity' = TRUE /\ status' = "ready" /\ error' = "none"
  /\ Await("apply")
  /\ UNCHANGED <<desired, runtime, workerVars, retryVars, fails, saves, phase>>

\* The name may turn out to be taken once the identity is bound.
LoginFails ==
  /\ Quiet /\ op.await = "login"
  /\ \E code \in Errors : Throw(code)
  /\ identity' \in {identity, runtime = "open" \/ identity}
  /\ UNCHANGED <<desired, status, error, runtime, orphan, failures, saves, phase>>

\* The save and squid's new configuration.
Applied ==
  /\ Quiet /\ op.await = "apply"
  /\ IF op.name \in {"connect", "reconnect"} THEN Await("enter") ELSE Release
  /\ UNCHANGED <<sessionVars, runtime, workerVars, retryVars, fails, saves, phase>>

ApplyFails ==
  /\ Quiet /\ op.await = "apply"
  /\ \E code \in {"transient", "policy"} : Throw(code)
  /\ UNCHANGED <<sessionVars, runtime, orphan, failures, saves, phase>>

Saved ==
  /\ Quiet /\ op.await = "save" /\ Written("op")
  /\ Release
  /\ UNCHANGED <<sessionVars, runtime, workerVars, retryVars, fails, phase>>

\* configureSession updates the resource once there is one; what it throws does
\* not fail the session.
Configure ==
  /\ status # "removed"
  /\ \/ /\ identity /\ Begin("configure", "cli", FALSE)
        /\ runtime' = Open /\ UNCHANGED saves
     \/ /\ Begin("configure", "save", FALSE)
        /\ Save /\ UNCHANGED runtime
  /\ UNCHANGED <<sessionVars, workerVars, retryVars, fails, phase>>

\* The interval of scheduleAuthChecks.
AuthCheck ==
  /\ desired /\ status = "running"
  /\ Begin("check", "cli", FALSE)
  /\ runtime' = Open
  /\ UNCHANGED <<sessionVars, workerVars, retryVars, fails, saves, phase>>

\* The calls succeed, or their failure is only reported.
CliDone ==
  /\ Quiet /\ op.await = "cli"
  /\ Release
  /\ UNCHANGED <<sessionVars, runtime, workerVars, retryVars, fails, saves, phase>>

AuthCheckFails ==
  /\ Quiet /\ op.await = "cli" /\ op.name = "check"
  /\ \E code \in Errors \cap {"auth", "policy"} : Throw(code)
  /\ UNCHANGED <<sessionVars, runtime, orphan, failures, saves, phase>>

\* applyPolicy: changingPolicy refuses every exclusive() until it is over.
Policy ==
  /\ worker = "none" /\ ~desired
  /\ Begin("policy", "cli", FALSE)
  /\ runtime' = "none"
  /\ UNCHANGED <<sessionVars, workerVars, retryVars, fails, saves, phase>>
-----------------------------------------------------------------------------
(* The worker and the session services                                     *)

WorkerReports(report) ==
  /\ Quiet /\ worker # "none"
  /\ worker' = report
  /\ status' = IF report = "ready" THEN "running" ELSE "starting"
  /\ failures' = IF report = "ready" THEN 0 ELSE failures
  /\ UNCHANGED <<desired, error, identity, runtime, asked, timer, orphan, op, fails,
                 saves, phase>>

WorkerExits_Unnoticed ==
  /\ Quiet /\ worker # "none"
  /\ worker' = "none" /\ asked' = FALSE
  /\ UNCHANGED <<sessionVars, runtime, retryVars, fails, op, saves, phase>>

\* Exit code 75 tells that the credentials were refused.
WorkerExits ==
  /\ Quiet /\ worker # "none"
  /\ IF phase = "up" /\ desired
       THEN /\ Spare(2)
            /\ \E code \in {"auth", "transient"} : Fail(code, FALSE, FALSE)
       ELSE worker' = "none" /\ asked' = FALSE /\ UNCHANGED <<timer, fails>>
  /\ UNCHANGED <<sessionVars, runtime, orphan, failures, op, saves, phase>>

AskCredentials ==
  /\ Quiet /\ worker # "none" /\ ~asked
  /\ asked' = TRUE
  /\ UNCHANGED <<sessionVars, runtime, worker, retryVars, op, fails, saves, phase>>

CredentialsSent ==
  /\ Quiet /\ asked /\ runtime = "open"
  /\ asked' = FALSE
  /\ UNCHANGED <<sessionVars, runtime, worker, retryVars, op, fails, saves, phase>>

CredentialsFail ==
  /\ Quiet /\ asked
  /\ IF phase = "up"
       THEN Spare(2) /\ \E code \in Errors : Fail(code, FALSE, TRUE)
       ELSE asked' = FALSE /\ UNCHANGED <<worker, timer, fails>>
  /\ UNCHANGED <<sessionVars, runtime, orphan, failures, op, saves, phase>>

\* dbus-daemon or gnome-keyring-daemon dies: serviceExit and onFailure, which
\* writes the status first and stops the worker without failing the session.
ServiceExits ==
  /\ Quiet /\ phase = "up" /\ runtime = "open"
  /\ Persisted => op.await \in Cli \/ asked
  /\ runtime' = IF Persisted THEN "aborted" ELSE runtime
  /\ status' = "error" /\ error' = "service"
  /\ Spare(2) /\ Fail("none", FALSE, worker # "none")
  /\ UNCHANGED <<desired, identity, orphan, failures, op, saves, phase>>
-----------------------------------------------------------------------------
(* Manager.close                                                           *)

Abort == IF runtime = "open" THEN "aborted" ELSE runtime

Close ==
  /\ Quiet /\ phase = "up"
  /\ phase' = IF worker = "none" THEN "draining" ELSE "stopping"
  /\ timer' = FALSE
  /\ runtime' = Abort
  /\ UNCHANGED <<sessionVars, workerVars, orphan, failures, op, fails, saves>>

CloseWorkers ==
  /\ Quiet /\ phase = "stopping"
  /\ phase' = "draining"
  /\ worker' = "none" /\ asked' = FALSE
  /\ UNCHANGED <<sessionVars, runtime, retryVars, op, fails, saves>>

\* Every tracked operation has settled.
CloseEnd ==
  /\ Quiet /\ phase = "draining"
  /\ op = NoOp
  /\ phase' = "closed"
  /\ runtime' = "none"
  /\ UNCHANGED <<sessionVars, workerVars, retryVars, op, fails, saves>>
-----------------------------------------------------------------------------
OpStep ==
  \/ EnterStart \/ Prepared \/ PrepareFails \/ Fork \/ Halted \/ LoggedOut
  \/ LogoutFails \/ LoggedIn \/ LoginFails \/ Applied \/ ApplyFails \/ Saved
  \/ CliDone \/ AuthCheckFails

FailStep == \E f \in Slots : FailHalted(f) \/ FailSaved(f)

WorkerStep ==
  \/ \E report \in {"starting", "ready"} : WorkerReports(report)
  \/ WorkerExits \/ AskCredentials

CloseStep == CloseWorkers \/ CloseEnd

Next ==
  \/ \E name \in Commands : Command(name)
  \/ Configure \/ AuthCheck \/ Policy \/ Close \/ ServiceExits
  \/ OpStep \/ FailStep \/ WorkerStep \/ CloseStep
  \/ CredentialsSent \/ CredentialsFail
  \/ \E stale \in BOOLEAN : RetryFires(stale)

Spec == Init /\ [][Next]_vars

\* Every await ends (CLI calls, terminate and saves have timeouts) and an armed
\* timer fires.
FairSpec ==
  /\ Spec
  /\ WF_vars(OpStep) /\ WF_vars(FailStep) /\ WF_vars(CloseStep)
  /\ WF_vars(CredentialsSent \/ CredentialsFail)
  /\ WF_vars(\E stale \in BOOLEAN : RetryFires(stale))
-----------------------------------------------------------------------------
(* Properties                                                              *)

\* Every variable keeps its type.
TypeOK ==
  /\ desired \in BOOLEAN /\ status \in Statuses
  /\ error \in Codes \cup {"none"} /\ identity \in BOOLEAN
  /\ runtime \in {"none", "open", "aborted"}
  /\ worker \in {"none", "starting", "ready"} /\ asked \in BOOLEAN
  /\ timer \in BOOLEAN /\ orphan \in BOOLEAN /\ failures \in 0 .. MaxRetries + 1
  /\ op \in [name : Commands \cup Internal \cup {"none"}, await : Awaits,
             dying : BOOLEAN]
  /\ fails \in [Slots -> [await : {"none", "halt", "save"},
                          code : Codes \cup {"none"}, dying : BOOLEAN,
                          holds : BOOLEAN]]
  /\ saves \in Seq(Slots \cup {"op"})
  /\ phase \in {"up", "stopping", "draining", "closed"}

\* Nothing that could still change the session on its own is in progress.
Settled == phase = "up" /\ op = NoOp /\ \A f \in Slots : fails[f] = NoFail

\* this.workers never loses a process: a start that is past its checks finds no
\* worker when it stores the one it forks, whatever failed or fired meanwhile.
NoWorkerLost == op.await \in {"prepare", "fork"} => worker = "none"

\* A session has a worker, and a retry that stopWorker knows of and can disarm, only
\* while its administrator wants it to serve; in particular it has neither while
\* applyPolicy swaps the policy (STOP_SESSIONS_FIRST is checked once, before its
\* awaits).  An armed retry whose handle was overwritten is not spoken of here: it
\* outlives the stop, and is StopDisablesRestart's.  exclusive() turns it away while
\* the policy is swapped.
ServesAsDesired ==
  /\ worker # "none" /\ phase = "up" => desired
  /\ timer => desired
  /\ op.name = "policy" => ~desired /\ worker = "none"

\* A status that reports a relay connection does not outlive the worker.
NoGhostStatus ==
  Settled /\ status \in {"starting", "running"} => worker # "none"

\* A session that was lost to a transient failure has a retry ahead of it, or
\* has used them all up.
RetryCovered ==
  Settled /\ desired /\ worker = "none" /\ error = "transient" =>
    timer \/ failures > MaxRetries

\* Whatever fails, exclusive() is released, so that the session stays administrable,
\* and close() comes to its end whatever was in progress (exclusive, close).
EverythingEnds == []<>(op = NoOp) /\ (phase # "up" ~> phase = "closed")

\* README "remove logs out and tombstones the session": once a removal is over
\* the session stays removed.
RemovedStaysRemoved ==
  [][status = "removed" /\ op.name # "remove" => status' = "removed"]_vars

\* README "stop closes the worker and disables automatic restart for that
\* session": a retry never starts a session that is not desired.
StopDisablesRestart ==
  [][op.name # "retry" /\ op'.name = "retry" => desired]_vars
=============================================================================
