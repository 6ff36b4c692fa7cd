---------------------------- MODULE SessionProofs ----------------------------
(***************************************************************************)
(* The invariants of a session of the manager, for any number of failures  *)
(* in progress and any bound on the retries.                               *)
(***************************************************************************)
EXTENDS SessionLifecycle, TLAPS

OpType == [name : Commands \cup Internal \cup {"none"}, await : Awaits, dying : BOOLEAN]
FailTypes == [await : {"none", "halt", "save"}, code : Codes \cup {"none"},
              dying : BOOLEAN, holds : BOOLEAN]

\* What a failure leaves of the variables it may change.
FailVarsOK ==
  /\ timer \in BOOLEAN /\ asked \in BOOLEAN /\ worker \in {"none", "starting", "ready"}
  /\ fails \in [Slots -> FailTypes]

\* fail() takes the worker and a free slot, and keeps the types.
LEMMA FailKeepsTypes ==
  ASSUME TypeOK, NEW code \in Codes \cup {"none"}, NEW holds \in BOOLEAN,
         NEW dying \in BOOLEAN, Fail(code, holds, dying)
  PROVE  FailVarsOK'
<1>1. CASE phase # "up"
  BY <1>1 DEF Fail, FailVarsOK, TypeOK, FailTypes, workerVars
<1>2. CASE phase = "up"
  <2>1. TakeWorker
    BY <1>2 DEF Fail
  <2>2. PICK f \in Slots :
          fails' = [fails EXCEPT ![f] = [await |-> "halt", code |-> code,
                                         dying |-> dying, holds |-> holds]]
    BY <1>2 DEF Fail
  <2> QED
    BY <2>1, <2>2 DEF TakeWorker, FailVarsOK, TypeOK, FailTypes
<1> QED
  BY <1>1, <1>2

\* An operation that throws also releases exclusive() or waits for the failure.
LEMMA ThrowKeepsTypes ==
  ASSUME TypeOK, NEW code \in Codes, Throw(code)
  PROVE  FailVarsOK' /\ op' \in OpType
<1> DEFINE holds == phase = "up" /\ op.name \in Commands \cup {"check"}
<1>1. Fail(code, holds, worker # "none")
  BY DEF Throw
<1>2. FailVarsOK'
  <2>1. holds \in BOOLEAN /\ (worker # "none") \in BOOLEAN
    OBVIOUS
  <2> HIDE DEF holds
  <2> QED
    BY <1>1, <2>1, FailKeepsTypes
<1>3. op' = [op EXCEPT !.await = "fail", !.dying = FALSE] \/ op' = NoOp
  BY DEF Throw, Await, Release
<1>4. op \in OpType /\ NoOp \in OpType
  BY DEF TypeOK, OpType, NoOp, Awaits, Cli
<1>5. op' \in OpType
  BY <1>3, <1>4 DEF OpType, Awaits, Cli
<1> QED
  BY <1>2, <1>5

\* The operation moves on, starts or is over.
LEMMA OpKeepsType ==
  ASSUME TypeOK
  PROVE  /\ \A a \in Awaits : Await(a) => op' \in OpType
         /\ \A name \in Commands \cup Internal, a \in Awaits, dying \in BOOLEAN :
              Begin(name, a, dying) => op' \in OpType
         /\ Release \/ UNCHANGED op => op' \in OpType
<1>1. op \in OpType /\ NoOp \in OpType
  BY DEF TypeOK, OpType, NoOp, Awaits, Cli
<1>2. ASSUME NEW a \in Awaits, Await(a) PROVE op' \in OpType
  BY <1>1, <1>2 DEF Await, OpType
<1>3. ASSUME NEW name \in Commands \cup Internal, NEW a \in Awaits, NEW dying \in BOOLEAN,
             Begin(name, a, dying)
      PROVE  op' \in OpType
  BY <1>3 DEF Begin, OpType
<1> QED
  BY <1>1, <1>2, <1>3 DEF Release

\* A save is queued or written.
LEMMA SavesKeepType ==
  ASSUME TypeOK
  PROVE  /\ Save => saves' \in Seq(Slots \cup {"op"})
         /\ \A t \in Slots \cup {"op"} : Written(t) => saves' \in Seq(Slots \cup {"op"})
<1>1. saves \in Seq(Slots \cup {"op"})
  BY DEF TypeOK
<1>2. ASSUME Save PROVE saves' \in Seq(Slots \cup {"op"})
  BY <1>1, <1>2 DEF Save
<1>3. ASSUME NEW t \in Slots \cup {"op"}, Written(t) PROVE saves' \in Seq(Slots \cup {"op"})
  BY <1>1, <1>3 DEF Written
<1> QED
  BY <1>2, <1>3

\* Every step keeps every variable's type.
LEMMA TypeStep == TypeOK /\ [Next]_vars => TypeOK'
<1> SUFFICES ASSUME TypeOK, [Next]_vars PROVE TypeOK'
  OBVIOUS
<1> USE ConstantsAssumption DEF sessionVars, workerVars, retryVars
<1>0. ASSUME FailVarsOK' /\ op' \in OpType, status' \in Statuses, desired' \in BOOLEAN,
             error' \in Codes \cup {"none"}, identity' \in BOOLEAN,
             runtime' \in {"none", "open", "aborted"}, orphan' \in BOOLEAN,
             failures' \in 0 .. MaxRetries + 1, saves' \in Seq(Slots \cup {"op"}),
             phase' \in {"up", "stopping", "draining", "closed"}
      PROVE  TypeOK'
  BY <1>0 DEF FailVarsOK, OpType, FailTypes, TypeOK
<1>1. CASE EnterStart
  <2>1. CASE identity /\ worker = "none"
    BY <1>1, <2>1 DEF TypeOK, EnterStart, Open, Await, Release, NoOp, Awaits, Cli, Commands, Internal
  <2>2. CASE ~(identity /\ worker = "none")
    <3>1. PICK code \in Codes : Throw(code)
      BY <1>1, <2>2 DEF EnterStart, Codes
    <3>2. FailVarsOK' /\ op' \in OpType
      BY <3>1, ThrowKeepsTypes
    <3> QED
      BY <1>0, <1>1, <2>2, <3>2 DEF TypeOK, EnterStart
  <2> QED
    BY <2>1, <2>2
<1>2. CASE Prepared
  <2>1. op' \in OpType
    BY <1>2, OpKeepsType DEF Prepared, Awaits, Cli
  <2>2. saves' \in Seq(Slots \cup {"op"})
    BY <1>2, SavesKeepType DEF Prepared, TypeOK
  <2> QED
    BY <1>0, <1>2, <2>1, <2>2 DEF Prepared, TypeOK, FailVarsOK, FailTypes, Statuses
<1>3. CASE PrepareFails
  <2>1. PICK code \in Codes : Throw(code)
    BY <1>3 DEF PrepareFails, Errors, Codes
  <2>2. FailVarsOK' /\ op' \in OpType
    BY <2>1, ThrowKeepsTypes
  <2> QED
    BY <1>0, <1>3, <2>2 DEF TypeOK, PrepareFails
<1>4. CASE Fork
  <2>1. op' \in OpType
    BY <1>4, OpKeepsType DEF Fork, Awaits, Cli
  <2>2. saves' \in Seq(Slots \cup {"op"})
    BY <1>4, SavesKeepType DEF Fork, TypeOK
  <2> QED
    BY <1>0, <1>4, <2>1, <2>2 DEF Fork, TypeOK, FailVarsOK, FailTypes, Statuses
<1>5. CASE Halted
  <2>1. op' \in OpType
    BY <1>5, OpKeepsType DEF Halted, Awaits, Cli
  <2>2. saves' \in Seq(Slots \cup {"op"})
    BY <1>5, SavesKeepType DEF Halted, TypeOK
  <2> QED
    BY <1>0, <1>5, <2>1, <2>2 DEF Halted, TypeOK, FailVarsOK, FailTypes, Open, Statuses
<1>6. CASE LoggedOut
  <2>1. op' \in OpType
    BY <1>6, OpKeepsType DEF LoggedOut, Awaits, Cli
  <2>2. saves' \in Seq(Slots \cup {"op"})
    BY <1>6, SavesKeepType DEF LoggedOut, TypeOK
  <2> QED
    BY <1>0, <1>6, <2>1, <2>2 DEF LoggedOut, TypeOK, FailVarsOK, FailTypes, Statuses
<1>7. CASE LogoutFails
  <2>1. PICK code \in Codes : Throw(code)
    BY <1>7 DEF LogoutFails, Errors, Codes
  <2>2. FailVarsOK' /\ op' \in OpType
    BY <2>1, ThrowKeepsTypes
  <2> QED
    BY <1>0, <1>7, <2>2 DEF TypeOK, LogoutFails
<1>8. CASE LoggedIn
  <2>1. op' \in OpType
    BY <1>8, OpKeepsType DEF LoggedIn, Awaits, Cli
  <2>2. saves' \in Seq(Slots \cup {"op"})
    BY <1>8, SavesKeepType DEF LoggedIn, TypeOK
  <2> QED
    BY <1>0, <1>8, <2>1, <2>2 DEF LoggedIn, TypeOK, FailVarsOK, FailTypes, Statuses
<1>9. CASE LoginFails
  <2>1. PICK code \in Codes : Throw(code)
    BY <1>9 DEF LoginFails, Errors, Codes
  <2>2. FailVarsOK' /\ op' \in OpType
    BY <2>1, ThrowKeepsTypes
  <2> QED
    BY <1>0, <1>9, <2>2 DEF TypeOK, LoginFails
<1>10. CASE Applied
  <2>1. op' \in OpType
    BY <1>10, OpKeepsType DEF Applied, Awaits, Cli
  <2>2. saves' \in Seq(Slots \cup {"op"})
    BY <1>10, SavesKeepType DEF Applied, TypeOK
  <2> QED
    BY <1>0, <1>10, <2>1, <2>2 DEF Applied, TypeOK, FailVarsOK, FailTypes
<1>11. CASE ApplyFails
  <2>1. PICK code \in Codes : Throw(code)
    BY <1>11 DEF ApplyFails, Errors, Codes
  <2>2. FailVarsOK' /\ op' \in OpType
    BY <2>1, ThrowKeepsTypes
  <2> QED
    BY <1>0, <1>11, <2>2 DEF TypeOK, ApplyFails
<1>12. CASE Saved
  <2>1. op' \in OpType
    BY <1>12, OpKeepsType DEF Saved, Awaits, Cli
  <2>2. saves' \in Seq(Slots \cup {"op"})
    BY <1>12, SavesKeepType DEF Saved, TypeOK
  <2> QED
    BY <1>0, <1>12, <2>1, <2>2 DEF Saved, TypeOK, FailVarsOK, FailTypes
<1>13. CASE CliDone
  <2>1. op' \in OpType
    BY <1>13, OpKeepsType DEF CliDone, Awaits, Cli
  <2>2. saves' \in Seq(Slots \cup {"op"})
    BY <1>13, SavesKeepType DEF CliDone, TypeOK
  <2> QED
    BY <1>0, <1>13, <2>1, <2>2 DEF CliDone, TypeOK, FailVarsOK, FailTypes
<1>14. CASE AuthCheckFails
  <2>1. PICK code \in Codes : Throw(code)
    BY <1>14 DEF AuthCheckFails, Errors, Codes
  <2>2. FailVarsOK' /\ op' \in OpType
    BY <2>1, ThrowKeepsTypes
  <2> QED
    BY <1>0, <1>14, <2>2 DEF TypeOK, AuthCheckFails
<1>15. ASSUME NEW f \in Slots, FailHalted(f) PROVE TypeOK'
  BY <1>15 DEF TypeOK, FailHalted, Statuses
<1>16. ASSUME NEW f \in Slots, FailSaved(f) PROVE TypeOK'
  <2>1. timer' \in BOOLEAN /\ orphan' \in BOOLEAN
    BY <1>16, Zenon DEF TypeOK, FailSaved
  <2>2. failures' \in 0 .. MaxRetries + 1
    BY <1>16 DEF TypeOK, FailSaved
  <2>3. op' \in OpType
    BY <1>16, OpKeepsType DEF FailSaved
  <2>4. fails' \in [Slots -> FailTypes]
    BY <1>16 DEF TypeOK, FailTypes, FailSaved, NoFail
  <2>5. FailVarsOK'
    BY <1>16, <2>1, <2>4 DEF TypeOK, FailSaved, FailVarsOK
  <2> QED
    BY <1>0, <1>16, <2>1, <2>2, <2>3, <2>5 DEF TypeOK, FailSaved, Written
<1>17. ASSUME NEW stale \in BOOLEAN, RetryFires(stale) PROVE TypeOK'
  <2>1. orphan' \in BOOLEAN
    BY <1>17, Zenon DEF TypeOK, RetryFires
  <2>2. CASE Begin("retry", "enter", FALSE) /\ timer' = (timer /\ stale) /\ UNCHANGED <<workerVars, fails>>
    <3>1. timer' \in BOOLEAN
      BY <2>2, Zenon DEF TypeOK
    <3> QED
      BY <1>17, <2>1, <2>2, <3>1 DEF TypeOK, RetryFires, Begin, Await, Release, NoOp, Awaits, Cli, Commands, Internal
  <2>3. CASE Fail("busy", FALSE, worker # "none") /\ UNCHANGED op
    <3>1. (worker # "none") \in BOOLEAN /\ "busy" \in Codes \cup {"none"}
      BY DEF Codes
    <3>2. FailVarsOK' /\ op' \in OpType
      BY <2>3, <3>1, FailKeepsTypes DEF TypeOK, OpType
    <3> QED
      BY <1>0, <1>17, <2>1, <3>2 DEF TypeOK, RetryFires
  <2>4. CASE timer' = (timer /\ stale) /\ UNCHANGED <<workerVars, fails, op>>
    <3>1. timer' \in BOOLEAN
      BY <2>4, Zenon DEF TypeOK
    <3> QED
      BY <1>17, <2>1, <2>4, <3>1 DEF TypeOK, RetryFires
  <2> QED
    BY <1>17, <2>2, <2>3, <2>4 DEF RetryFires
<1>18. ASSUME NEW name \in Commands, Command(name) PROVE TypeOK'
  <2>1. PICK a \in {"enter", "halt"}, dying \in BOOLEAN : Begin(name, a, dying)
    <3>1. (worker # "none") \in BOOLEAN
      OBVIOUS
    <3> QED
      BY <1>18, <3>1 DEF Command
  <2>2. op' \in OpType
    BY <2>1 DEF Begin, OpType, Awaits
  <2>3. FailVarsOK' /\ desired' \in BOOLEAN
    BY <1>18 DEF TypeOK, Command, TakeWorker, FailVarsOK, FailTypes
  <2> QED
    BY <1>0, <1>18, <2>2, <2>3 DEF TypeOK, Command
<1>19. ASSUME NEW report \in {"starting", "ready"}, WorkerReports(report) PROVE TypeOK'
  BY <1>19 DEF TypeOK, WorkerReports, Statuses
<1>20. CASE Configure
  <2>1. op' \in OpType
    BY <1>20, OpKeepsType DEF Configure, Internal, Awaits, Cli
  <2>2. saves' \in Seq(Slots \cup {"op"})
    BY <1>20, SavesKeepType DEF Configure, TypeOK
  <2>3. runtime' \in {"none", "open", "aborted"}
    BY <1>20 DEF Configure, Open, TypeOK
  <2> QED
    BY <1>0, <1>20, <2>1, <2>2, <2>3 DEF Configure, TypeOK, FailVarsOK, FailTypes
<1>21. CASE AuthCheck
  BY <1>21 DEF TypeOK, AuthCheck, Open, Begin, Await, Release, NoOp, Awaits, Cli, Commands, Internal
<1>22. CASE Policy
  BY <1>22 DEF TypeOK, Policy, Begin, Await, Release, NoOp, Awaits, Cli, Commands, Internal
<1>23. CASE AskCredentials
  BY <1>23 DEF TypeOK, AskCredentials
<1>24. CASE CredentialsSent
  BY <1>24 DEF TypeOK, CredentialsSent
<1>25. CASE Close
  BY <1>25 DEF TypeOK, Close, Abort
<1>26. CASE CloseWorkers
  BY <1>26 DEF TypeOK, CloseWorkers
<1>27. CASE CloseEnd
  BY <1>27 DEF TypeOK, CloseEnd
<1>28. CASE WorkerExits
  <2>1. CASE phase = "up" /\ desired
    <3>1. PICK code \in Codes \cup {"none"} : Fail(code, FALSE, FALSE)
      BY <1>28, <2>1 DEF WorkerExits, Codes
    <3>2. FailVarsOK'
      BY <3>1, FailKeepsTypes
    <3> QED
      BY <1>0, <1>28, <3>2 DEF TypeOK, OpType, WorkerExits
  <2>2. CASE ~(phase = "up" /\ desired)
    BY <1>28, <2>2 DEF TypeOK, WorkerExits
  <2> QED
    BY <2>1, <2>2
<1>29. CASE CredentialsFail
  <2>1. CASE phase = "up"
    <3>1. PICK code \in Codes \cup {"none"} : Fail(code, FALSE, TRUE)
      BY <1>29, <2>1 DEF CredentialsFail, Errors, Codes
    <3>2. FailVarsOK'
      BY <3>1, FailKeepsTypes
    <3> QED
      BY <1>0, <1>29, <3>2 DEF TypeOK, OpType, CredentialsFail
  <2>2. CASE phase # "up"
    BY <1>29, <2>2 DEF TypeOK, CredentialsFail
  <2> QED
    BY <2>1, <2>2
<1>30. CASE ServiceExits
  <2>1. (worker # "none") \in BOOLEAN /\ "none" \in Codes \cup {"none"}
    OBVIOUS
  <2>2. Fail("none", FALSE, worker # "none")
    BY <1>30 DEF ServiceExits
  <2>3. FailVarsOK'
    BY <2>1, <2>2, FailKeepsTypes
  <2> QED
    BY <1>0, <1>30, <2>3 DEF TypeOK, OpType, ServiceExits, Statuses, Codes
<1>31. CASE UNCHANGED vars
  BY <1>31 DEF vars, TypeOK
<1> QED
  BY <1>1, <1>2, <1>3, <1>4, <1>5, <1>6, <1>7, <1>8, <1>9, <1>10, <1>11,
     <1>12, <1>13, <1>14, <1>15, <1>16, <1>17, <1>18, <1>19, <1>20, <1>21,
     <1>22, <1>23, <1>24, <1>25, <1>26, <1>27, <1>28, <1>29, <1>30, <1>31
     DEF Next, OpStep, FailStep, WorkerStep, CloseStep

\* Every variable keeps its type, whatever interleaves.
THEOREM Typing == Spec => []TypeOK
<1>1. Init => TypeOK
  <2> SUFFICES ASSUME Init PROVE TypeOK
    OBVIOUS
  <2>1. op \in OpType
    <3>1. op = NoOp \/ op = [name |-> "resume", await |-> "enter", dying |-> FALSE]
      BY DEF Init
    <3>2. NoOp \in OpType
      BY DEF OpType, NoOp, Awaits, Cli
    <3>3. [name |-> "resume", await |-> "enter", dying |-> FALSE] \in OpType
      BY DEF OpType, Awaits, Internal
    <3> QED
      BY <3>1, <3>2, <3>3
  <2>2. fails \in [Slots -> FailTypes] 
    BY DEF Init, FailTypes, NoFail
  <2>3. saves \in Seq(Slots \cup {"op"})
    <3>1. saves = <<>>
      BY DEF Init
    <3> QED
      BY <3>1
  <2> QED
    <3>1. desired \in BOOLEAN /\ identity \in BOOLEAN /\ status \in Statuses
      BY DEF Init, Statuses
    <3>2. failures \in 0 .. MaxRetries + 1
      BY ConstantsAssumption DEF ConstantsAssumption, Init
    <3> QED
      BY <2>1, <2>2, <2>3, <3>1, <3>2 DEF Init, TypeOK, OpType, FailTypes
<1> QED
  BY <1>1, TypeStep, PTL DEF Spec
-----------------------------------------------------------------------------
\* A fork is reached only by a session that has been marked desired, and
\* applyPolicy has one run of awaits, which never fails a session.
ForkDesired == op.await = "fork" => desired
PolicyAwaits == op.name = "policy" => op.await = "cli"

ServeInv == NoWorkerLost /\ ServesAsDesired /\ ForkDesired /\ PolicyAwaits

\* A failure drops the worker and the retry, or changes nothing because the
\* manager is closing.
LEMMA FailDrops ==
  ASSUME NEW code, NEW holds, NEW dying, Fail(code, holds, dying)
  PROVE  /\ worker' = "none" \/ (phase # "up" /\ worker' = worker)
         /\ timer' = FALSE \/ timer' = timer
<1>1. CASE phase = "up"
  BY <1>1, Zenon DEF Fail, TakeWorker
<1>2. CASE phase # "up"
  BY <1>2, Zenon DEF Fail, workerVars
<1> QED
  BY <1>1, <1>2

\* After a throw no operation is about to fork.
LEMMA ThrowSettles ==
  ASSUME NEW code, Throw(code), op \in OpType
  PROVE  /\ worker' = "none" \/ (phase # "up" /\ worker' = worker)
         /\ timer' = FALSE \/ timer' = timer
         /\ op' = NoOp \/ (op'.await = "fail" /\ op'.name # "policy")
<1>1. Fail(code, phase = "up" /\ op.name \in Commands \cup {"check"}, worker # "none")
  BY DEF Throw
<1>2. /\ worker' = "none" \/ (phase # "up" /\ worker' = worker)
      /\ timer' = FALSE \/ timer' = timer
  BY <1>1, FailDrops
<1>3. op' = NoOp \/ (op'.await = "fail" /\ op'.name # "policy")
  <2>1. CASE phase = "up" /\ op.name \in Commands \cup {"check"}
    <3>1. op' = [op EXCEPT !.await = "fail", !.dying = FALSE]
      BY <2>1 DEF Throw, Await
    <3> QED
      BY <2>1, <3>1 DEF Commands, OpType
  <2>2. CASE ~(phase = "up" /\ op.name \in Commands \cup {"check"})
    BY <2>2 DEF Throw, Release
  <2> QED
    BY <2>1, <2>2
<1> QED
  BY <1>2, <1>3

\* Every step keeps the worker and the retry of this.retries under the desired state.
LEMMA ServeStep == TypeOK /\ ServeInv /\ [Next]_vars => ServeInv'
<1> SUFFICES ASSUME TypeOK, ServeInv, [Next]_vars PROVE ServeInv'
  OBVIOUS
<1> USE DEF ServeInv, NoWorkerLost, ServesAsDesired, ForkDesired, PolicyAwaits, NoOp,
            sessionVars, workerVars, retryVars
<1>0. op \in OpType
  BY DEF TypeOK, OpType
<1>32. ASSUME NEW code, Throw(code), UNCHANGED <<desired, phase>> PROVE ServeInv'
  <2>1. worker' = "none" \/ (phase # "up" /\ worker' = worker)
    BY <1>0, <1>32, ThrowSettles
  <2>2. timer' = FALSE \/ timer' = timer
    BY <1>0, <1>32, ThrowSettles
  <2>3. op' = NoOp \/ (op'.await = "fail" /\ op'.name # "policy")
    BY <1>0, <1>32, ThrowSettles
  <2>4. NoWorkerLost' /\ ForkDesired' /\ PolicyAwaits'
    BY <2>3
  <2>5. (worker # "none" /\ phase = "up" => desired)'
    BY <1>32, <2>1
  <2>6. (timer => desired)'
    BY <1>32, <2>2
  <2> QED
    BY <2>3, <2>4, <2>5, <2>6
<1>1. CASE EnterStart
  <2>1. CASE identity /\ worker = "none"
    BY <1>1, <1>0, <2>1 DEF EnterStart, Await, Release, OpType, Quiet
  <2>2. CASE ~(identity /\ worker = "none")
    <3>1. PICK code : Throw(code)
      BY <1>1, <2>2 DEF EnterStart
    <3> QED
      BY <1>1, <3>1, <1>32 DEF EnterStart
  <2> QED
    BY <2>1, <2>2
<1>2. CASE Prepared
  BY <1>2, <1>0 DEF Prepared, Await, Release, OpType, Quiet
<1>3. CASE PrepareFails
  <2>1. PICK code : Throw(code)
    BY <1>3 DEF PrepareFails
  <2> QED
    BY <1>3, <2>1, <1>32 DEF PrepareFails
<1>4. CASE Fork
  BY <1>4, <1>0 DEF Fork, Await, Release, OpType, Quiet
<1>5. CASE Halted
  BY <1>5, <1>0 DEF Halted, Await, Release, OpType, Quiet
<1>6. CASE LoggedOut
  BY <1>6, <1>0 DEF LoggedOut, Await, Release, OpType, Quiet
<1>7. CASE LogoutFails
  <2>1. PICK code : Throw(code)
    BY <1>7 DEF LogoutFails
  <2> QED
    BY <1>7, <2>1, <1>32 DEF LogoutFails
<1>8. CASE LoggedIn
  BY <1>8, <1>0 DEF LoggedIn, Await, Release, OpType, Quiet
<1>9. CASE LoginFails
  <2>1. PICK code : Throw(code)
    BY <1>9 DEF LoginFails
  <2> QED
    BY <1>9, <2>1, <1>32 DEF LoginFails
<1>10. CASE Applied
  <2>1. op' = NoOp \/ (op'.await = "enter" /\ op'.name # "policy")
    BY <1>10, <1>0 DEF Applied, Await, Release, OpType
  <2> QED
    BY <1>10, <2>1 DEF Applied
<1>11. CASE ApplyFails
  <2>1. PICK code : Throw(code)
    BY <1>11 DEF ApplyFails
  <2> QED
    BY <1>11, <2>1, <1>32 DEF ApplyFails
<1>12. CASE Saved
  BY <1>12, <1>0 DEF Saved, Await, Release, OpType, Quiet
<1>13. CASE CliDone
  BY <1>13, <1>0 DEF CliDone, Await, Release, OpType, Quiet
<1>14. CASE AuthCheckFails
  <2>1. PICK code : Throw(code)
    BY <1>14 DEF AuthCheckFails
  <2> QED
    BY <1>14, <2>1, <1>32 DEF AuthCheckFails
<1>15. ASSUME NEW f \in Slots, FailHalted(f) PROVE ServeInv'
  BY <1>15 DEF FailHalted
<1>16. ASSUME NEW f \in Slots, FailSaved(f) PROVE ServeInv'
  <2>1. timer' => timer \/ desired
    BY <1>16, Zenon DEF FailSaved
  <2>2. op' = op \/ op' = NoOp
    BY <1>16 DEF FailSaved, Release
  <2> QED
    BY <1>16, <1>0, <2>1, <2>2 DEF FailSaved
<1>17. ASSUME NEW stale \in BOOLEAN, RetryFires(stale) PROVE ServeInv'
  <2>1. CASE Begin("retry", "enter", FALSE) /\ timer' = (timer /\ stale) /\ UNCHANGED <<workerVars, fails>>
    <3>1. timer' => timer
      BY <2>1, Zenon
    <3> QED
      BY <1>17, <2>1, <3>1 DEF RetryFires, Begin
  <2>2. CASE Fail("busy", FALSE, worker # "none") /\ UNCHANGED op
    BY <1>17, <2>2, FailDrops DEF RetryFires
  <2>3. CASE timer' = (timer /\ stale) /\ UNCHANGED <<workerVars, fails, op>>
    <3>1. timer' => timer
      BY <2>3, Zenon
    <3> QED
      BY <1>17, <2>3, <3>1 DEF RetryFires
  <2> QED
    BY <1>17, <2>1, <2>2, <2>3 DEF RetryFires
<1>18. ASSUME NEW name \in Commands, Command(name) PROVE ServeInv'
  BY <1>18 DEF Command, Begin, TakeWorker, Commands
<1>19. ASSUME NEW report \in {"starting", "ready"}, WorkerReports(report) PROVE ServeInv'
  BY <1>19 DEF WorkerReports
<1>20. CASE Configure
  BY <1>20, <1>0 DEF Configure, Begin
<1>21. CASE AuthCheck
  BY <1>21, <1>0 DEF AuthCheck, Begin
<1>22. CASE Policy
  BY <1>22, <1>0 DEF Policy, Begin
<1>23. CASE AskCredentials
  BY <1>23, <1>0 DEF AskCredentials
<1>24. CASE CredentialsSent
  BY <1>24, <1>0 DEF CredentialsSent
<1>25. CASE Close
  BY <1>25, <1>0 DEF Close
<1>26. CASE CloseWorkers
  BY <1>26, <1>0 DEF CloseWorkers
<1>27. CASE CloseEnd
  BY <1>27, <1>0 DEF CloseEnd
<1>28. CASE WorkerExits
  <2>1. /\ worker' = "none" \/ (phase # "up" /\ worker' = worker)
        /\ timer' = FALSE \/ timer' = timer
    BY <1>28, FailDrops DEF WorkerExits
  <2> QED
    BY <1>28, <1>0, <2>1 DEF WorkerExits
<1>29. CASE CredentialsFail
  <2>1. /\ worker' = "none" \/ (phase # "up" /\ worker' = worker)
        /\ timer' = FALSE \/ timer' = timer
    BY <1>29, FailDrops DEF CredentialsFail
  <2> QED
    BY <1>29, <1>0, <2>1 DEF CredentialsFail
<1>30. CASE ServiceExits
  <2>1. /\ worker' = "none" \/ (phase # "up" /\ worker' = worker)
        /\ timer' = FALSE \/ timer' = timer
    BY <1>30, FailDrops DEF ServiceExits
  <2> QED
    BY <1>30, <1>0, <2>1 DEF ServiceExits
<1>31. CASE UNCHANGED vars
  BY <1>31 DEF vars
<1> QED
  BY <1>1, <1>2, <1>3, <1>4, <1>5, <1>6, <1>7, <1>8, <1>9, <1>10, <1>11,
     <1>12, <1>13, <1>14, <1>15, <1>16, <1>17, <1>18, <1>19, <1>20, <1>21,
     <1>22, <1>23, <1>24, <1>25, <1>26, <1>27, <1>28, <1>29, <1>30, <1>31
     DEF Next, OpStep, FailStep, WorkerStep, CloseStep

\* The invariants together; TypeOK makes the steps meaningful.
THEOREM Serving == Spec => [](TypeOK /\ ServeInv)
<1>1. Init => ServeInv
  BY DEF Init, ServeInv, NoWorkerLost, ServesAsDesired, ForkDesired, PolicyAwaits, NoOp
<1> QED
  BY <1>1, Typing, ServeStep, PTL DEF Spec

\* this.workers never loses a process: between the checks of start() and the
\* fork no other worker comes into the map.
THEOREM WorkerKept == Spec => []NoWorkerLost
<1>1. ServeInv => NoWorkerLost
  BY DEF ServeInv
<1> QED
  BY <1>1, Serving, PTL

\* A worker, and a retry that stopWorker can disarm, exist only for a desired session,
\* and never while applyPolicy runs.
THEOREM ServedAsDesired == Spec => []ServesAsDesired
<1>1. ServeInv => ServesAsDesired
  BY DEF ServeInv
<1> QED
  BY <1>1, Serving, PTL
-----------------------------------------------------------------------------
\* A failure that will still write the status, and a command that will.
Failing(f) == fails[f].await = "halt" /\ fails[f].code # "none"
Ending == op.name \in Commands \ {"start"} /\ op.await \in {"halt", "login", "logout"}

\* Whoever takes a worker that a status reports goes on to write the status.
NoGhost ==
  phase = "up" /\ status \in {"starting", "running"} /\ worker = "none" =>
    op.await = "fork" \/ Ending \/ \E f \in Slots : Failing(f)
\* Whoever writes a transient failure, or takes its retry, goes on to arm one or to
\* start the session.
Covered ==
  phase = "up" /\ desired /\ worker = "none" /\ error = "transient" =>
    \/ timer \/ failures > MaxRetries \/ op.await \in {"enter", "prepare", "fork"}
    \/ \E f \in Slots :
         Failing(f) \/ (fails[f].await = "save" /\ fails[f].code = "transient")
\* The failure that holds exclusive() is the one its operation waits for.
Held ==
  \A f \in Slots : fails[f].holds =>
    op.await = "fail" /\ \A g \in Slots : fails[g].holds => g = f
RecoverInv == NoGhost /\ Covered /\ Held

\* A failure with a code will write the status.
LEMMA FailWrites ==
  ASSUME TypeOK, phase = "up", NEW code \in Codes, NEW holds, NEW dying,
         Fail(code, holds, dying)
  PROVE  \E f \in Slots : Failing(f)'
<1>1. PICK f \in Slots :
        fails' = [fails EXCEPT ![f] = [await |-> "halt", code |-> code,
                                       dying |-> dying, holds |-> holds]]
  BY DEF Fail
<1>2. fails'[f] = [await |-> "halt", code |-> code, dying |-> dying, holds |-> holds]
  BY <1>1 DEF TypeOK
<1> QED
  BY <1>2 DEF Failing, Codes

\* Only a failure of the operation that holds exclusive() makes it wait, and only that
\* failure ends the wait.
LEMMA HeldStep ==
  ASSUME TypeOK, Held, [Next]_vars
  PROVE  Held'
<1> USE DEF Held, sessionVars, workerVars, retryVars
<1>1. ASSUME UNCHANGED fails, op.await # "fail" \/ UNCHANGED op PROVE Held'
  BY <1>1
<1>2. ASSUME NEW code \in Codes \cup {"none"}, NEW dying, NEW holds \in BOOLEAN,
             Fail(code, holds, dying),
             UNCHANGED op \/ op.await # "fail", holds => op'.await = "fail" /\ op.await # "fail"
      PROVE  Held'
  <2>1. CASE phase # "up"
    BY <1>1, <1>2, <2>1 DEF Fail
  <2>2. CASE phase = "up"
    <3>1. PICK f \in Slots :
            /\ fails[f] = NoFail
            /\ fails' = [fails EXCEPT ![f] = [await |-> "halt", code |-> code,
                                             dying |-> dying, holds |-> holds]]
      BY <1>2, <2>2 DEF Fail
    <3>2. fails'[f].holds = holds /\ \A g \in Slots \ {f} : fails'[g] = fails[g]
      BY <3>1 DEF TypeOK
    <3> QED
      BY <1>2, <3>1, <3>2
  <2> QED
    BY <2>1, <2>2
<1>3. ASSUME NEW code \in Codes, Throw(code), op.await # "fail" PROVE Held'
  <2> DEFINE holds == phase = "up" /\ op.name \in Commands \cup {"check"}
  <2>1. holds => op'.await = "fail"
    BY <1>3 DEF Throw, Await, TypeOK
  <2>2. Fail(code, holds, worker # "none") /\ holds \in BOOLEAN
    BY <1>3 DEF Throw
  <2> HIDE DEF holds
  <2> QED
    BY <1>2, <1>3, <2>1, <2>2
<1>4. CASE OpStep
  <2>1. CASE EnterStart
    BY <1>1, <1>3, <2>1 DEF EnterStart, Codes
  <2>2. CASE PrepareFails
    BY <1>3, <2>2 DEF PrepareFails, Errors, Codes
  <2>3. CASE LogoutFails
    BY <1>3, <2>3 DEF LogoutFails, Errors, Codes
  <2>4. CASE LoginFails
    BY <1>3, <2>4 DEF LoginFails, Errors, Codes
  <2>5. CASE ApplyFails
    BY <1>3, <2>5 DEF ApplyFails, Codes
  <2>6. CASE AuthCheckFails
    BY <1>3, <2>6 DEF AuthCheckFails, Errors, Codes
  <2>7. CASE Prepared \/ Fork \/ Halted \/ LoggedOut
    BY <1>1, <2>7 DEF Prepared, Fork, Halted, LoggedOut
  <2>8. CASE LoggedIn \/ Applied \/ Saved \/ CliDone
    BY <1>1, <2>8 DEF LoggedIn, Applied, Saved, CliDone
  <2> QED
    BY <1>4, <2>1, <2>2, <2>3, <2>4, <2>5, <2>6, <2>7, <2>8 DEF OpStep
<1>5. ASSUME NEW f \in Slots, FailHalted(f) PROVE Held'
  <2>1. fails' = [fails EXCEPT ![f].await = "save"] /\ op' = op
    BY <1>5 DEF FailHalted
  <2>2. \A g \in Slots : fails'[g].holds = fails[g].holds
    BY <2>1 DEF TypeOK
  <2> QED
    BY <2>1, <2>2
<1>6. ASSUME NEW f \in Slots, FailSaved(f) PROVE Held'
  <2>1. /\ fails' = [fails EXCEPT ![f] = NoFail]
        /\ op' = op \/ (fails[f].holds /\ op' = NoOp)
    BY <1>6 DEF FailSaved, Release
  <2>2. ~fails'[f].holds /\ \A g \in Slots \ {f} : fails'[g] = fails[g]
    BY <2>1 DEF TypeOK, NoFail
  <2> QED
    BY <2>1, <2>2
<1>7. ASSUME NEW stale \in BOOLEAN, RetryFires(stale) PROVE Held'
  <2>1. CASE Begin("retry", "enter", FALSE) /\ UNCHANGED fails
    BY <1>1, <2>1 DEF Begin, NoOp
  <2>2. CASE Fail("busy", FALSE, worker # "none") /\ UNCHANGED op
    BY <1>2, <2>2 DEF Codes
  <2> QED
    BY <1>1, <1>7, <2>1, <2>2 DEF RetryFires
<1>8. ASSUME NEW name \in Commands, Command(name) PROVE Held'
  BY <1>1, <1>8 DEF Command, Begin, NoOp
<1>9. CASE Configure \/ AuthCheck \/ Policy
  BY <1>1, <1>9 DEF Configure, AuthCheck, Policy, Begin, NoOp
<1>10. CASE Close \/ CloseStep \/ CredentialsSent
  BY <1>1, <1>10 DEF Close, CloseStep, CloseWorkers, CloseEnd, CredentialsSent
<1>11. CASE WorkerStep
  BY <1>1, <1>2, <1>11 DEF WorkerStep, WorkerReports, WorkerExits, AskCredentials, Codes
<1>12. CASE CredentialsFail
  BY <1>1, <1>2, <1>12 DEF CredentialsFail, Errors, Codes
<1>13. CASE ServiceExits
  BY <1>2, <1>13 DEF ServiceExits
<1>14. CASE UNCHANGED vars
  BY <1>1, <1>14 DEF vars
<1> QED
  BY <1>4, <1>5, <1>6, <1>7, <1>8, <1>9, <1>10, <1>11, <1>12, <1>13, <1>14
  DEF Next, FailStep

\* Every step leaves somebody in charge of the status and of the retry.
LEMMA RecoverStep ==
  ASSUME TypeOK, ServesAsDesired, NoGhost, Covered, Held, [Next]_vars
  PROVE  NoGhost' /\ Covered'
<1> DEFINE Recovers == NoGhost /\ Covered
<1> USE DEF NoGhost, Covered, Failing, Ending, NoOp, sessionVars, workerVars,
            retryVars
<1>0. op \in OpType
  BY DEF TypeOK, OpType
<1>32. ASSUME NEW code \in Codes, NEW holds, NEW dying, Fail(code, holds, dying),
              UNCHANGED phase
       PROVE  Recovers'
  BY <1>32, FailWrites
<1>33. ASSUME NEW code \in Codes, Throw(code), UNCHANGED phase PROVE Recovers'
  BY <1>32, <1>33 DEF Throw
<1>1. CASE EnterStart
  <2>1. CASE identity /\ worker = "none"
    BY <1>1, <1>0, <2>1 DEF EnterStart, Await, OpType, Commands
  <2>2. CASE ~(identity /\ worker = "none")
    BY <1>1, <1>33, <2>2 DEF EnterStart, Codes
  <2> QED
    BY <2>1, <2>2
<1>2. CASE Prepared
  BY <1>2, <1>0 DEF Prepared, Await, OpType
<1>3. CASE PrepareFails
  BY <1>3, <1>33 DEF PrepareFails, Errors, Codes
<1>4. CASE Fork
  BY <1>4 DEF Fork
<1>5. CASE Halted
  BY <1>5, <1>0 DEF Halted, Await, OpType
<1>6. CASE LoggedOut
  BY <1>6, <1>0 DEF LoggedOut, Await, OpType
<1>7. CASE LogoutFails
  BY <1>7, <1>33 DEF LogoutFails, Errors, Codes
<1>8. CASE LoggedIn
  BY <1>8 DEF LoggedIn
<1>9. CASE LoginFails
  BY <1>9, <1>33 DEF LoginFails, Errors, Codes
<1>10. CASE Applied
  BY <1>10, <1>0 DEF Applied, Await, Release, OpType
<1>11. CASE ApplyFails
  BY <1>11, <1>33 DEF ApplyFails, Codes
<1>12. CASE Saved
  BY <1>12, <1>0 DEF Saved, Release
<1>13. CASE CliDone
  BY <1>13, <1>0 DEF CliDone, Release
<1>14. CASE AuthCheckFails
  BY <1>14, <1>33 DEF AuthCheckFails, Errors, Codes
<1>15. ASSUME NEW f \in Slots, FailHalted(f) PROVE Recovers'
  <2>1. /\ fails[f].await = "halt" /\ fails' = [fails EXCEPT ![f].await = "save"]
        /\ UNCHANGED <<desired, worker, timer, failures, op, phase>>
    BY <1>15 DEF FailHalted
  <2>2. /\ fails'[f].await = "save" /\ fails'[f].code = fails[f].code
        /\ \A g \in Slots \ {f} : fails'[g] = fails[g]
    BY <2>1 DEF TypeOK
  <2>3. CASE fails[f].code = "none"
    BY <1>15, <2>1, <2>2, <2>3 DEF FailHalted
  <2>4. CASE fails[f].code # "none"
    BY <1>15, <2>1, <2>2, <2>4 DEF FailHalted
  <2> QED
    BY <2>3, <2>4
<1>16. ASSUME NEW f \in Slots, FailSaved(f) PROVE Recovers'
  <2>1. /\ fails[f].await = "save" /\ fails' = [fails EXCEPT ![f] = NoFail]
        /\ UNCHANGED <<sessionVars, worker, phase>>
        /\ op' = op \/ (op.await = "fail" /\ op' = NoOp)
    BY <1>16 DEF FailSaved, Release, Held
  <2>2. \A g \in Slots \ {f} : fails'[g] = fails[g]
    BY <2>1 DEF TypeOK
  <2>3. NoGhost'
    BY <2>1, <2>2
  <2>4. /\ failures \in Nat /\ failures' \in Nat /\ MaxRetries \in Nat
        /\ failures' >= failures
        /\ desired /\ fails[f].code = "transient" => timer' \/ failures' > MaxRetries
        /\ timer => timer'
    <3>1. failures \in Nat /\ MaxRetries \in Nat /\ failures <= MaxRetries + 1
      BY ConstantsAssumption DEF ConstantsAssumption, TypeOK
    <3>2. /\ failures' \in {failures, failures + 1}
          /\ desired /\ fails[f].code = "transient" /\ failures <= MaxRetries =>
               failures' = failures + 1
      BY <1>16 DEF FailSaved
    <3>3. /\ timer => timer'
          /\ desired /\ fails[f].code = "transient" /\ failures < MaxRetries => timer'
      BY <1>16, Zenon DEF FailSaved
    <3> QED
      BY <3>1, <3>2, <3>3
  <2>5. Covered'
    BY <2>1, <2>2, <2>4
  <2> QED
    BY <2>3, <2>5
<1>17. ASSUME NEW stale \in BOOLEAN, RetryFires(stale) PROVE Recovers'
  <2>1. CASE Begin("retry", "enter", FALSE) /\ UNCHANGED <<workerVars, fails>>
    BY <1>17, <2>1 DEF RetryFires, Begin
  <2>2. CASE Fail("busy", FALSE, worker # "none")
    BY <1>17, <1>32, <2>2 DEF RetryFires, Codes
  <2>3. CASE phase # "up"
    BY <1>17, <2>3 DEF RetryFires
  <2> QED
    BY <1>17, <2>1, <2>2, <2>3 DEF RetryFires
<1>18. ASSUME NEW name \in Commands, Command(name) PROVE Recovers'
  <2>1. CASE name = "start"
    BY <1>18, <2>1 DEF Command, Begin
  <2>2. CASE name # "start"
    BY <1>18, <2>2 DEF Command, Begin
  <2> QED
    BY <2>1, <2>2
<1>19. ASSUME NEW report \in {"starting", "ready"}, WorkerReports(report) PROVE Recovers'
  BY <1>19 DEF WorkerReports
<1>20. CASE Configure
  BY <1>20 DEF Configure, Begin
<1>21. CASE AuthCheck
  BY <1>21 DEF AuthCheck, Begin
<1>22. CASE Policy
  BY <1>22 DEF Policy, Begin
<1>23. CASE AskCredentials
  BY <1>23 DEF AskCredentials
<1>24. CASE CredentialsSent
  BY <1>24 DEF CredentialsSent
<1>25. CASE Close
  BY <1>25 DEF Close
<1>26. CASE CloseWorkers
  BY <1>26 DEF CloseWorkers
<1>27. CASE CloseEnd
  BY <1>27 DEF CloseEnd
<1>28. CASE WorkerExits
  BY <1>28, <1>32 DEF WorkerExits, ServesAsDesired, Codes
<1>29. CASE CredentialsFail
  BY <1>29, <1>32 DEF CredentialsFail, Errors, Codes
<1>30. CASE ServiceExits
  BY <1>30 DEF ServiceExits
<1>31. CASE UNCHANGED vars
  BY <1>31 DEF vars
<1> QED
  BY <1>1, <1>2, <1>3, <1>4, <1>5, <1>6, <1>7, <1>8, <1>9, <1>10, <1>11,
     <1>12, <1>13, <1>14, <1>15, <1>16, <1>17, <1>18, <1>19, <1>20, <1>21,
     <1>22, <1>23, <1>24, <1>25, <1>26, <1>27, <1>28, <1>29, <1>30, <1>31
     DEF Next, OpStep, FailStep, WorkerStep, CloseStep

\* Between a loss and the settled state somebody is always in charge: of the status, of
\* the retry, and of exclusive().
THEOREM Recovering == Spec => []RecoverInv
<1>1. Init => RecoverInv
  BY DEF Init, RecoverInv, NoGhost, Covered, Held, NoFail
<1>2. TypeOK /\ ServeInv /\ RecoverInv /\ [Next]_vars => RecoverInv'
  BY HeldStep, RecoverStep DEF ServeInv, RecoverInv
<1> QED
  BY <1>1, <1>2, Serving, PTL DEF Spec

\* Once nothing is in progress, a status that reports a relay connection has its
\* worker, for any number of failures that overlapped.
THEOREM NoGhosts == Spec => []NoGhostStatus
<1>1. RecoverInv => NoGhostStatus
  BY DEF RecoverInv, NoGhost, NoGhostStatus, Settled, NoOp, NoFail, Ending, Failing
<1> QED
  BY <1>1, Recovering, PTL

\* Once nothing is in progress, a session lost to a transient failure has a retry
\* armed or has used them up.
THEOREM RetriesCover == Spec => []RetryCovered
<1>1. RecoverInv => RetryCovered
  BY DEF RecoverInv, Covered, RetryCovered, Settled, NoOp, NoFail, Failing
<1> QED
  BY <1>1, Recovering, PTL
-----------------------------------------------------------------------------
\* What an operation's throw does to the session: the failure it starts is its own,
\* and it changes neither the queue of saves nor the handles of the timers.
LEMMA FailTakesSlot ==
  ASSUME TypeOK, NEW code, NEW holds, NEW dying, Fail(code, holds, dying)
  PROVE  \/ /\ phase # "up" /\ UNCHANGED <<worker, asked, timer, fails>>
         \/ /\ phase = "up" /\ worker' = "none" /\ timer' = FALSE
            /\ \E f \in Slots :
                 /\ fails[f] = NoFail
                 /\ fails'[f] = [await |-> "halt", code |-> code, dying |-> dying,
                                 holds |-> holds]
                 /\ \A g \in Slots \ {f} : fails'[g] = fails[g]
<1>1. CASE phase # "up"
  BY <1>1 DEF Fail, workerVars
<1>2. CASE phase = "up"
  <2>1. PICK f \in Slots :
          /\ fails[f] = NoFail
          /\ fails' = [fails EXCEPT ![f] = [await |-> "halt", code |-> code,
                                            dying |-> dying, holds |-> holds]]
    BY <1>2 DEF Fail
  <2>2. /\ fails'[f] = [await |-> "halt", code |-> code, dying |-> dying, holds |-> holds]
        /\ \A g \in Slots \ {f} : fails'[g] = fails[g]
    BY <2>1 DEF TypeOK
  <2> QED
    BY <1>2, <2>1, <2>2 DEF Fail, TakeWorker
<1> QED
  BY <1>1, <1>2
-----------------------------------------------------------------------------
\* What is behind the two ways a session comes back that README excludes.

\* A retry starts a session that is not desired only as a timer whose handle a second
\* failure overwrote.
RetryCause == [][op.name # "retry" /\ op'.name = "retry" => desired \/ orphan]_vars

\* An operation keeps its name until it is over.
LEMMA NameKept ==
  ASSUME TypeOK, OpStep \/ FailStep
  PROVE  op'.name \in {op.name, "none"}
<1>0. op \in OpType
  BY DEF TypeOK, OpType
<1>1. ASSUME NEW a, Await(a) PROVE op'.name = op.name
  BY <1>0, <1>1 DEF Await, OpType
<1>2. Release => op'.name = "none"
  BY DEF Release, NoOp
<1>3. ASSUME NEW code, Throw(code) PROVE op'.name \in {op.name, "none"}
  BY <1>1, <1>2, <1>3 DEF Throw
<1>4. CASE EnterStart \/ PrepareFails \/ LogoutFails \/ LoginFails \/ ApplyFails \/ AuthCheckFails
  BY <1>1, <1>3, <1>4
     DEF EnterStart, PrepareFails, LogoutFails, LoginFails, ApplyFails, AuthCheckFails
<1>5. CASE Prepared \/ Fork \/ Halted \/ LoggedOut
  BY <1>1, <1>2, <1>5 DEF Prepared, Fork, Halted, LoggedOut
<1>6. CASE LoggedIn \/ Applied \/ Saved \/ CliDone
  BY <1>1, <1>2, <1>6 DEF LoggedIn, Applied, Saved, CliDone
<1>7. CASE FailStep
  BY <1>2, <1>7 DEF FailStep, FailHalted, FailSaved
<1> QED
  BY <1>4, <1>5, <1>6, <1>7 DEF OpStep

\* The armed timer belongs to a desired session, so only an overwritten one is left to
\* start a session after stop (retry of fail, stopWorker's clearTimeout).
THEOREM RetriesOverwritten == Spec => RetryCause
<1>1. TypeOK /\ ServesAsDesired /\ [Next]_vars =>
        [op.name # "retry" /\ op'.name = "retry" => desired \/ orphan]_vars
  <2> SUFFICES ASSUME TypeOK, ServesAsDesired, Next,
                      op.name # "retry", op'.name = "retry"
               PROVE  desired \/ orphan
    OBVIOUS
  <2>1. ASSUME NEW stale \in BOOLEAN, RetryFires(stale) PROVE desired \/ orphan
    BY <2>1 DEF RetryFires, ServesAsDesired
  <2>2. ~(OpStep \/ FailStep)
    BY NameKept
  <2>3. ASSUME NEW name \in Commands PROVE ~Command(name)
    BY <2>3 DEF Command, Begin, Commands
  <2>4. ~Configure /\ ~AuthCheck /\ ~Policy
    BY DEF Configure, AuthCheck, Policy, Begin
  <2>5. ~Close /\ ~ServiceExits /\ ~WorkerStep /\ ~CloseStep /\ ~CredentialsSent
    BY DEF Close, ServiceExits, WorkerStep, WorkerReports, WorkerExits, AskCredentials,
           CloseStep, CloseWorkers, CloseEnd, CredentialsSent
  <2>6. ~CredentialsFail
    BY DEF CredentialsFail
  <2> QED
    BY <2>1, <2>2, <2>3, <2>4, <2>5, <2>6 DEF Next
<1> QED
  BY <1>1, ServedAsDesired, Typing, PTL DEF Spec, RetryCause

\* No two failures of the session are in progress at a time.
Alone == \A f, g \in Slots : fails[f] # NoFail /\ fails[g] # NoFail => f = g
\* No handle was overwritten, and whoever fails holds no armed retry.
OneTimer == orphan = FALSE /\ \A f \in Slots : fails[f] # NoFail => timer = FALSE

\* Only a failure arms a timer, and it finds one armed only if another failure got
\* between its stopWorker and its save.
LEMMA OneTimerStep == TypeOK /\ OneTimer /\ Alone /\ Alone' /\ [Next]_vars => OneTimer'
<1> SUFFICES ASSUME TypeOK, OneTimer, Alone, Alone', [Next]_vars PROVE OneTimer'
  OBVIOUS
<1> USE DEF OneTimer, sessionVars, workerVars, retryVars
<1>1. ASSUME UNCHANGED <<orphan, fails>>, timer' \in {timer, FALSE} PROVE OneTimer'
  BY <1>1
<1>2. ASSUME NEW code, NEW holds, NEW dying, Fail(code, holds, dying), orphan' = FALSE
      PROVE  OneTimer'
  BY <1>2, FailTakesSlot DEF TypeOK
<1>3. ASSUME NEW code, Throw(code), UNCHANGED orphan PROVE OneTimer'
  BY <1>2, <1>3 DEF Throw
<1>4. CASE EnterStart
  BY <1>1, <1>3, <1>4 DEF EnterStart
<1>5. CASE PrepareFails \/ LogoutFails \/ LoginFails \/ ApplyFails \/ AuthCheckFails
  BY <1>3, <1>5 DEF PrepareFails, LogoutFails, LoginFails, ApplyFails, AuthCheckFails
<1>6. CASE Prepared \/ Fork \/ Halted \/ LoggedOut
  BY <1>1, <1>6 DEF Prepared, Fork, Halted, LoggedOut
<1>7. CASE LoggedIn \/ Applied \/ Saved \/ CliDone
  BY <1>1, <1>7 DEF LoggedIn, Applied, Saved, CliDone
<1>8. ASSUME NEW f \in Slots, FailHalted(f) PROVE OneTimer'
  <2>1. fails' = [fails EXCEPT ![f].await = "save"] /\ UNCHANGED <<timer, orphan>>
        /\ fails[f].await = "halt"
    BY <1>8 DEF FailHalted
  <2>2. fails[f] # NoFail /\ \A g \in Slots \ {f} : fails'[g] = fails[g]
    BY <2>1 DEF TypeOK, NoFail
  <2> QED
    BY <2>1, <2>2
<1>9. ASSUME NEW f \in Slots, FailSaved(f) PROVE OneTimer'
  <2>1. fails' = [fails EXCEPT ![f] = NoFail] /\ fails[f].await = "save"
    BY <1>9 DEF FailSaved
  <2>2. fails[f] # NoFail
    BY <2>1 DEF NoFail
  <2>3. \A g \in Slots : fails'[g] = NoFail
    BY <2>1, <2>2 DEF Alone, TypeOK
  <2>4. orphan' = FALSE
    BY <1>9, <2>2, Zenon DEF FailSaved
  <2> QED
    BY <2>3, <2>4
<1>10. ASSUME NEW stale \in BOOLEAN, RetryFires(stale) PROVE OneTimer'
  <2>1. orphan' = FALSE
    BY <1>10, Zenon DEF RetryFires
  <2>2. ASSUME timer' = (timer /\ stale), UNCHANGED fails PROVE OneTimer'
    <3>1. timer = FALSE => timer' = FALSE
      BY <2>2, Zenon
    <3> QED
      BY <2>1, <2>2, <3>1
  <2> QED
    BY <1>2, <1>10, <2>1, <2>2 DEF RetryFires
<1>11. ASSUME NEW name \in Commands, Command(name) PROVE OneTimer'
  BY <1>1, <1>11 DEF Command, TakeWorker
<1>12. CASE Configure \/ AuthCheck \/ Policy \/ Close \/ CloseStep \/ CredentialsSent
  BY <1>1, <1>12 DEF Configure, AuthCheck, Policy, Close, CloseStep, CloseWorkers, CloseEnd,
                    CredentialsSent
<1>13. CASE WorkerStep
  BY <1>1, <1>2, <1>13 DEF WorkerStep, WorkerReports, WorkerExits, AskCredentials
<1>14. CASE CredentialsFail
  BY <1>1, <1>2, <1>14 DEF CredentialsFail
<1>15. CASE ServiceExits
  BY <1>2, <1>15 DEF ServiceExits
<1>16. CASE UNCHANGED vars
  BY <1>1, <1>16 DEF vars
<1> QED
  BY <1>4, <1>5, <1>6, <1>7, <1>8, <1>9, <1>10, <1>11, <1>12, <1>13, <1>14, <1>15, <1>16
  DEF Next, OpStep, FailStep

\* As long as no two failures of a session overlap no timer is lost, and stop does
\* disable the restart, as README says of it.
THEOREM StopHoldsAlone == Spec /\ []Alone => []~orphan /\ StopDisablesRestart
<1>1. Init => OneTimer
  BY DEF Init, OneTimer
<1>2. OneTimer => ~orphan
  BY DEF OneTimer
<1>3. ~orphan /\ [op.name # "retry" /\ op'.name = "retry" => desired \/ orphan]_vars =>
        [op.name # "retry" /\ op'.name = "retry" => desired]_vars
  OBVIOUS
<1> QED
  BY <1>1, <1>2, <1>3, Typing, OneTimerStep, RetriesOverwritten, PTL
  DEF Spec, RetryCause, StopDisablesRestart
-----------------------------------------------------------------------------
\* What takes a removed session's status away: a retry that starts it, or a failure
\* that took its worker before the removal and writes "error" after it.
RemovedCause ==
  [][status = "removed" /\ status' # "removed" =>
       op.name = "retry" \/ \E f \in Slots : Failing(f)]_vars

\* What an operation awaits tells which operation it is.
OpPath ==
  /\ op.await \in {"enter", "prepare", "fork"} =>
       op.name \in {"connect", "reconnect", "start", "resume", "retry"}
  /\ op.await = "halt" => op.name \in Commands \ {"start"}
  /\ op.await = "login" => op.name \in {"login", "connect", "reconnect"}
  /\ op.await = "logout" => op.name \in {"reconnect", "logout", "remove"}
  /\ op.await = "apply" => op.name \in {"login", "connect", "reconnect", "logout", "remove"}
  /\ op.await = "save" => op.name \in {"stop", "configure"}
  /\ op.await = "cli" => op.name \in {"check", "configure", "policy"}
  /\ op.await = "fail" => op.name \in Commands \cup {"check"}
  /\ op.await = "none" => op.name = "none"

LEMMA PathStep == TypeOK /\ OpPath /\ [Next]_vars => OpPath'
<1> SUFFICES ASSUME TypeOK, OpPath, [Next]_vars PROVE OpPath'
  OBVIOUS
<1> USE DEF OpPath, sessionVars
<1>0. op \in OpType
  BY DEF TypeOK, OpType
<1>1. ASSUME NEW a, Await(a) PROVE op'.name = op.name /\ op'.await = a
  BY <1>0, <1>1 DEF Await, OpType
<1>2. op' = op \/ op' = NoOp => OpPath'
  BY DEF NoOp
<1>3. ASSUME NEW code, Throw(code) PROVE OpPath'
  <2>1. CASE phase = "up" /\ op.name \in Commands \cup {"check"}
    BY <1>1, <1>3, <2>1 DEF Throw
  <2>2. CASE ~(phase = "up" /\ op.name \in Commands \cup {"check"})
    BY <1>2, <1>3, <2>2 DEF Throw, Release
  <2> QED
    BY <2>1, <2>2
<1>4. CASE PrepareFails \/ LogoutFails \/ LoginFails \/ ApplyFails \/ AuthCheckFails
  BY <1>3, <1>4 DEF PrepareFails, LogoutFails, LoginFails, ApplyFails, AuthCheckFails
<1>5. CASE EnterStart
  <2>1. CASE identity /\ worker = "none"
    BY <1>1, <1>5, <2>1 DEF EnterStart
  <2>2. CASE ~(identity /\ worker = "none")
    BY <1>3, <1>5, <2>2 DEF EnterStart
  <2> QED
    BY <2>1, <2>2
<1>6. CASE Prepared \/ LoggedIn
  BY <1>1, <1>6 DEF Prepared, LoggedIn
<1>7. CASE Halted
  <2>1. CASE op.name = "stop"
    BY <1>1, <1>7, <2>1 DEF Halted
  <2>2. CASE op.name \in {"login", "connect"}
    BY <1>1, <1>7, <2>2 DEF Halted
  <2>3. CASE op.name \notin {"login", "connect", "stop"}
    BY <1>1, <1>7, <2>3 DEF Halted, Commands
  <2> QED
    BY <2>1, <2>2, <2>3
<1>8. CASE LoggedOut
  BY <1>1, <1>8 DEF LoggedOut
<1>9. CASE Applied
  <2>1. CASE op.name \in {"connect", "reconnect"}
    BY <1>1, <1>9, <2>1 DEF Applied
  <2>2. CASE op.name \notin {"connect", "reconnect"}
    BY <1>2, <1>9, <2>2 DEF Applied, Release
  <2> QED
    BY <2>1, <2>2
<1>10. CASE Fork \/ Saved \/ CliDone
  BY <1>2, <1>10 DEF Fork, Saved, CliDone, Release
<1>11. CASE FailStep
  BY <1>2, <1>11 DEF FailStep, FailHalted, FailSaved, Release
<1>12. ASSUME NEW stale \in BOOLEAN, RetryFires(stale) PROVE OpPath'
  <2>1. CASE Begin("retry", "enter", FALSE)
    BY <2>1 DEF Begin
  <2>2. CASE op' = op
    BY <1>2, <2>2
  <2> QED
    BY <1>12, <2>1, <2>2 DEF RetryFires
<1>13. ASSUME NEW name \in Commands, Command(name) PROVE OpPath'
  BY <1>13 DEF Command, Begin
<1>14. CASE Configure \/ AuthCheck \/ Policy
  BY <1>14 DEF Configure, AuthCheck, Policy, Begin
<1>15. CASE Close \/ CloseStep \/ CredentialsSent \/ CredentialsFail
  BY <1>2, <1>15 DEF Close, CloseStep, CloseWorkers, CloseEnd, CredentialsSent, CredentialsFail
<1>16. CASE WorkerStep \/ ServiceExits
  BY <1>2, <1>16 DEF WorkerStep, WorkerReports, WorkerExits, AskCredentials, ServiceExits
<1>17. CASE UNCHANGED vars
  BY <1>2, <1>17 DEF vars
<1> QED
  BY <1>4, <1>5, <1>6, <1>7, <1>8, <1>9, <1>10, <1>11, <1>12, <1>13, <1>14, <1>15, <1>16,
     <1>17 DEF Next, OpStep

\* remove finds the session not desired and without a worker, and nothing brings one
\* back while it holds exclusive().
RemoveDrops ==
  op.name = "remove" /\ op.await \in {"halt", "logout"} => worker = "none" /\ ~desired
\* Once removed, only a retry opens the runtime again or starts anything.
Removed ==
  status = "removed" =>
    /\ worker = "none" /\ ~desired /\ op.name \in {"none", "remove", "retry", "policy"}
    /\ op.name = "remove" => op.await \in {"apply", "fail"}
    /\ runtime = "open" /\ phase = "up" =>
         op.name = "retry" \/ \E f \in Slots : Failing(f)
RemoveInv == RemoveDrops /\ Removed

LEMMA RemoveStep ==
  TypeOK /\ ServeInv /\ OpPath /\ Held /\ RemoveInv /\ [Next]_vars => RemoveInv'
<1> SUFFICES ASSUME TypeOK, ServeInv, OpPath, Held, RemoveInv, [Next]_vars PROVE RemoveInv'
  OBVIOUS
<1> USE DEF RemoveInv, RemoveDrops, Removed, sessionVars, workerVars, retryVars
<1>0. op \in OpType /\ NoOp.name = "none" /\ NoOp.await = "none"
  BY DEF TypeOK, OpType, NoOp
\* A failure with a code is in the way of the removal from its first step.
<1>32. ASSUME NEW code \in Codes, NEW holds, NEW dying, Fail(code, holds, dying)
       PROVE  /\ worker' \in {worker, "none"}
              /\ phase = "up" => \E f \in Slots : Failing(f)'
  BY <1>32, FailDrops, FailWrites
<1>33. ASSUME NEW code \in Codes, Throw(code), UNCHANGED <<desired, status, phase>>,
              runtime' = "open" => phase = "up" \/ runtime = "open"
       PROVE  RemoveInv'
  <2>1. op' = NoOp \/ (op'.name = op.name /\ op'.await = "fail")
    BY <1>0, <1>33 DEF Throw, Await, Release, OpType
  <2>2. worker' \in {worker, "none"} /\ (phase = "up" => \E f \in Slots : Failing(f)')
    BY <1>32, <1>33 DEF Throw
  <2> QED
    BY <1>0, <1>33, <2>1, <2>2 DEF Failing
<1>1. CASE EnterStart
  <2>1. CASE identity /\ worker = "none"
    <3>1. op'.name = op.name /\ op'.await = "prepare" /\ op.await = "enter"
      BY <1>0, <1>1, <2>1 DEF EnterStart, Await, OpType
    <3> QED
      BY <1>1, <2>1, <3>1 DEF EnterStart, Open, OpPath
  <2>2. CASE ~(identity /\ worker = "none")
    BY <1>1, <1>33, <2>2 DEF EnterStart, Codes
  <2> QED
    BY <2>1, <2>2
<1>2. CASE Prepared
  BY <1>0, <1>2 DEF Prepared, Await, OpType
<1>3. CASE PrepareFails
  BY <1>3, <1>33 DEF PrepareFails, Errors, Codes
<1>4. CASE Fork
  BY <1>0, <1>4 DEF Fork, Release, ServeInv, ForkDesired
<1>5. CASE Halted
  <2>1. /\ op'.name = op.name /\ op'.await \in {"save", "login", "logout"}
        /\ op.name \in Commands \ {"start"} /\ op.await = "halt"
    BY <1>0, <1>5 DEF Halted, Await, OpType, OpPath
  <2>2. UNCHANGED <<desired, worker, fails, phase>> /\ status # "removed"
    BY <1>5, <2>1 DEF Halted, Commands
  <2>3. status' # "removed"
    BY <1>5, <2>2 DEF Halted
  <2> QED
    BY <2>1, <2>2, <2>3
<1>6. CASE LoggedOut
  BY <1>0, <1>6 DEF LoggedOut, Await, OpType
<1>7. CASE LogoutFails
  BY <1>7, <1>33 DEF LogoutFails, Errors, Codes
<1>8. CASE LoggedIn
  BY <1>0, <1>8 DEF LoggedIn, Await, OpType
<1>9. CASE LoginFails
  BY <1>9, <1>33 DEF LoginFails, Errors, Codes
<1>10. CASE Applied
  BY <1>0, <1>10 DEF Applied, Await, Release, OpType, OpPath, Failing
<1>11. CASE ApplyFails
  BY <1>11, <1>33 DEF ApplyFails, Codes
<1>12. CASE Saved
  BY <1>0, <1>12 DEF Saved, Release, OpPath, Failing
<1>13. CASE CliDone
  BY <1>0, <1>13 DEF CliDone, Release, OpPath, Failing
<1>14. CASE AuthCheckFails
  BY <1>14, <1>33 DEF AuthCheckFails, Errors, Codes
<1>15. ASSUME NEW f \in Slots, FailHalted(f) PROVE RemoveInv'
  <2>1. /\ fails' = [fails EXCEPT ![f].await = "save"] /\ fails[f].await = "halt"
        /\ UNCHANGED <<desired, worker, runtime, op, phase>>
    BY <1>15 DEF FailHalted
  <2>2. CASE fails[f].code = "none"
    <3>1. \A g \in Slots : Failing(g) => Failing(g)'
      BY <2>1, <2>2 DEF TypeOK, Failing
    <3> QED
      BY <1>15, <2>1, <2>2, <3>1 DEF FailHalted
  <2>3. CASE fails[f].code # "none"
    BY <1>15, <2>1, <2>3 DEF FailHalted
  <2> QED
    BY <2>2, <2>3
<1>16. ASSUME NEW f \in Slots, FailSaved(f) PROVE RemoveInv'
  <2>1. /\ fails' = [fails EXCEPT ![f] = NoFail] /\ fails[f].await = "save"
        /\ UNCHANGED <<desired, status, worker, runtime, phase>> /\ op' \in {op, NoOp}
        /\ fails[f].holds \/ op' = op
    BY <1>16 DEF FailSaved, Release
  <2>2. \A g \in Slots : Failing(g) => Failing(g)'
    BY <2>1 DEF TypeOK, Failing
  <2>3. op' = op \/ (op' = NoOp /\ op.await = "fail")
    BY <2>1 DEF Held
  <2> QED
    BY <1>0, <2>1, <2>2, <2>3 DEF OpPath, Commands
<1>17. ASSUME NEW stale \in BOOLEAN, RetryFires(stale) PROVE RemoveInv'
  <2>1. CASE Begin("retry", "enter", FALSE) /\ UNCHANGED <<workerVars, fails>>
    BY <1>17, <2>1 DEF RetryFires, Begin
  <2>2. CASE Fail("busy", FALSE, worker # "none") /\ UNCHANGED op
    BY <1>17, <1>32, <2>2 DEF RetryFires, Codes
  <2>3. CASE phase # "up" /\ UNCHANGED <<workerVars, fails, op>>
    BY <1>17, <2>3 DEF RetryFires
  <2> QED
    BY <1>17, <2>1, <2>2, <2>3 DEF RetryFires
<1>18. ASSUME NEW name \in Commands, Command(name) PROVE RemoveInv'
  BY <1>18 DEF Command, Begin, TakeWorker
<1>19. ASSUME NEW report \in {"starting", "ready"}, WorkerReports(report) PROVE RemoveInv'
  BY <1>19 DEF WorkerReports
<1>20. CASE Configure
  BY <1>20 DEF Configure, Begin
<1>21. CASE AuthCheck
  BY <1>21 DEF AuthCheck, Begin
<1>22. CASE Policy
  BY <1>22 DEF Policy, Begin
<1>23. CASE AskCredentials
  BY <1>23 DEF AskCredentials, Failing
<1>24. CASE CredentialsSent
  BY <1>24 DEF CredentialsSent, Failing
<1>25. CASE Close
  BY <1>25 DEF Close
<1>26. CASE CloseWorkers
  BY <1>26 DEF CloseWorkers
<1>27. CASE CloseEnd
  BY <1>27 DEF CloseEnd
<1>28. CASE WorkerExits
  BY <1>28, <1>32 DEF WorkerExits, Codes
<1>29. CASE CredentialsFail
  BY <1>29, <1>32 DEF CredentialsFail, Errors, Codes
<1>30. CASE ServiceExits
  <2>1. worker' \in {worker, "none"}
    BY <1>30, FailDrops DEF ServiceExits
  <2> QED
    BY <1>30, <2>1 DEF ServiceExits
<1>31. CASE UNCHANGED vars
  BY <1>31 DEF vars, Failing
<1> QED
  BY <1>1, <1>2, <1>3, <1>4, <1>5, <1>6, <1>7, <1>8, <1>9, <1>10, <1>11,
     <1>12, <1>13, <1>14, <1>15, <1>16, <1>17, <1>18, <1>19, <1>20, <1>21,
     <1>22, <1>23, <1>24, <1>25, <1>26, <1>27, <1>28, <1>29, <1>30, <1>31
     DEF Next, OpStep, FailStep, WorkerStep, CloseStep

\* README "remove logs out and tombstones the session" fails only for a retry, which by
\* RetriesOverwritten is one whose handle was lost, or a failure that was already taking
\* the worker down.
THEOREM RemovedReturns == Spec => RemovedCause
<1>1. Init => OpPath /\ RemoveInv
  BY DEF Init, OpPath, RemoveInv, RemoveDrops, Removed, NoOp
<1>2. TypeOK /\ OpPath /\ RemoveInv /\ [Next]_vars =>
        [status = "removed" /\ status' # "removed" =>
           op.name = "retry" \/ \E f \in Slots : Failing(f)]_vars
  <2> SUFFICES ASSUME TypeOK, OpPath, RemoveInv, Next, status = "removed",
                      status' # "removed", op.name # "retry"
               PROVE  \E f \in Slots : Failing(f)
    OBVIOUS
  <2> USE DEF RemoveInv, Removed, OpPath, sessionVars
  <2>1. ASSUME NEW f \in Slots, FailHalted(f) PROVE Failing(f)
    BY <2>1 DEF FailHalted, Failing
  <2>2. ASSUME NEW f \in Slots PROVE ~FailSaved(f)
    BY <2>2 DEF FailSaved
  <2>3. CASE ServiceExits
    BY <2>3 DEF ServiceExits
  <2>4. ~Prepared /\ ~Halted /\ ~LoggedOut /\ ~LoggedIn
    BY DEF Prepared, Halted, LoggedOut, LoggedIn
  <2>5. ~EnterStart /\ ~PrepareFails /\ ~LogoutFails /\ ~LoginFails /\ ~ApplyFails
        /\ ~AuthCheckFails /\ ~Fork /\ ~Applied /\ ~Saved /\ ~CliDone
    BY DEF EnterStart, PrepareFails, LogoutFails, LoginFails, ApplyFails, AuthCheckFails,
           Fork, Applied, Saved, CliDone
  <2>6. ~Configure /\ ~AuthCheck /\ ~Policy /\ ~Close /\ ~CloseStep /\ ~WorkerStep
    BY DEF Configure, AuthCheck, Policy, Close, CloseStep, CloseWorkers, CloseEnd,
           WorkerStep, WorkerReports, WorkerExits, AskCredentials
  <2>7. ~CredentialsSent /\ ~CredentialsFail
    BY DEF CredentialsSent, CredentialsFail
  <2>8. \A name \in Commands : ~Command(name)
    BY DEF Command
  <2>9. \A stale \in BOOLEAN : ~RetryFires(stale)
    BY DEF RetryFires
  <2> QED
    BY <2>1, <2>2, <2>3, <2>4, <2>5, <2>6, <2>7, <2>8, <2>9 DEF Next, OpStep, FailStep
<1>3. RecoverInv => Held
  BY DEF RecoverInv
<1> QED
  BY <1>1, <1>2, <1>3, Serving, Recovering, PathStep, RemoveStep, PTL DEF Spec, RemovedCause
-----------------------------------------------------------------------------
\* Nobody waits for something that no one will do.

\* Task t has a save that the store has still to write.
Queued(t) == \E i \in 1 .. Len(saves) : saves[i] = t
\* Nobody saves again before the store has written what it saved.
OnceQueued == \A i, j \in 1 .. Len(saves) : saves[i] = saves[j] => i = j
\* A failure or an operation awaits the store exactly when it has a save in the queue.
AwaitsQueue ==
  /\ \A f \in Slots : fails[f].await = "save" <=> Queued(f)
  /\ op.await \in {"save", "fork"} <=> Queued("op")
\* An operation that waits for its failure has one, which will release exclusive().
AwaitsFailure ==
  op.await = "fail" => \E f \in Slots : fails[f].holds /\ fails[f].await \in {"halt", "save"}
NoVainWait == OnceQueued /\ AwaitsQueue /\ AwaitsFailure

\* A save joins the queue at its end.
LEMMA QueueAppend ==
  ASSUME TypeOK, OnceQueued, NEW t, ~Queued(t), saves' = Append(saves, t), t \in Slots \cup {"op"}
  PROVE  OnceQueued' /\ \A u : Queued(u)' <=> Queued(u) \/ u = t
<1>1. saves \in Seq(Slots \cup {"op"})
  BY DEF TypeOK
<1>2. /\ Len(saves') = Len(saves) + 1 /\ saves'[Len(saves) + 1] = t /\ Len(saves) \in Nat
      /\ \A i \in 1 .. Len(saves) : saves'[i] = saves[i]
  BY <1>1
<1>3. OnceQueued'
  BY <1>2 DEF OnceQueued, Queued
<1>4. ASSUME NEW u PROVE Queued(u)' <=> Queued(u) \/ u = t
  BY <1>2 DEF Queued
<1> QED
  BY <1>3, <1>4

\* The store writes the first of the queue.
LEMMA QueueTail ==
  ASSUME TypeOK, OnceQueued, NEW t, Written(t)
  PROVE  OnceQueued' /\ \A u : Queued(u)' <=> Queued(u) /\ u # t
<1>1. saves \in Seq(Slots \cup {"op"}) /\ saves # <<>> /\ Head(saves) = t /\ saves' = Tail(saves)
  BY DEF TypeOK, Written
<1>2. /\ Len(saves) \in Nat /\ Len(saves) > 0 /\ saves[1] = t
      /\ Len(saves') = Len(saves) - 1
      /\ \A i \in 1 .. Len(saves) - 1 : saves'[i] = saves[i + 1]
  BY <1>1
<1>3. OnceQueued'
  BY <1>2 DEF OnceQueued
<1>4. ASSUME NEW u PROVE Queued(u)' <=> Queued(u) /\ u # t
  <2>1. ASSUME Queued(u)' PROVE Queued(u) /\ u # t
    <3>1. PICK i \in 1 .. Len(saves) - 1 : saves'[i] = u
      BY <1>2, <2>1 DEF Queued
    <3>2. saves[i + 1] = u /\ i + 1 \in 1 .. Len(saves) /\ i + 1 # 1 /\ 1 \in 1 .. Len(saves)
      BY <1>2, <3>1
    <3>3. u # t
      BY <1>2, <3>2 DEF OnceQueued
    <3> QED
      BY <3>2, <3>3 DEF Queued
  <2>2. ASSUME Queued(u), u # t PROVE Queued(u)'
    <3>1. PICK i \in 1 .. Len(saves) : saves[i] = u
      BY <2>2 DEF Queued
    <3>2. i # 1 /\ i - 1 \in 1 .. Len(saves) - 1 /\ (i - 1) + 1 = i
      BY <1>2, <2>2, <3>1
    <3>3. saves'[i - 1] = u
      BY <1>2, <3>1, <3>2
    <3> QED
      BY <1>2, <3>2, <3>3 DEF Queued
  <2> QED
    BY <2>1, <2>2
<1> QED
  BY <1>3, <1>4

LEMMA WaitStep == TypeOK /\ Held /\ NoVainWait /\ [Next]_vars => NoVainWait'
<1> SUFFICES ASSUME TypeOK, Held, NoVainWait, [Next]_vars PROVE NoVainWait'
  OBVIOUS
<1> USE DEF NoVainWait, AwaitsQueue, AwaitsFailure, sessionVars
<1>0. op \in OpType /\ NoOp.await = "none" /\ NoFail.await = "none" /\ "op" \notin Slots
  BY ConstantsAssumption DEF ConstantsAssumption, TypeOK, OpType, NoOp, NoFail
<1>1. UNCHANGED saves => OnceQueued' /\ \A u : Queued(u)' <=> Queued(u)
  BY DEF OnceQueued, Queued
<1>2. ASSUME UNCHANGED <<fails, saves>>, op'.await \notin {"save", "fork", "fail"},
             op.await \notin {"save", "fork"}
      PROVE  NoVainWait'
  BY <1>1, <1>2
<1>3. ASSUME UNCHANGED <<fails, saves, op>> PROVE NoVainWait'
  BY <1>1, <1>3
<1>4. ASSUME NEW a, Await(a) PROVE op'.await = a
  BY <1>0, <1>4 DEF Await, OpType
\* A new failure takes a slot that is awaited by nobody.
<1>5. ASSUME NEW code, NEW holds, NEW dying, Fail(code, holds, dying), UNCHANGED saves
      PROVE  /\ \A f \in Slots : fails'[f].await = "save" <=> Queued(f)'
             /\ AwaitsFailure /\ op' = op => AwaitsFailure'
             /\ holds /\ phase = "up" => \E f \in Slots : fails'[f].holds /\ fails'[f].await = "halt"
  <2>1. CASE phase # "up"
    BY <1>1, <1>5, <2>1 DEF Fail
  <2>2. CASE phase = "up"
    <3>1. PICK f \in Slots :
            /\ fails[f] = NoFail
            /\ fails'[f] = [await |-> "halt", code |-> code, dying |-> dying, holds |-> holds]
            /\ \A g \in Slots \ {f} : fails'[g] = fails[g]
      <4>1. \/ phase # "up" /\ UNCHANGED <<worker, asked, timer, fails>>
            \/ /\ phase = "up" /\ worker' = "none" /\ timer' = FALSE
               /\ \E f \in Slots :
                    /\ fails[f] = NoFail
                    /\ fails'[f] = [await |-> "halt", code |-> code, dying |-> dying,
                                    holds |-> holds]
                    /\ \A g \in Slots \ {f} : fails'[g] = fails[g]
        BY <1>5, FailTakesSlot DEF TypeOK
      <4> QED
        BY <2>2, <4>1
    <3>2. fails'[f].await = "halt" /\ fails'[f].holds = holds /\ fails[f].await = "none"
      BY <1>0, <3>1
    <3>3. \A g \in Slots : fails'[g].await = "save" <=> Queued(g)'
      BY <1>1, <1>5, <3>1, <3>2
    <3>4. AwaitsFailure /\ op' = op => AwaitsFailure'
      BY <3>1, <3>2
    <3> QED
      BY <3>2, <3>3, <3>4
  <2> QED
    BY <2>1, <2>2
<1>6. ASSUME NEW code, Throw(code), UNCHANGED saves, op.await \notin {"save", "fork"}
      PROVE  NoVainWait'
  <2> DEFINE holds == phase = "up" /\ op.name \in Commands \cup {"check"}
  <2>1. Fail(code, holds, worker # "none")
    BY <1>6 DEF Throw
  <2>2. (op'.await = "fail" /\ holds) \/ op'.await = "none"
    BY <1>0, <1>4, <1>6 DEF Throw, Release
  <2>3. holds => phase = "up"
    OBVIOUS
  <2> HIDE DEF holds
  <2>4. \A f \in Slots : fails'[f].await = "save" <=> Queued(f)'
    BY <1>5, <1>6, <2>1
  <2>5. AwaitsFailure'
    BY <1>5, <1>6, <2>1, <2>2, <2>3
  <2> QED
    BY <1>1, <1>6, <2>2, <2>4, <2>5
\* The operation saves, or moves on once its save is written.
<1>7. ASSUME Save, op.await \notin {"save", "fork"}, op'.await \in {"save", "fork"}, UNCHANGED fails
      PROVE  NoVainWait'
  <2>1. OnceQueued' /\ \A u : Queued(u)' <=> Queued(u) \/ u = "op"
    BY <1>7, QueueAppend DEF Save
  <2> QED
    BY <1>0, <1>7, <2>1
<1>8. ASSUME Written("op"), op'.await = "none", UNCHANGED fails PROVE NoVainWait'
  <2>1. OnceQueued' /\ \A u : Queued(u)' <=> Queued(u) /\ u # "op"
    BY <1>8, QueueTail
  <2> QED
    BY <1>0, <1>8, <2>1
<1>9. CASE EnterStart
  <2>1. CASE identity /\ worker = "none"
    BY <1>2, <1>4, <1>9, <2>1 DEF EnterStart
  <2>2. CASE ~(identity /\ worker = "none")
    BY <1>6, <1>9, <2>2 DEF EnterStart
  <2> QED
    BY <2>1, <2>2
<1>10. CASE PrepareFails \/ LogoutFails \/ LoginFails \/ ApplyFails \/ AuthCheckFails
  BY <1>6, <1>10 DEF PrepareFails, LogoutFails, LoginFails, ApplyFails, AuthCheckFails
<1>11. CASE Prepared
  BY <1>4, <1>7, <1>11 DEF Prepared
<1>12. CASE Fork \/ Saved
  BY <1>0, <1>8, <1>12 DEF Fork, Saved, Release
<1>13. CASE Halted
  <2>1. CASE op.name = "stop"
    BY <1>4, <1>7, <1>13, <2>1 DEF Halted
  <2>2. CASE op.name # "stop"
    BY <1>2, <1>4, <1>13, <2>2 DEF Halted
  <2> QED
    BY <2>1, <2>2
<1>14. CASE LoggedOut \/ LoggedIn
  BY <1>2, <1>4, <1>14 DEF LoggedOut, LoggedIn
<1>15. CASE Applied \/ CliDone
  BY <1>0, <1>2, <1>4, <1>15 DEF Applied, CliDone, Release
<1>16. ASSUME NEW f \in Slots, FailHalted(f) PROVE NoVainWait'
  <2>1. /\ fails[f].await = "halt" /\ fails' = [fails EXCEPT ![f].await = "save"]
        /\ saves' = Append(saves, f) /\ op' = op
    BY <1>16 DEF FailHalted
  <2>2. /\ fails'[f].await = "save" /\ fails'[f].holds = fails[f].holds
        /\ \A g \in Slots \ {f} : fails'[g] = fails[g]
    BY <2>1 DEF TypeOK
  <2>3. OnceQueued' /\ \A u : Queued(u)' <=> Queued(u) \/ u = f
    BY <2>1, QueueAppend
  <2> QED
    BY <1>0, <2>1, <2>2, <2>3
<1>17. ASSUME NEW f \in Slots, FailSaved(f) PROVE NoVainWait'
  <2>1. /\ fails' = [fails EXCEPT ![f] = NoFail] /\ Written(f)
        /\ IF fails[f].holds THEN op' = NoOp ELSE op' = op
    BY <1>17 DEF FailSaved, Release
  <2>2. fails'[f] = NoFail /\ \A g \in Slots \ {f} : fails'[g] = fails[g]
    BY <2>1 DEF TypeOK
  <2>3. OnceQueued' /\ \A u : Queued(u)' <=> Queued(u) /\ u # f
    BY <2>1, QueueTail
  <2>4. \A g \in Slots : fails'[g].await = "save" <=> Queued(g)'
    BY <1>0, <2>2, <2>3
  <2>5. op'.await \in {"save", "fork"} <=> Queued("op")'
    <3>1. CASE fails[f].holds
      BY <1>0, <2>1, <2>3, <3>1 DEF Held
    <3>2. CASE ~fails[f].holds
      BY <1>0, <2>1, <2>3, <3>2
    <3> QED
      BY <3>1, <3>2
  <2>6. AwaitsFailure'
    BY <1>0, <2>1, <2>2
  <2> QED
    BY <2>3, <2>4, <2>5, <2>6
<1>18. ASSUME NEW stale \in BOOLEAN, RetryFires(stale) PROVE NoVainWait'
  <2>1. CASE Begin("retry", "enter", FALSE) /\ UNCHANGED fails
    BY <1>0, <1>2, <1>18, <2>1 DEF RetryFires, Begin
  <2>2. CASE Fail("busy", FALSE, worker # "none") /\ UNCHANGED op
    BY <1>1, <1>5, <1>18, <2>2 DEF RetryFires
  <2>3. CASE UNCHANGED <<fails, op>>
    BY <1>3, <1>18, <2>3 DEF RetryFires
  <2> QED
    BY <1>18, <2>1, <2>2, <2>3 DEF RetryFires
<1>19. ASSUME NEW name \in Commands, Command(name) PROVE NoVainWait'
  BY <1>0, <1>2, <1>19 DEF Command, Begin
<1>20. CASE Configure
  <2>1. CASE Begin("configure", "cli", FALSE) /\ UNCHANGED saves
    BY <1>0, <1>2, <1>20, <2>1 DEF Configure, Begin
  <2>2. CASE Begin("configure", "save", FALSE) /\ Save
    BY <1>0, <1>7, <1>20, <2>2 DEF Configure, Begin
  <2> QED
    BY <1>20, <2>1, <2>2 DEF Configure
<1>21. CASE AuthCheck \/ Policy
  BY <1>0, <1>2, <1>21 DEF AuthCheck, Policy, Begin
<1>22. CASE Close \/ CloseStep \/ CredentialsSent
  BY <1>3, <1>22 DEF Close, CloseStep, CloseWorkers, CloseEnd, CredentialsSent
<1>23. ASSUME NEW code, NEW dying, Fail(code, FALSE, dying), UNCHANGED <<op, saves>> PROVE NoVainWait'
  BY <1>1, <1>5, <1>23
<1>24. CASE WorkerStep
  BY <1>3, <1>23, <1>24 DEF WorkerStep, WorkerReports, WorkerExits, AskCredentials
<1>25. CASE CredentialsFail \/ ServiceExits
  BY <1>3, <1>23, <1>25 DEF CredentialsFail, ServiceExits
<1>26. CASE UNCHANGED vars
  BY <1>3, <1>26 DEF vars
<1> QED
  BY <1>9, <1>10, <1>11, <1>12, <1>13, <1>14, <1>15, <1>16, <1>17, <1>18, <1>19, <1>20,
     <1>21, <1>22, <1>24, <1>25, <1>26 DEF Next, OpStep, FailStep

\* The safety half of EverythingEnds, for any number of failures: every wait for the
\* store has its save in the queue, once, and every wait for a failure has the failure
\* that ends it (FileStore.save's chain, exclusive's finally).
THEOREM NobodyWaitsInVain == Spec => []NoVainWait
<1>1. Init => NoVainWait
  <2> SUFFICES ASSUME Init PROVE NoVainWait
    OBVIOUS
  <2>1. Len(saves) = 0 /\ \A f \in Slots : fails[f].await = "none"
    BY DEF Init, NoFail
  <2>2. op.await \notin {"save", "fork", "fail"}
    BY DEF Init, NoOp
  <2> QED
    BY <2>1, <2>2 DEF NoVainWait, OnceQueued, AwaitsQueue, AwaitsFailure, Queued
<1>2. RecoverInv => Held
  BY DEF RecoverInv
<1> QED
  BY <1>1, <1>2, Typing, Recovering, WaitStep, PTL DEF Spec
=============================================================================
