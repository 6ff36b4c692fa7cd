-------------------------- MODULE LeadershipProofs --------------------------
(***************************************************************************)
(* The advisory lock excludes managers and keeps the cached revision       *)
(* current, for any number of replicas and deployments, any crashes and    *)
(* any lost connections.                                                   *)
(***************************************************************************)
EXTENDS Leadership, TLAPS

\* Every step keeps every variable's type.
LEMMA TypeStep == TypeOK /\ [Next]_vars => TypeOK'
<1> SUFFICES ASSUME TypeOK, [Next]_vars PROVE TypeOK'
  OBVIOUS
<1> USE ConstantsAssumption DEF TypeOK, Statuses, PCs, Locked, Managing, Waiting, Sql, Goto, Beat,
        hubVars, rowVars, connVars, flagVars, envVars
<1>1. ASSUME NEW p \in Proc,
             Start(p) \/ Step(p) \/ AwaitTimeout(p) \/ Write(p) \/ Monitor(p) \/ Fault(p)
      PROVE  TypeOK'
  <2>1. CASE Start(p)
    BY <2>1 DEF Start
  <2>2. CASE PrepareSchema(p)
    BY <2>2 DEF PrepareSchema
  <2>3. CASE RegisterDeployment(p)
    <3>1. blocked' \in [Proc -> BOOLEAN]
      <4>1. PICK v \in BOOLEAN : blocked' = [blocked EXCEPT ![p] = v]
        BY <2>3, Zenon DEF RegisterDeployment
      <4> QED
        BY <4>1
    <3>2. /\ issued' \in Nat /\ gen' \in [Dep -> Nat] /\ status' \in [Dep -> Statuses]
          /\ fresh' \in [Dep -> BOOLEAN]
      <4>1. CASE gen[DepOf[p]] = 0
        <5>1. issued' = issued + 1 /\ gen' = [gen EXCEPT ![DepOf[p]] = issued + 1]
          BY <2>3, <4>1 DEF RegisterDeployment
        <5>2. /\ status' = [status EXCEPT ![DepOf[p]] = "standby"]
              /\ fresh' = [fresh EXCEPT ![DepOf[p]] = TRUE]
          BY <2>3, <4>1 DEF RegisterDeployment
        <5> QED
          BY <5>1, <5>2
      <4>2. CASE gen[DepOf[p]] # 0
        BY <2>3, <4>2 DEF RegisterDeployment
      <4> QED
        BY <4>1, <4>2
    <3>3. pc' \in [Proc -> PCs]
      BY <2>3 DEF RegisterDeployment
    <3> QED
      BY <2>3, <3>1, <3>2, <3>3 DEF RegisterDeployment
  <2>4. CASE TryLock(p)
    BY <2>4 DEF TryLock, Acquire
  <2>5. CASE LockHeld(p)
    BY <2>5 DEF LockHeld
  <2>6. CASE ProposeLeadership(p)
    <3>1. PICK v \in BOOLEAN : manages' = [manages EXCEPT ![p] = v]
      BY <2>6, Zenon DEF ProposeLeadership, MayReplace
    <3> QED
      BY <2>6, <3>1 DEF ProposeLeadership
  <2>7. CASE ProposedStatus(p)
    BY <2>7 DEF ProposedStatus, Proposed
  <2>8. CASE AwaitHeartbeat(p)
    BY <2>8 DEF AwaitHeartbeat
  <2>9. CASE AwaitDesired(p)
    BY <2>9 DEF AwaitDesired
  <2>10. CASE AwaitAcquire(p)
    BY <2>10 DEF AwaitAcquire, Acquire
  <2>11. CASE AwaitAgain(p)
    BY <2>11 DEF AwaitAgain
  <2>12. CASE RefreshValidatedState(p)
    BY <2>12 DEF RefreshValidatedState
  <2>13. CASE ActivateStatus(p)
    BY <2>13 DEF ActivateStatus
  <2>14. CASE ActivateDesired(p)
    BY <2>14 DEF ActivateDesired
  <2>15. CASE Opened(p)
    BY <2>15 DEF Opened
  <2>16. CASE MarkFailed(p)
    BY <2>16 DEF MarkFailed
  <2>17. CASE ManagerClose(p)
    BY <2>17 DEF ManagerClose, Accepted
  <2>18. CASE CloseStatus(p)
    BY <2>18 DEF CloseStatus
  <2>19. CASE EndConnection(p)
    BY <2>19 DEF EndConnection, Exit, Release
  <2>20. CASE Lost(p)
    BY <2>20 DEF Lost
  <2>21. CASE AwaitTimeout(p)
    BY <2>21 DEF AwaitTimeout
  <2>22. CASE Write(p)
    <3>1. CASE p \in current
      BY <2>22, <3>1 DEF Write, Accepted
    <3>2. CASE p \notin current
      BY <2>22, <3>2 DEF Write
    <3> QED
      BY <3>1, <3>2
  <2>23. CASE MonitorBeat(p)
    BY <2>23 DEF MonitorBeat
  <2>24. CASE MonitorCheck(p)
    <3>1. PICK v \in BOOLEAN : handoff' = [handoff EXCEPT ![p] = v]
      BY <2>24, Zenon DEF MonitorCheck, Takeover
    <3> QED
      BY <2>24, <3>1 DEF MonitorCheck
  <2>25. CASE MonitorDrain(p)
    BY <2>25 DEF MonitorDrain, ShutdownTo
  <2>26. CASE OpenFails(p)
    BY <2>26 DEF OpenFails
  <2>27. CASE PreflightFails(p)
    BY <2>27 DEF PreflightFails
  <2>28. CASE Terminate(p)
    BY <2>28 DEF Terminate, ShutdownTo
  <2>29. CASE Crash(p)
    BY <2>29 DEF Crash, Exit, Release
  <2>30. CASE DropConnection(p)
    BY <2>30 DEF DropConnection, Release
  <2>31. CASE QueryTimeout(p)
    BY <2>31 DEF QueryTimeout
  <2> QED
    BY <1>1, <2>1, <2>2, <2>3, <2>4, <2>5, <2>6, <2>7, <2>8, <2>9, <2>10, <2>11, <2>12, <2>13, <2>14, <2>15, <2>16, <2>17, <2>18, <2>19, <2>20, <2>21, <2>22, <2>23, <2>24, <2>25, <2>26, <2>27, <2>28, <2>29, <2>30, <2>31 DEF Step, Monitor, Fault
<1>2. ASSUME NEW d \in Dep, Expire(d) PROVE TypeOK'
  BY <1>2 DEF Expire
<1>3. CASE UNCHANGED vars
  BY <1>3 DEF vars
<1> QED
  BY <1>1, <1>2, <1>3 DEF Next

\* Types hold in every reachable state.
THEOREM Typing == Spec => []TypeOK
<1>1. Init => TypeOK
  BY ConstantsAssumption DEF Init, TypeOK, Statuses, PCs
<1> QED
  BY <1>1, TypeStep, PTL DEF Spec
-----------------------------------------------------------------------------
\* The lock belongs to a live connection that has passed tryLock and has not
\* ended; conversely a live process between tryLock and close() has it.
LockLive ==
  \A p \in Proc : lock = p => up[p] /\ pc[p] \in Locked \cup {"pgclose", "end"}
LockedHolds == \A p \in Proc : pc[p] \in Locked /\ up[p] => lock = p

\* Workers exist only from the end of Manager.open to that of Manager.close.
WorkersManaged == \A p \in Proc : workers[p] => pc[p] \in {"serving", "closing"}

LockInv == LockLive /\ LockedHolds /\ WorkersManaged /\ HolderIsCurrent

LEMMA LockInit == Init => LockInv
BY ConstantsAssumption
   DEF Init, LockInv, LockLive, LockedHolds, WorkersManaged, HolderIsCurrent, Locked,
       Managing

\* Every step keeps the lock with the one process that manages.
LEMMA LockStep == TypeOK /\ LockInv /\ [Next]_vars => LockInv'
<1> SUFFICES ASSUME TypeOK, LockInv, [Next]_vars PROVE LockInv'
  OBVIOUS
<1> USE ConstantsAssumption
    DEF TypeOK, LockInv, LockLive, LockedHolds, WorkersManaged, HolderIsCurrent,
        Locked, Managing, PCs, Waiting, Sql, Goto, Beat,
        hubVars, rowVars, connVars, flagVars, envVars
<1>1. ASSUME NEW p \in Proc,
             Start(p) \/ Step(p) \/ AwaitTimeout(p) \/ Write(p) \/ Monitor(p) \/ Fault(p)
      PROVE  LockInv'
  <2>1. CASE Start(p)
    BY <2>1 DEF Start
  <2>2. CASE PrepareSchema(p)
    BY <2>2 DEF PrepareSchema
  <2>3. CASE RegisterDeployment(p)
    BY <2>3 DEF RegisterDeployment
  <2>4. CASE TryLock(p)
    BY <2>4 DEF TryLock, Acquire
  <2>5. CASE LockHeld(p)
    BY <2>5 DEF LockHeld
  <2>6. CASE ProposeLeadership(p)
    BY <2>6 DEF ProposeLeadership
  <2>7. CASE ProposedStatus(p)
    BY <2>7 DEF ProposedStatus, Proposed
  <2>8. CASE AwaitHeartbeat(p)
    BY <2>8 DEF AwaitHeartbeat
  <2>9. CASE AwaitDesired(p)
    BY <2>9 DEF AwaitDesired
  <2>10. CASE AwaitAcquire(p)
    BY <2>10 DEF AwaitAcquire, Acquire
  <2>11. CASE AwaitAgain(p)
    BY <2>11 DEF AwaitAgain
  <2>12. CASE RefreshValidatedState(p)
    BY <2>12 DEF RefreshValidatedState
  <2>13. CASE ActivateStatus(p)
    BY <2>13 DEF ActivateStatus
  <2>14. CASE ActivateDesired(p)
    BY <2>14 DEF ActivateDesired
  <2>15. CASE Opened(p)
    BY <2>15 DEF Opened
  <2>16. CASE MarkFailed(p)
    BY <2>16 DEF MarkFailed
  <2>17. CASE ManagerClose(p)
    BY <2>17 DEF ManagerClose, Accepted
  <2>18. CASE CloseStatus(p)
    BY <2>18 DEF CloseStatus
  <2>19. CASE EndConnection(p)
    BY <2>19 DEF EndConnection, Exit, Release
  <2>20. CASE Lost(p)
    BY <2>20 DEF Lost
  <2>21. CASE AwaitTimeout(p)
    BY <2>21 DEF AwaitTimeout
  <2>22. CASE Write(p)
    BY <2>22 DEF Write, Accepted
  <2>23. CASE MonitorBeat(p)
    BY <2>23 DEF MonitorBeat
  <2>24. CASE MonitorCheck(p)
    BY <2>24 DEF MonitorCheck
  <2>25. CASE MonitorDrain(p)
    BY <2>25 DEF MonitorDrain, ShutdownTo
  <2>26. CASE OpenFails(p)
    BY <2>26 DEF OpenFails
  <2>27. CASE PreflightFails(p)
    BY <2>27 DEF PreflightFails
  <2>28. CASE Terminate(p)
    BY <2>28 DEF Terminate, ShutdownTo
  <2>29. CASE Crash(p)
    BY <2>29 DEF Crash, Exit, Release
  <2>30. CASE DropConnection(p)
    BY <2>30 DEF DropConnection, Release
  <2>31. CASE QueryTimeout(p)
    BY <2>31 DEF QueryTimeout
  <2> QED
    BY <1>1, <2>1, <2>2, <2>3, <2>4, <2>5, <2>6, <2>7, <2>8, <2>9, <2>10,
       <2>11, <2>12, <2>13, <2>14, <2>15, <2>16, <2>17, <2>18, <2>19, <2>20,
       <2>21, <2>22, <2>23, <2>24, <2>25, <2>26, <2>27, <2>28, <2>29, <2>30,
       <2>31
    DEF Step, Monitor, Fault
<1>2. ASSUME NEW d \in Dep, Expire(d) PROVE LockInv'
  BY <1>2 DEF Expire
<1>3. CASE UNCHANGED vars
  BY <1>3 DEF vars
<1> QED
  BY <1>1, <1>2, <1>3 DEF Next

THEOREM Locking == Spec => [](TypeOK /\ LockInv)
<1>1. Init => TypeOK
  BY ConstantsAssumption DEF Init, TypeOK, Statuses, PCs
<1>2. Init => TypeOK /\ LockInv
  BY <1>1, LockInit
<1>3. TypeOK /\ LockInv /\ [Next]_vars => (TypeOK /\ LockInv)'
  BY TypeStep, LockStep
<1> QED
  BY <1>2, <1>3, PTL DEF Spec

\* A manager runs session workers on a connection the server keeps only while
\* it holds the advisory lock.
THEOREM WorkersNeedLock == Spec => []WorkersUnderLock
<1>1. TypeOK /\ LockInv => WorkersUnderLock
  BY DEF TypeOK, LockInv, LockedHolds, WorkersManaged, WorkersUnderLock, Locked, Managing
<1> QED
  BY <1>1, Locking, PTL

\* The holder of the lock has the row's revision once it has re-read the state.
THEOREM HolderCurrent == Spec => []HolderIsCurrent
<1>1. TypeOK /\ LockInv => HolderIsCurrent
  BY DEF LockInv
<1> QED
  BY <1>1, Locking, PTL

\* A step that makes the revision grow is a save, and only the holder of the lock gets one
\* through.
LEMMA WriteStep ==
  TypeOK /\ LockInv /\ [Next]_vars =>
    (revision' # revision => \E p \in Proc : lock = p /\ current' = {p})
<1> SUFFICES ASSUME TypeOK, LockInv, [Next]_vars, revision' # revision
             PROVE  \E p \in Proc : lock = p /\ current' = {p}
  OBVIOUS
<1> USE DEF hubVars
<1>1. ASSUME NEW p \in Proc, Write(p) \/ ManagerClose(p)
      PROVE  \E q \in Proc : lock = q /\ current' = {q}
  <2>1. pc[p] \in Managing /\ up[p] /\ current' = {p}
    BY <1>1 DEF Write, ManagerClose, Accepted, Managing
  <2>2. lock = p
    BY <2>1 DEF LockInv, LockedHolds, Locked
  <2> QED
    BY <2>1, <2>2
<1>2. ASSUME NEW p \in Proc,
             \/ PrepareSchema(p) \/ RefreshValidatedState(p)
             \/ Start(p) \/ AwaitTimeout(p) \/ Monitor(p)
             \/ RegisterDeployment(p) \/ TryLock(p) \/ LockHeld(p)
             \/ ProposeLeadership(p) \/ ProposedStatus(p) \/ AwaitHeartbeat(p)
             \/ AwaitDesired(p) \/ AwaitAcquire(p) \/ AwaitAgain(p)
      PROVE  FALSE
  BY <1>2 DEF PrepareSchema, RefreshValidatedState, Start, AwaitTimeout, Monitor,
       MonitorBeat, MonitorCheck, MonitorDrain, RegisterDeployment, TryLock, LockHeld,
       ProposeLeadership, ProposedStatus, AwaitHeartbeat, AwaitDesired, AwaitAcquire,
       AwaitAgain, Acquire
<1>3. ASSUME NEW p \in Proc,
             \/ ActivateStatus(p) \/ ActivateDesired(p) \/ Opened(p) \/ MarkFailed(p)
             \/ CloseStatus(p) \/ EndConnection(p) \/ Lost(p) \/ OpenFails(p)
             \/ PreflightFails(p) \/ Terminate(p) \/ Crash(p) \/ DropConnection(p)
             \/ QueryTimeout(p)
      PROVE  FALSE
  BY <1>3 DEF ActivateStatus, ActivateDesired, Opened, MarkFailed, CloseStatus,
       EndConnection, Lost, OpenFails, PreflightFails, Terminate, Crash, Exit,
       DropConnection, QueryTimeout
<1>4. ASSUME NEW d \in Dep, Expire(d) PROVE FALSE
  BY <1>4 DEF Expire
<1>5. ASSUME UNCHANGED vars PROVE FALSE
  BY <1>5 DEF vars
<1> QED
  BY <1>1, <1>2, <1>3, <1>4, <1>5 DEF Next, Step, Fault

\* For any number of replicas, crashes and lost connections, whoever writes the state row
\* holds the lock (write, Manager.close).
THEOREM HolderWrites == Spec => OnlyHolderWrites
<1>1. TypeOK /\ LockInv /\ [Next]_vars =>
        [revision' # revision => \E p \in Proc : lock = p /\ current' = {p}]_vars
  BY WriteStep
<1> QED
  BY <1>1, Locking, PTL DEF Spec, OnlyHolderWrites
-----------------------------------------------------------------------------
(* What the rows of the deployments say.                                     *)

\* The statements a coordinated process runs once it is registered.
Registered == Waiting \cup Locked \cup {"lock", "propose", "proposed"}

\* Generations are identity values: a row keeps its own, no two rows share one, and what
\* leadership.desired_generation holds is the generation of a row.
GenInv ==
  /\ \A d \in Dep : gen[d] <= issued
  /\ \A d, e \in Dep : gen[d] = gen[e] /\ gen[d] # 0 => d = e
  /\ desired # 0 => \E d \in Dep : gen[d] = desired
  /\ \A p \in Coordinated : pc[p] \in Registered => gen[DepOf[p]] # 0

LEMMA GenStep ==
  TypeOK /\ GenInv /\ [Next]_vars =>
    GenInv' /\ \A d \in Dep : gen[d] # 0 => gen'[d] = gen[d]
<1> SUFFICES ASSUME TypeOK, GenInv, [Next]_vars
             PROVE  GenInv' /\ \A d \in Dep : gen[d] # 0 => gen'[d] = gen[d]
  OBVIOUS
<1> USE ConstantsAssumption DEF ConstantsAssumption, hubVars, rowVars, connVars, flagVars, envVars
<1> DEFINE Keeps == \A d \in Dep : gen[d] # 0 => gen'[d] = gen[d]
<1>1. ASSUME UNCHANGED <<issued, gen, desired>>,
             \A p \in Coordinated : pc'[p] \in Registered /\ pc[p] \notin Registered =>
                                      gen[DepOf[p]] # 0
      PROVE  GenInv' /\ Keeps
  BY <1>1 DEF GenInv
<1>2. ASSUME NEW p \in Proc, NEW l, Goto(p, l), UNCHANGED <<issued, gen, desired>>,
             l \notin Registered \/ pc[p] \in Registered \/ p \notin Coordinated
      PROVE  GenInv' /\ Keeps
  <2>1. \A q \in Proc : pc'[q] = IF q = p THEN l ELSE pc[q]
    BY <1>2 DEF Goto, TypeOK
  <2>2. \A q \in Coordinated : pc'[q] \in Registered /\ pc[q] \notin Registered =>
                                 gen[DepOf[q]] # 0
    BY <1>2, <2>1
  <2> QED
    BY <1>1, <1>2, <2>2
<1> USE DEF Registered, Waiting, Locked, Managing
<1>3. ASSUME NEW p \in Proc, Start(p) \/ PrepareSchema(p) \/ LockHeld(p) \/ TryLock(p)
      PROVE  GenInv' /\ Keeps
  BY <1>2, <1>3 DEF Start, PrepareSchema, LockHeld, TryLock, Acquire, Sql
<1>4. ASSUME NEW p \in Proc, RegisterDeployment(p)
      PROVE  GenInv' /\ Keeps
  <2> DEFINE d == DepOf[p]
  <2>1. d \in Dep /\ issued \in Nat /\ gen \in [Dep -> Nat] /\ pc \in [Proc -> PCs]
        /\ \E l : pc' = [pc EXCEPT ![p] = l]
    BY <1>4 DEF TypeOK, RegisterDeployment, Goto
  <2>2. \A q \in Proc \ {p} : pc'[q] = pc[q]
    BY <2>1
  <2>3. CASE gen[d] = 0
    <3>1. /\ gen' = [gen EXCEPT ![d] = issued + 1] /\ issued' = issued + 1
          /\ desired' = desired
      BY <1>4, <2>3 DEF RegisterDeployment
    <3>2. gen'[d] = issued + 1 /\ \A e \in Dep \ {d} : gen'[e] = gen[e] /\ gen[e] <= issued
      BY <2>1, <3>1 DEF GenInv
    <3>3. /\ \A e \in Dep : gen'[e] <= issued'
          /\ \A e, f \in Dep : gen'[e] = gen'[f] /\ gen'[e] # 0 => e = f
      BY <2>1, <3>1, <3>2 DEF GenInv
    <3>4. desired' # 0 => \E e \in Dep : gen'[e] = desired'
      BY <2>1, <2>3, <3>1, <3>2 DEF GenInv
    <3>5. \A q \in Coordinated : pc'[q] \in Registered => gen'[DepOf[q]] # 0
      BY <2>1, <2>2, <3>1, <3>2 DEF GenInv
    <3> QED
      BY <2>3, <3>2, <3>3, <3>4, <3>5 DEF GenInv
  <2>4. CASE gen[d] # 0
    <3>1. UNCHANGED <<issued, gen, desired>>
      BY <1>4, <2>4 DEF RegisterDeployment
    <3> QED
      BY <1>1, <2>2, <2>4, <3>1
  <2> QED
    BY <2>3, <2>4
<1>5. ASSUME NEW p \in Proc, ProposeLeadership(p) \/ ActivateDesired(p)
      PROVE  GenInv' /\ Keeps
  <2>1. /\ desired' \in {desired, gen[DepOf[p]]} /\ UNCHANGED <<issued, gen>>
        /\ pc[p] \in Registered /\ \E l : Goto(p, l)
    BY <1>5 DEF ProposeLeadership, ActivateDesired, Sql
  <2>2. DepOf[p] \in Dep
    OBVIOUS
  <2>3. desired' # 0 => \E d \in Dep : gen'[d] = desired'
    BY <2>1, <2>2 DEF GenInv
  <2>4. \A q \in Proc \ {p} : pc'[q] = pc[q]
    BY <2>1 DEF Goto, TypeOK
  <2> QED
    BY <2>1, <2>3, <2>4 DEF GenInv
<1>6. ASSUME NEW p \in Proc,
             \/ ProposedStatus(p) \/ AwaitHeartbeat(p) \/ AwaitDesired(p) \/ AwaitAcquire(p)
             \/ AwaitAgain(p) \/ AwaitTimeout(p) \/ RefreshValidatedState(p)
             \/ ActivateStatus(p)
      PROVE  GenInv' /\ Keeps
  BY <1>2, <1>6 DEF ProposedStatus, AwaitHeartbeat, AwaitDesired, AwaitAcquire, Acquire,
       AwaitAgain, AwaitTimeout, RefreshValidatedState, ActivateStatus, Sql
<1>7. ASSUME NEW p \in Proc,
             \/ Opened(p) \/ MarkFailed(p) \/ ManagerClose(p) \/ CloseStatus(p) \/ Lost(p)
             \/ OpenFails(p) \/ PreflightFails(p)
      PROVE  GenInv' /\ Keeps
  BY <1>2, <1>7 DEF Opened, MarkFailed, ManagerClose, CloseStatus, Lost, OpenFails,
       PreflightFails
<1>8. ASSUME NEW p \in Proc, MonitorDrain(p) \/ Terminate(p)
      PROVE  GenInv' /\ Keeps
  <2>1. PICK l \in ShutdownTo(p) : Goto(p, l)
    BY <1>8 DEF MonitorDrain, Terminate
  <2>2. l = pc[p] \/ pc[p] \in Registered
    BY <2>1 DEF ShutdownTo
  <2> QED
    BY <1>2, <1>8, <2>1, <2>2 DEF MonitorDrain, Terminate
<1>9. ASSUME NEW p \in Proc, EndConnection(p) \/ Crash(p)
      PROVE  GenInv' /\ Keeps
  BY <1>2, <1>9 DEF EndConnection, Crash, Exit, Goto
<1>10. ASSUME NEW p \in Proc,
              \/ Write(p) \/ MonitorBeat(p) \/ MonitorCheck(p) \/ DropConnection(p)
              \/ QueryTimeout(p)
       PROVE  GenInv' /\ Keeps
  BY <1>1, <1>10 DEF Write, MonitorBeat, MonitorCheck, DropConnection, QueryTimeout
<1>11. ASSUME NEW d \in Dep, Expire(d)
       PROVE  GenInv' /\ Keeps
  BY <1>1, <1>11 DEF Expire
<1>12. CASE UNCHANGED vars
  BY <1>1, <1>12 DEF vars
<1> QED
  BY <1>3, <1>4, <1>5, <1>6, <1>7, <1>8, <1>9, <1>10, <1>11, <1>12
  DEF Next, Step, Monitor, Fault

\* Any number of deployments that register, propose and activate at once: generations stay
\* unique and are never handed out again, and the one that is desired has a row, so that the
\* monitors look for a deployment that exists (registerDeployment, proposeLeadership,
\* activateDeployment).
THEOREM GenerationsKept ==
  Spec => []GenInv /\ [][\A d \in Dep : gen[d] # 0 => gen'[d] = gen[d]]_vars
<1>1. Init => GenInv
  BY ConstantsAssumption
     DEF ConstantsAssumption, Init, GenInv, Registered, Waiting, Locked, Managing
<1>2. TypeOK /\ GenInv /\ [Next]_vars =>
        [\A d \in Dep : gen[d] # 0 => gen'[d] = gen[d]]_vars
  BY GenStep
<1>3. TypeOK /\ GenInv /\ [Next]_vars => GenInv'
  BY GenStep
<1> QED
  BY <1>1, <1>2, <1>3, Typing, PTL DEF Spec
-----------------------------------------------------------------------------
\* A process with a monitor's task in the queue, a takeover under way or a failure it has
\* marked has had the lock since, unless the server has dropped its connection.
MonitorHolds ==
  \A p \in Proc :
    /\ (handoff[p] \/ failed[p] \/ mon[p] # "idle") /\ up[p] => lock = p
    /\ pc[p] = "down" => ~handoff[p] /\ ~failed[p] /\ mon[p] = "idle"

LEMMA MonitorStep == TypeOK /\ LockInv /\ MonitorHolds /\ [Next]_vars => MonitorHolds'
<1> SUFFICES ASSUME TypeOK, LockInv, MonitorHolds, [Next]_vars PROVE MonitorHolds'
  OBVIOUS
<1> USE ConstantsAssumption
    DEF ConstantsAssumption, MonitorHolds, hubVars, rowVars, connVars, flagVars, envVars
<1>0. /\ \A p \in Proc : pc[p] \in Managing /\ up[p] => lock = p
      /\ \A p \in Proc : pc[p] \in {"schema", "register", "lock", "trylock"} /\ up[p] => lock # p
  BY DEF LockInv, LockedHolds, LockLive, Locked, Managing
<1>1. ASSUME NEW p \in Proc, NEW l, Goto(p, l), l # "down",
             UNCHANGED <<lock, up, handoff, failed, mon>>
      PROVE  MonitorHolds'
  BY <1>1 DEF Goto, TypeOK
<1>2. ASSUME UNCHANGED <<lock, up, handoff, failed, mon, pc>>
      PROVE  MonitorHolds'
  BY <1>2
<1>3. ASSUME NEW p \in Proc, Start(p)
      PROVE  MonitorHolds'
  <2>1. /\ pc[p] = "down" /\ up' = [up EXCEPT ![p] = TRUE] /\ pc' = [pc EXCEPT ![p] = "schema"]
        /\ UNCHANGED <<lock, handoff, failed, mon>>
    BY <1>3 DEF Start, Goto
  <2>2. \A q \in Proc \ {p} : up'[q] = up[q] /\ pc'[q] = pc[q]
    BY <2>1 DEF TypeOK
  <2>3. pc'[p] = "schema"
    BY <2>1 DEF TypeOK
  <2> QED
    BY <2>1, <2>2, <2>3
<1>4. ASSUME NEW p \in Proc, TryLock(p) \/ AwaitAcquire(p)
      PROVE  MonitorHolds'
  <2>1. /\ lock = NoProc /\ lock' = p /\ pc' = [pc EXCEPT ![p] = "refresh"]
        /\ UNCHANGED <<up, handoff, failed, mon>>
    BY <1>4 DEF TryLock, AwaitAcquire, Acquire, Goto
  <2>2. \A q \in Proc : pc'[q] # "down" \/ pc'[q] = pc[q]
    BY <2>1 DEF TypeOK
  <2> QED
    BY <2>1, <2>2
<1>5. ASSUME NEW p \in Proc,
             \/ PrepareSchema(p) \/ RegisterDeployment(p) \/ LockHeld(p) \/ ProposeLeadership(p)
             \/ ProposedStatus(p) \/ AwaitHeartbeat(p) \/ AwaitDesired(p) \/ AwaitAgain(p)
      PROVE  MonitorHolds'
  BY <1>1, <1>5 DEF PrepareSchema, RegisterDeployment, LockHeld, ProposeLeadership,
       ProposedStatus, AwaitHeartbeat, AwaitDesired, AwaitAgain
<1>6. ASSUME NEW p \in Proc,
             \/ AwaitTimeout(p) \/ RefreshValidatedState(p) \/ ActivateStatus(p)
             \/ ActivateDesired(p) \/ Opened(p) \/ ManagerClose(p) \/ CloseStatus(p) \/ Lost(p)
             \/ OpenFails(p) \/ PreflightFails(p)
      PROVE  MonitorHolds'
  BY <1>1, <1>6 DEF AwaitTimeout, RefreshValidatedState, ActivateStatus, ActivateDesired,
       Opened, ManagerClose, CloseStatus, Lost, OpenFails, PreflightFails
<1>7. ASSUME NEW p \in Proc, MarkFailed(p)
      PROVE  MonitorHolds'
  <2>1. /\ pc[p] = "failing" /\ pc' = [pc EXCEPT ![p] = "closing"]
        /\ UNCHANGED <<lock, up, handoff, mon>>
        /\ failed' = failed \/ failed' = [failed EXCEPT ![p] = TRUE]
    BY <1>7 DEF MarkFailed, Goto
  <2>2. up[p] => lock = p
    BY <1>0, <2>1 DEF Managing
  <2>3. \A q \in Proc \ {p} : failed'[q] = failed[q] /\ pc'[q] = pc[q]
    BY <2>1 DEF TypeOK
  <2>4. pc'[p] = "closing"
    BY <2>1 DEF TypeOK
  <2> QED
    BY <2>1, <2>2, <2>3, <2>4
<1>8. ASSUME NEW p \in Proc, MonitorBeat(p)
      PROVE  MonitorHolds'
  <2>1. /\ pc[p] \in Managing /\ up[p] /\ mon' = [mon EXCEPT ![p] = "check"]
        /\ UNCHANGED <<lock, up, handoff, failed, pc>>
    BY <1>8 DEF MonitorBeat
  <2>2. lock = p /\ pc[p] # "down" /\ \A q \in Proc \ {p} : mon'[q] = mon[q]
    BY <1>0, <2>1 DEF TypeOK, Managing
  <2> QED
    BY <2>1, <2>2
<1>9. ASSUME NEW p \in Proc, MonitorCheck(p)
      PROVE  MonitorHolds'
  <2>1. PICK l, h : mon' = [mon EXCEPT ![p] = l] /\ handoff' = [handoff EXCEPT ![p] = h]
    BY <1>9 DEF MonitorCheck
  <2>2. mon[p] = "check" /\ up[p] /\ UNCHANGED <<lock, up, failed, pc>>
    BY <1>9 DEF MonitorCheck
  <2>3. lock = p /\ pc[p] # "down"
    BY <2>2
  <2>4. \A q \in Proc \ {p} : mon'[q] = mon[q] /\ handoff'[q] = handoff[q]
    BY <2>1 DEF TypeOK
  <2> QED
    BY <2>2, <2>3, <2>4
<1>10. ASSUME NEW p \in Proc, MonitorDrain(p) \/ Terminate(p)
       PROVE  MonitorHolds'
  <2>1. PICK l \in ShutdownTo(p) : Goto(p, l)
    BY <1>10 DEF MonitorDrain, Terminate
  <2>2. pc[p] # "down" /\ UNCHANGED <<lock, up, handoff, failed>>
    BY <1>10 DEF MonitorDrain, Terminate
  <2>3. mon' = mon \/ mon' = [mon EXCEPT ![p] = "idle"]
    BY <1>10 DEF MonitorDrain, Terminate
  <2>4. \A q \in Proc : mon'[q] \in {mon[q], "idle"}
    BY <2>3 DEF TypeOK
  <2>5. l # "down" /\ \A q \in Proc : pc'[q] = IF q = p THEN l ELSE pc[q]
    BY <2>1, <2>2 DEF ShutdownTo, Goto, TypeOK
  <2> QED
    BY <2>2, <2>4, <2>5
<1>11. ASSUME NEW p \in Proc, EndConnection(p) \/ Crash(p)
       PROVE  MonitorHolds'
  <2>1. /\ pc' = [pc EXCEPT ![p] = "down"] /\ up' = [up EXCEPT ![p] = FALSE] /\ Release(p)
        /\ mon' = [mon EXCEPT ![p] = "idle"] /\ handoff' = [handoff EXCEPT ![p] = FALSE]
        /\ failed' = [failed EXCEPT ![p] = FALSE]
    BY <1>11 DEF EndConnection, Crash, Exit
  <2>2. /\ ~up'[p] /\ mon'[p] = "idle" /\ ~handoff'[p] /\ ~failed'[p]
        /\ \A q \in Proc \ {p} : /\ pc'[q] = pc[q] /\ up'[q] = up[q] /\ mon'[q] = mon[q]
                                 /\ handoff'[q] = handoff[q] /\ failed'[q] = failed[q]
    BY <2>1 DEF TypeOK
  <2>3. \A q \in Proc \ {p} : lock = q => lock' = q
    BY <2>1 DEF Release
  <2> QED
    BY <2>2, <2>3
<1>12. ASSUME NEW p \in Proc, DropConnection(p)
       PROVE  MonitorHolds'
  <2>1. /\ up' = [up EXCEPT ![p] = FALSE] /\ Release(p)
        /\ UNCHANGED <<pc, mon, handoff, failed>>
    BY <1>12 DEF DropConnection
  <2>2. ~up'[p] /\ \A q \in Proc \ {p} : up'[q] = up[q] /\ (lock = q => lock' = q)
    BY <2>1 DEF TypeOK, Release
  <2> QED
    BY <2>1, <2>2
<1>13. ASSUME NEW p \in Proc, Write(p) \/ QueryTimeout(p)
       PROVE  MonitorHolds'
  BY <1>2, <1>13 DEF Write, QueryTimeout
<1>14. ASSUME NEW d \in Dep, Expire(d)
       PROVE  MonitorHolds'
  BY <1>2, <1>14 DEF Expire
<1>15. CASE UNCHANGED vars
  BY <1>2, <1>15 DEF vars
<1> QED
  BY <1>3, <1>4, <1>5, <1>6, <1>7, <1>8, <1>9, <1>10, <1>11, <1>12, <1>13, <1>14, <1>15
  DEF Next, Step, Monitor, Fault

\* A deployment's row comes to say leader, draining or failed only by its own process
\* while that holds the lock.
HolderPublishes ==
  [][\A d \in Dep :
       status'[d] # status[d] /\ status'[d] \in {"leader", "draining", "failed"} =>
         \E p \in Proc : lock = p /\ DepOf[p] = d]_vars

LEMMA PublishStep ==
  ASSUME TypeOK, LockInv, MonitorHolds, [Next]_vars, NEW d \in Dep,
         status'[d] # status[d], status'[d] \in {"leader", "draining", "failed"}
  PROVE  \E p \in Proc : lock = p /\ DepOf[p] = d
<1> USE DEF hubVars, rowVars, connVars, flagVars, envVars, Sql
<1>0. \A p \in Proc : pc[p] \in Locked /\ up[p] => lock = p
  BY DEF LockInv, LockedHolds
<1>1. ASSUME NEW p \in Proc, NEW s, lock = p, status' = [status EXCEPT ![DepOf[p]] = s]
      PROVE  \E q \in Proc : lock = q /\ DepOf[q] = d
  BY <1>1 DEF TypeOK
<1>2. ASSUME NEW p \in Proc, ActivateStatus(p)
      PROVE  \E q \in Proc : lock = q /\ DepOf[q] = d
  BY <1>0, <1>1, <1>2 DEF ActivateStatus, Locked
<1>3. ASSUME NEW p \in Proc, MarkFailed(p)
      PROVE  \E q \in Proc : lock = q /\ DepOf[q] = d
  <2>1. /\ pc[p] = "failing" /\ up[p]
        /\ status' = [status EXCEPT ![DepOf[p]] = "failed"]
    BY <1>3 DEF MarkFailed
  <2> QED
    BY <1>0, <1>1, <2>1 DEF Locked, Managing
<1>4. ASSUME NEW p \in Proc, MonitorDrain(p)
      PROVE  \E q \in Proc : lock = q /\ DepOf[q] = d
  BY <1>1, <1>4 DEF MonitorDrain, MonitorHolds
<1>5. ASSUME NEW p \in Proc, CloseStatus(p)
      PROVE  \E q \in Proc : lock = q /\ DepOf[q] = d
  <2>1. /\ up[p]
        /\ status' = [status EXCEPT ![DepOf[p]] = IF failed[p] THEN "failed"
                                                  ELSE IF handoff[p] THEN "draining"
                                                  ELSE "standby"]
    BY <1>5 DEF CloseStatus
  <2>2. d = DepOf[p] /\ (failed[p] \/ handoff[p])
    BY <2>1 DEF TypeOK
  <2>3. lock = p
    BY <2>1, <2>2 DEF MonitorHolds
  <2> QED
    BY <2>2, <2>3
<1>6. ASSUME NEW p \in Proc, RegisterDeployment(p) \/ ProposedStatus(p)
      PROVE  FALSE
  <2>1. status' = status \/ \E s \in {"standby", "candidate"} :
                              status' = [status EXCEPT ![DepOf[p]] = s]
    BY <1>6 DEF RegisterDeployment, ProposedStatus, Proposed
  <2> QED
    BY <2>1 DEF TypeOK
<1>7. ASSUME NEW p \in Proc,
             \/ Start(p) \/ PrepareSchema(p) \/ TryLock(p) \/ LockHeld(p) \/ ProposeLeadership(p)
             \/ AwaitHeartbeat(p) \/ AwaitDesired(p) \/ AwaitAcquire(p) \/ AwaitAgain(p)
             \/ AwaitTimeout(p) \/ RefreshValidatedState(p) \/ ActivateDesired(p) \/ Opened(p)
      PROVE  FALSE
  BY <1>7 DEF Start, PrepareSchema, TryLock, LockHeld, ProposeLeadership, AwaitHeartbeat,
       AwaitDesired, AwaitAcquire, AwaitAgain, AwaitTimeout, Acquire, RefreshValidatedState,
       ActivateDesired, Opened
<1>8. ASSUME NEW p \in Proc,
             \/ ManagerClose(p) \/ EndConnection(p) \/ Lost(p) \/ Write(p) \/ MonitorBeat(p)
             \/ MonitorCheck(p) \/ OpenFails(p) \/ PreflightFails(p) \/ Terminate(p) \/ Crash(p)
             \/ DropConnection(p) \/ QueryTimeout(p)
      PROVE  FALSE
  BY <1>8 DEF ManagerClose, EndConnection, Exit, Lost, Write, MonitorBeat, MonitorCheck,
       OpenFails, PreflightFails, Terminate, Crash, DropConnection, QueryTimeout
<1>9. ASSUME NEW e \in Dep, Expire(e)
      PROVE  FALSE
  BY <1>9 DEF Expire
<1>10. ASSUME UNCHANGED vars
       PROVE  FALSE
  BY <1>10 DEF vars
<1> QED
  BY <1>2, <1>3, <1>4, <1>5, <1>6, <1>7, <1>8, <1>9, <1>10 DEF Next, Step, Monitor, Fault

\* What the other deployments read of a leader they have to wait for is written under the
\* lock, also when the process drains, fails to open or closes after a takeover
\* (activateDeployment, the monitor, markDeploymentFailed, close).
THEOREM HolderSpeaks == Spec => HolderPublishes
<1>1. Init => MonitorHolds
  BY DEF Init, MonitorHolds
<1>2. TypeOK /\ LockInv /\ MonitorHolds /\ [Next]_vars =>
        [\A d \in Dep :
           status'[d] # status[d] /\ status'[d] \in {"leader", "draining", "failed"} =>
             \E p \in Proc : lock = p /\ DepOf[p] = d]_vars
  BY PublishStep
<1> QED
  BY <1>1, <1>2, Locking, MonitorStep, PTL DEF Spec, HolderPublishes
=============================================================================
