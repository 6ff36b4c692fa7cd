--------------------------- MODULE RegistryProofs ---------------------------
(***************************************************************************)
(* The registry for any number of sessions and names, any pool, any        *)
(* policies, and any interleaving of commands, failed writes and restarts. *)
(***************************************************************************)
EXTENDS Registry, FiniteSetTheorems, TLAPS

OpType == [step : Steps, hours : Nat]

\* What Editing and Waiting leave to be shown of the types.
CoreOK == mem \in Registry /\ queue \in Seq(Snapshot) /\ op \in [Ids -> OpType]

LEMMA EditType ==
  ASSUME NEW m \in Registry, NEW i \in Ids, NEW s \in Session
  PROVE  [m EXCEPT !.session[i] = s] \in Registry
BY DEF Registry

\* A save puts the new state at the end of the chain.
LEMMA SaveType ==
  ASSUME queue \in Seq(Snapshot), mem' \in Registry,
         NEW by \in Ids \cup {"none", "policy"}, Save(by)
  PROVE  queue' \in Seq(Snapshot)
BY DEF Save, Snapshot

LEMMA HeadType ==
  ASSUME queue \in Seq(Snapshot), queue # <<>>
  PROVE  /\ Tail(queue) \in Seq(Snapshot)
         /\ Head(queue) \in Snapshot /\ Head(queue).state \in Registry
<1>1. Tail(queue) \in Seq(Snapshot) /\ Head(queue) \in Snapshot
  OBVIOUS
<1> QED
  BY <1>1 DEF Snapshot

\* The operation of a session goes on to another step, or ends.
LEMMA GoType ==
  ASSUME op \in [Ids -> OpType], NEW i \in Ids, NEW step \in Steps,
         Go(i, step) \/ op' = [op EXCEPT ![i] = NoOp]
  PROVE  op' \in [Ids -> OpType]
<1>1. NoOp \in OpType
  BY DEF NoOp, OpType, Steps
<1>2. [op[i] EXCEPT !.step = step] \in OpType
  BY DEF OpType
<1> QED
  BY <1>1, <1>2 DEF Go

\* The number of sessions that lack a SOCKS listener is a number.
LEMMA PendingFinite ==
  ASSUME NEW m
  PROVE  Cardinality(Pending(m)) \in Nat /\ Cardinality(Live(m)) \in Nat
<1>1. Pending(m) \subseteq Ids /\ Live(m) \subseteq Ids
  BY DEF Pending, Live, Known
<1>2. IsFiniteSet(Ids)
  BY ConstantsAssumption DEF ConstantsAssumption
<1> QED
  BY <1>1, <1>2, FS_Subset, FS_CardinalityType

LEMMA AddType ==
  ASSUME TypeOK, NEW i \in Ids, NEW name \in Names \cup {None},
         NEW hours \in Hours \cup {config.default}, Add(i, name, hours)
  PROVE  CoreOK'
<1> USE ConstantsAssumption DEF ConstantsAssumption
<1>1. config \in Config /\ config.default \in Nat
  BY DEF TypeOK, Config
<1>2. hours \in Nat
  BY <1>1
<1>3. mem \in Registry /\ mem.next \in Start .. End + 1
  BY DEF TypeOK, Registry
<1>4. mem.next <= End /\ (config.socks => mem.next + 1 <= End)
  BY <1>1, <1>3, PendingFinite DEF Add, Room, Config
<1>5. Added(name, hours) \in Session
  <2> DEFINE h == IF hours \in config.min .. config.max THEN hours ELSE config.default
             k == IF config.socks THEN mem.next + 1 ELSE 0
  <2>1. h \in Nat /\ mem.next \in 0 .. End /\ k \in 0 .. End
    <3>1. h \in Nat
      BY <1>1, <1>2
    <3>2. mem.next \in Nat /\ mem.next >= Start /\ mem.next <= End
      BY <1>3, <1>4
    <3>3. k \in 0 .. End
      BY <1>4, <3>2
    <3> QED
      BY <3>1, <3>2, <3>3
  <2>2. Added(name, hours) =
          [listener |-> mem.next, socks |-> k, name |-> name, user |-> None,
           hours |-> h, desired |-> FALSE, removed |-> FALSE]
    BY DEF Added
  <2> HIDE DEF h, k
  <2> QED
    BY <2>1, <2>2 DEF Session
<1>6. mem' = [mem EXCEPT !.session[i] = Added(name, hours),
                         !.next = IF config.socks THEN @ + 2 ELSE @ + 1]
  BY DEF Add
<1>7. mem' \in Registry
  <2> DEFINE n == IF config.socks THEN mem.next + 2 ELSE mem.next + 1
  <2>1. n \in Start .. End + 1
    BY <1>3, <1>4
  <2>2. mem' = [session |-> [mem.session EXCEPT ![i] = Added(name, hours)],
                next |-> n, policy |-> mem.policy]
    BY <1>3, <1>6 DEF Registry
  <2> HIDE DEF n
  <2>3. [mem.session EXCEPT ![i] = Added(name, hours)] \in [Ids -> Session]
    BY <1>3, <1>5 DEF Registry
  <2> QED
    BY <1>3, <2>1, <2>2, <2>3 DEF Registry
<1>8. \/ Save(i) /\ Go(i, "add")
      \/ UNCHANGED <<queue, op>>
  BY DEF Add
<1>9. queue' \in Seq(Snapshot)
  BY <1>7, <1>8, SaveType DEF TypeOK
<1>10. op' \in [Ids -> OpType]
  BY <1>8, GoType DEF TypeOK, OpType, Steps
<1> QED
  BY <1>7, <1>9, <1>10 DEF CoreOK

\* What an action that edits the state in memory has to show.
LEMMA EditingType ==
  ASSUME TypeOK, CoreOK', Editing, commands' \in Nat, revived' \in BOOLEAN
  PROVE  TypeOK'
BY DEF TypeOK, CoreOK, Editing, OpType

LEMMA IssueType ==
  ASSUME TypeOK, Issue \/ UNCHANGED commands
  PROVE  commands' \in Nat
BY DEF TypeOK, Issue

LEMMA WrittenType ==
  ASSUME TypeOK, NEW t, Written(t)
  PROVE  disk' \in Registry /\ queue' \in Seq(Snapshot)
BY HeadType DEF TypeOK, Written

LEMMA RejectedType ==
  ASSUME TypeOK, NEW t, Rejected(t)
  PROVE  queue' \in Seq(Snapshot)
BY HeadType DEF TypeOK, Rejected

\* What an action that only waits for a write has to show.
LEMMA WaitingType ==
  ASSUME TypeOK, Waiting, disk' \in Registry, queue' \in Seq(Snapshot),
         op' \in [Ids -> OpType], commands' \in Nat,
         relied' \subseteq Ids \X Resources
  PROVE  TypeOK'
BY DEF TypeOK, Waiting, OpType

LEMMA RelyType ==
  ASSUME TypeOK, NEW i, Rely(i)
  PROVE  relied' \subseteq Ids \X Resources
BY DEF TypeOK, Rely, Reservations

LEMMA FailType ==
  ASSUME TypeOK, NEW i \in Ids, NEW s \in Session, FailAs(i, s),
         queue' \in Seq(Snapshot) \/ Save("none")
  PROVE  CoreOK' /\ Editing /\ revived' \in BOOLEAN
<1>1. mem' \in Registry
  <2>1. [s EXCEPT !.removed = FALSE] \in Session
    BY DEF Session
  <2> QED
    BY <2>1, EditType DEF FailAs, Edit, TypeOK
<1>2. revived' \in BOOLEAN
  BY DEF FailAs, TypeOK, Session
<1>3. op' \in [Ids -> OpType]
  BY GoType DEF FailAs, TypeOK, OpType, Steps
<1>4. queue' \in Seq(Snapshot)
  BY <1>1, SaveType DEF TypeOK
<1> QED
  BY <1>1, <1>2, <1>3, <1>4 DEF CoreOK, FailAs

LEMMA SessionType ==
  ASSUME TypeOK, NEW i \in Ids
  PROVE  mem.session[i] \in Session /\ op[i] \in OpType
BY DEF TypeOK, Registry, OpType

LEMMA CommandType ==
  ASSUME TypeOK, NEW i \in Ids, Command(i)
  PROVE  TypeOK'
<1> USE SessionType
<1>1. ASSUME NEW name \in Names \cup {None},
             NEW hours \in Hours \cup {config.default}, Add(i, name, hours)
      PROVE  TypeOK'
  BY <1>1, AddType, IssueType, EditingType DEF Add, Begin, TypeOK
<1>2. ASSUME NEW hours \in Hours, NEW step \in {"update", "configure"},
             Configure(i, hours, step)
      PROVE  TypeOK'
  <2>1. hours \in Nat /\ mem.session[i].hours \in Nat
    BY ConstantsAssumption DEF ConstantsAssumption, Session
  <2>2. mem' \in Registry
    <3>1. [mem.session[i] EXCEPT !.hours = hours] \in Session
      BY <2>1 DEF Session
    <3> QED
      BY <1>2, <3>1, EditType DEF Configure, Edit, TypeOK
  <2>3. op' \in [Ids -> OpType]
    BY <1>2, <2>1 DEF Configure, OpType, Steps, TypeOK
  <2>4. queue' \in Seq(Snapshot)
    BY <1>2, <2>2, SaveType DEF Configure, TypeOK
  <2> QED
    BY <1>2, <2>2, <2>3, <2>4, IssueType, EditingType
       DEF Configure, Begin, TypeOK, CoreOK
<1>3. ASSUME NEW step \in {"stop", "login", "logout", "remove"}, Halt(i, step)
      PROVE  TypeOK'
  <2>1. mem' \in Registry
    <3>1. [mem.session[i] EXCEPT !.desired = FALSE] \in Session
      BY DEF Session
    <3> QED
      BY <1>3, <3>1, EditType DEF Halt, Edit, TypeOK
  <2>2. op' \in [Ids -> OpType]
    BY <1>3, GoType DEF Halt, TypeOK, OpType, Steps
  <2> QED
    BY <1>3, <2>1, <2>2, IssueType, EditingType DEF Halt, Begin, TypeOK, CoreOK
<1>4. CASE StartSession(i)
  <2>1. op' \in [Ids -> OpType]
    BY <1>4, GoType DEF StartSession, TypeOK, OpType, Steps
  <2> QED
    BY <1>4, <2>1, IssueType, EditingType DEF StartSession, Begin, TypeOK, CoreOK
<1> QED
  BY <1>1, <1>2, <1>3, <1>4 DEF Command

LEMMA ProceedType ==
  ASSUME TypeOK, NEW i \in Ids, Proceed(i)
  PROVE  TypeOK'
<1> USE SessionType
<1>0. op \in [Ids -> OpType] /\ mem \in Registry /\ "none" \in Steps
  BY DEF TypeOK, OpType, Steps
<1>1. CASE Updated(i)
  <2>1. queue' \in Seq(Snapshot)
    BY <1>0, <1>1, SaveType DEF Updated, TypeOK
  <2>2. op' \in [Ids -> OpType]
    BY <1>0, <1>1 DEF Updated, OpType, Steps
  <2> QED
    BY <1>0, <1>1, <2>1, <2>2, IssueType, EditingType
       DEF Updated, From, TypeOK, CoreOK
<1>2. ASSUME Rollback(i), queue' \in Seq(Snapshot), UNCHANGED commands
      PROVE  TypeOK'
  <2>1. mem' \in Registry
    <3>1. [mem.session[i] EXCEPT !.hours = op[i].hours] \in Session
      BY DEF Session, OpType
    <3> QED
      BY <1>0, <1>2, <3>1, EditType DEF Rollback, Edit
  <2>2. op' \in [Ids -> OpType]
    BY <1>0, <1>2, GoType DEF Rollback
  <2> QED
    BY <1>2, <2>1, <2>2, EditingType DEF Rollback, TypeOK, CoreOK
<1>3. CASE UpdateFails(i)
  BY <1>2, <1>3 DEF UpdateFails, From, TypeOK
<1>4. CASE ConfigureRejected(i)
  BY <1>2, <1>4, RejectedType DEF ConfigureRejected, From
<1>5. CASE Settled(i)
  <2>1. queue' \in Seq(Snapshot)
    BY <1>0, <1>5, SaveType DEF Settled, TypeOK
  <2>2. op' \in [Ids -> OpType]
    BY <1>0, <1>5, GoType DEF Settled, Steps
  <2> QED
    BY <1>0, <1>5, <2>1, <2>2, EditingType DEF Settled, From, TypeOK, CoreOK
<1>6. CASE LoginSaved(i)
  <2>1. op' \in [Ids -> OpType]
    BY <1>0, <1>6, GoType DEF LoginSaved, Steps
  <2> QED
    BY <1>6, <2>1, WrittenType, RelyType, WaitingType DEF LoginSaved, From, TypeOK
<1>7. CASE LoggedOut(i)
  <2>1. mem' \in Registry
    <3>1. [mem.session[i] EXCEPT !.removed = At(i, "remove")] \in Session
      BY DEF Session, At
    <3> QED
      BY <1>0, <1>7, <3>1, EditType DEF LoggedOut, Edit
  <2>2. op' \in [Ids -> OpType]
    BY <1>0, <1>7, GoType DEF LoggedOut, Steps
  <2> QED
    BY <1>7, <2>1, <2>2, EditingType DEF LoggedOut, From, TypeOK, CoreOK
<1>8. CASE CallFails(i)
  BY <1>8, FailType, EditingType DEF CallFails, Fail, From, TypeOK
<1>9. ASSUME NEW user \in Names, LoggedIn(i, user)
      PROVE  TypeOK'
  <2> DEFINE s == [mem.session[i] EXCEPT !.user = user]
  <2>1. s \in Session /\ Resolved(s) \in Session
    BY DEF Session, Resolved
  <2>2. CASE /\ Edit(i, Resolved(s)) /\ Save(i)
             /\ Go(i, "login_save") /\ UNCHANGED revived /\ Editing
    <3> HIDE DEF s
    <3>1. mem' \in Registry
      BY <1>0, <2>1, <2>2, EditType DEF Edit
    <3>2. queue' \in Seq(Snapshot)
      BY <2>2, <3>1, SaveType DEF TypeOK
    <3>3. op' \in [Ids -> OpType]
      BY <1>0, <2>2, GoType DEF Steps
    <3> QED
      BY <1>9, <2>2, <3>1, <3>2, <3>3, EditingType DEF LoggedIn, From, TypeOK, CoreOK
  <2>3. CASE FailAs(i, s) /\ Save("none")
    <3> HIDE DEF s
    <3> QED
      BY <1>9, <2>1, <2>3, FailType, EditingType DEF LoggedIn, From, TypeOK
  <2> QED
    BY <1>9, <2>2, <2>3 DEF LoggedIn
<1>10. CASE Reserve(i)
  <2> DEFINE s == mem.session[i]
             socks == config.socks /\ s.socks = 0
             r == Resolved(s)
  <2>1. r \in Session
    BY DEF Session, Resolved
  <2>2. mem.next \in Start .. End + 1 /\ (socks => mem.next \in 0 .. End)
    BY <1>0, <1>10, ConstantsAssumption
       DEF Registry, Reserve, PoolLeft, ConstantsAssumption
  <2>3. mem' = [mem EXCEPT
                  !.session[i] = IF socks THEN [r EXCEPT !.socks = mem.next] ELSE r,
                  !.next = IF socks THEN @ + 1 ELSE @]
    BY <1>10 DEF Reserve
  <2> HIDE DEF r, socks
  <2>4. mem' \in Registry
    <3> DEFINE t == IF socks THEN [r EXCEPT !.socks = mem.next] ELSE r
               n == IF socks THEN mem.next + 1 ELSE mem.next
    <3>1. t \in Session
      BY <2>1, <2>2 DEF Session
    <3>2. n \in Start .. End + 1
      BY <2>2, ConstantsAssumption DEF ConstantsAssumption
    <3>3. mem' = [session |-> [mem.session EXCEPT ![i] = t],
                  next |-> n, policy |-> mem.policy]
      BY <1>0, <2>3 DEF Registry
    <3> HIDE DEF t, n
    <3>4. [mem.session EXCEPT ![i] = t] \in [Ids -> Session]
      BY <1>0, <3>1 DEF Registry
    <3> QED
      BY <1>0, <3>2, <3>3, <3>4 DEF Registry
  <2>5. queue' \in Seq(Snapshot)
    BY <1>10, <2>4, SaveType DEF Reserve, TypeOK
  <2>6. op' \in [Ids -> OpType]
    BY <1>0, <1>10, GoType DEF Reserve, Steps
  <2> QED
    BY <1>10, <2>4, <2>5, <2>6, EditingType DEF Reserve, From, TypeOK, CoreOK
<1>11. CASE ReserveFails(i)
  <2>1. Resolved(mem.session[i]) \in Session
    BY DEF Session, Resolved
  <2> QED
    BY <1>11, <2>1, FailType, EditingType DEF ReserveFails, Fail, From, TypeOK
<1>12. CASE Reserved(i)
  <2>1. op' \in [Ids -> OpType]
    BY <1>0, <1>12, GoType DEF Reserved, Steps
  <2> QED
    BY <1>12, <2>1, WrittenType, WaitingType DEF Reserved, From, TypeOK
<1>13. CASE Provisioned(i)
  <2>1. mem' \in Registry
    <3>1. [mem.session[i] EXCEPT !.desired = TRUE] \in Session
      BY DEF Session
    <3> QED
      BY <1>0, <1>13, <3>1, EditType DEF Provisioned, Edit
  <2>2. queue' \in Seq(Snapshot)
    BY <1>13, <2>1, SaveType DEF Provisioned, TypeOK
  <2>3. op' \in [Ids -> OpType]
    BY <1>0, <1>13, GoType DEF Provisioned, Steps
  <2> QED
    BY <1>13, <2>1, <2>2, <2>3, EditingType DEF Provisioned, From, TypeOK, CoreOK
<1>14. CASE Done(i)
  <2>1. op' \in [Ids -> OpType]
    BY <1>0, <1>14, GoType DEF Done
  <2> QED
    BY <1>14, <2>1, WrittenType, RelyType, WaitingType DEF Done, From, TypeOK
<1>15. CASE AddRejected(i)
  <2>1. op' \in [Ids -> OpType]
    BY <1>0, <1>15, GoType DEF AddRejected
  <2> QED
    BY <1>0, <1>15, <2>1, RejectedType, EditingType
       DEF AddRejected, From, TypeOK, CoreOK
<1>16. CASE SaveRejected(i)
  BY <1>16, RejectedType, FailType, EditingType DEF SaveRejected, From, TypeOK
<1> QED
  BY <1>1, <1>3, <1>4, <1>5, <1>6, <1>7, <1>8, <1>9, <1>10, <1>11, <1>12, <1>13,
     <1>14, <1>15, <1>16 DEF Proceed

\* Every step keeps the types.
LEMMA TypeStep ==
  ASSUME TypeOK, [Next]_vars
  PROVE  TypeOK'
<1>0. /\ mem \in Registry /\ disk \in Registry /\ queue \in Seq(Snapshot)
      /\ op \in [Ids -> OpType]
  BY DEF TypeOK, OpType
<1>1. ASSUME NEW i \in Ids, Command(i) \/ Proceed(i)
      PROVE  TypeOK'
  BY <1>1, CommandType, ProceedType
<1>2. CASE Background
  <2>1. queue' \in Seq(Snapshot)
    BY <1>0, <1>2, SaveType DEF Background
  <2> QED
    BY <1>0, <1>2, <2>1, EditingType DEF Background, TypeOK, CoreOK
<1>3. CASE BackgroundDone
  BY <1>0, <1>3, WrittenType, WaitingType DEF BackgroundDone, TypeOK
<1>4. CASE BackgroundRejected
  BY <1>0, <1>4, RejectedType, EditingType DEF BackgroundRejected, TypeOK, CoreOK
<1>5. CASE WriteFails
  BY <1>0, <1>5, HeadType DEF WriteFails, TypeOK
<1>6. ASSUME NEW c \in Configs, Policy(c)
      PROVE  TypeOK'
  <2>1. commands' \in Nat
    BY <1>6, IssueType DEF Policy
  <2>2. changing' \in [step : {"none", "squid", "save"}, config : Configs \cup {Base}]
    BY <1>6 DEF Policy, TypeOK
  <2> QED
    BY <1>6, <2>1, <2>2 DEF Policy, TypeOK
<1>7. CASE PolicySave
  <2>1. mem' \in Registry
    BY <1>0, <1>7 DEF PolicySave, Registry, TypeOK
  <2>2. queue' \in Seq(Snapshot)
    BY <1>0, <1>7, <2>1, SaveType DEF PolicySave
  <2> QED
    BY <1>7, <2>1, <2>2 DEF PolicySave, TypeOK
<1>8. CASE PolicySaved
  <2>1. disk' \in Registry /\ queue' \in Seq(Snapshot)
    BY <1>8, WrittenType DEF PolicySaved
  <2> QED
    BY <1>8, <2>1 DEF PolicySaved, TypeOK, NoChange
<1>9. CASE PolicyFails
  <2>1. queue' \in Seq(Snapshot)
    BY <1>0, <1>9, RejectedType DEF PolicyFails
  <2> QED
    BY <1>9, <2>1 DEF PolicyFails, TypeOK, NoChange
<1>10. CASE Exit
  <2>1. disk' \in Registry /\ mem' \in Registry
    BY <1>0, <1>10, HeadType DEF Exit
  <2>2. NoOp \in OpType
    BY DEF NoOp, OpType, Steps
  <2>3. op' \in [Ids -> OpType]
    BY <1>10, <2>2 DEF Exit
  <2>4. queue' \in Seq(Snapshot) /\ config' = Base /\ changing' = NoChange
    BY <1>10 DEF Exit
  <2> QED
    <3>1. /\ UNCHANGED <<relied, commands, revived>>
          /\ torn' = FALSE /\ up' = FALSE
      BY <1>10 DEF Exit
    <3>2. NoChange \in [step : {"none", "squid", "save"}, config : Configs \cup {Base}]
      BY DEF NoChange
    <3> QED
      BY <2>1, <2>3, <2>4, <3>1, <3>2 DEF TypeOK, OpType
<1>11. CASE Open
  <2>1. Effective(disk) \in Configs \cup {Base}
    BY <1>0 DEF Effective, Registry
  <2>2. NoOp \in OpType /\ [NoOp EXCEPT !.step = "identity"] \in OpType
    BY DEF NoOp, OpType, Steps
  <2> QED
    BY <1>11, <2>1, <2>2 DEF Open, TypeOK, OpType
<1>12. CASE UNCHANGED vars
  BY <1>12 DEF vars, TypeOK
<1> QED
  BY <1>1, <1>2, <1>3, <1>4, <1>5, <1>6, <1>7, <1>8, <1>9, <1>10, <1>11, <1>12
     DEF Next

\* Every variable keeps its type and the cursor stays in the pool, whatever the
\* administrators ask for, the writes that fail and the process that dies.
THEOREM Typing == Spec => []TypeOK
<1>1. Init => TypeOK
  <2>1. Empty \in Registry
    BY ConstantsAssumption
       DEF ConstantsAssumption, Empty, Registry, NoSession, Session
  <2>2. NoOp \in OpType
    BY DEF NoOp, OpType, Steps
  <2> SUFFICES ASSUME Init PROVE TypeOK
    OBVIOUS
  <2>3. op \in [Ids -> OpType] /\ queue \in Seq(Snapshot)
    BY <2>2 DEF Init
  <2>4. changing \in [step : {"none", "squid", "save"}, config : Configs \cup {Base}]
    BY DEF Init, NoChange
  <2> QED
    BY <2>1, <2>3, <2>4 DEF Init, TypeOK, OpType
<1>2. TypeOK /\ [Next]_vars => TypeOK'
  BY TypeStep
<1> QED
  BY <1>1, <1>2, PTL DEF Spec

-----------------------------------------------------------------------------
(* The ledger.  What is written is a prefix of the history of the state in  *)
(* memory, in which reservations are only added, each for one session.      *)

Below(m, n) == Reservations(m) \subseteq Reservations(n)

\* The cursor is past every listener; a session not added owns nothing.
Assigned(m) ==
  \A i \in Ids :
    /\ m.session[i].listener < m.next /\ m.session[i].socks < m.next
    /\ m.session[i].listener = 0 =>
         m.session[i].socks = 0 /\ m.session[i].name = None

Chain ==
  /\ \A k \in 1 .. Len(queue) :
       /\ Below(disk, queue[k].state) /\ Below(queue[k].state, mem)
       /\ Assigned(queue[k].state)
  /\ \A k, l \in 1 .. Len(queue) :
       k <= l => Below(queue[k].state, queue[l].state)

LedgerInv ==
  /\ Assigned(mem) /\ Assigned(disk)
  /\ Audit!OneOwner(Reservations(mem))
  /\ Below(disk, mem) /\ Chain
  /\ relied \subseteq Reservations(disk)
  /\ \A i \in Ids : op[i].step # "none" => i \in Known(mem)

\* What an edit of the state in memory must show.
Grows ==
  Assigned(mem') /\ Below(mem, mem') /\ Audit!OneOwner(Reservations(mem'))

\* A session gets more, and what it gets belongs to nobody else.
LEMMA GrowOne ==
  ASSUME TypeOK, LedgerInv, NEW i \in Ids, NEW t \in Session,
         mem'.session = [mem.session EXCEPT ![i] = t], mem'.next \in Nat,
         mem'.next >= mem.next, t.listener < mem'.next, t.socks < mem'.next,
         t.listener = 0 => t.socks = 0 /\ t.name = None,
         Owned(mem.session[i]) \subseteq Owned(t),
         \A j \in Ids \ {i} :
           Owned(t) \cap Owned(mem.session[j]) \subseteq Owned(mem.session[i])
  PROVE  Grows
<1>1. /\ mem \in Registry /\ mem.session \in [Ids -> Session]
      /\ mem.next \in Nat
  BY ConstantsAssumption DEF TypeOK, Registry, ConstantsAssumption
<1>2. \A j \in Ids : mem'.session[j] = IF j = i THEN t ELSE mem.session[j]
  BY <1>1
<1>3. Assigned(mem')
  <2>1. \A j \in Ids : /\ mem.session[j].listener < mem.next
                       /\ mem.session[j].socks < mem.next
                       /\ mem.session[j].listener = 0 =>
                            mem.session[j].socks = 0 /\ mem.session[j].name = None
    BY DEF LedgerInv, Assigned
  <2>2. \A j \in Ids : mem.session[j].listener \in Nat /\ mem.session[j].socks \in Nat
    BY <1>1, ConstantsAssumption DEF Session, ConstantsAssumption
  <2> SUFFICES ASSUME NEW j \in Ids
               PROVE  /\ mem'.session[j].listener < mem'.next
                      /\ mem'.session[j].socks < mem'.next
                      /\ mem'.session[j].listener = 0 =>
                           mem'.session[j].socks = 0 /\ mem'.session[j].name = None
    BY DEF Assigned
  <2>3. CASE j = i
    BY <1>2, <2>3
  <2>4. CASE j # i
    BY <1>1, <1>2, <2>1, <2>2, <2>4
  <2> QED
    BY <2>3, <2>4
<1>4. Below(mem, mem')
  BY <1>2 DEF Below, Reservations
<1>5. Audit!OneOwner(Reservations(mem'))
  <2> SUFFICES ASSUME NEW a \in Reservations(mem'), NEW b \in Reservations(mem'),
                      a[2] = b[2]
               PROVE  a[1] = b[1]
    BY DEF Audit!OneOwner
  <2>1. /\ a \in Ids \X Resources /\ b \in Ids \X Resources
        /\ a[2] \in Owned(mem'.session[a[1]]) /\ b[2] \in Owned(mem'.session[b[1]])
    BY DEF Reservations
  <2>2. \A r \in Ids \X Resources :
          r[2] \in Owned(mem.session[r[1]]) => r \in Reservations(mem)
    BY DEF Reservations
  <2>3. \A c, d \in Reservations(mem) : c[2] = d[2] => c[1] = d[1]
    BY DEF LedgerInv, Audit!OneOwner
  <2>4. \A x \in Ids, y \in Resources :
          y \in Owned(mem.session[x]) => <<x, y>> \in Reservations(mem)
    BY DEF Reservations
  <2>5. CASE a[1] # i /\ b[1] # i
    BY <1>2, <2>1, <2>2, <2>3, <2>5
  <2>6. CASE a[1] = i /\ b[1] # i
    <3>1. a[2] \in Owned(mem.session[i]) /\ b[2] \in Owned(mem.session[b[1]])
      BY <1>2, <2>1, <2>6
    <3> QED
      BY <2>1, <2>2, <2>3, <2>6, <3>1
  <2>7. CASE a[1] # i /\ b[1] = i
    <3>1. b[2] \in Owned(mem.session[i]) /\ a[2] \in Owned(mem.session[a[1]])
      BY <1>2, <2>1, <2>7
    <3> QED
      BY <2>1, <2>2, <2>3, <2>7, <3>1
  <2> QED
    BY <2>5, <2>6, <2>7
<1> QED
  BY <1>3, <1>4, <1>5 DEF Grows

\* An edit that leaves listeners and name alone.
LEMMA KeepsOwner ==
  ASSUME TypeOK, LedgerInv, NEW i \in Ids, NEW t \in Session, Edit(i, t),
         t.listener = mem.session[i].listener, t.socks = mem.session[i].socks,
         t.name = mem.session[i].name
  PROVE  Grows /\ Known(mem') = Known(mem)
<1>1. /\ mem \in Registry /\ mem.session \in [Ids -> Session] /\ mem.next \in Nat
  BY ConstantsAssumption DEF TypeOK, Registry, ConstantsAssumption
<1>2. mem'.session = [mem.session EXCEPT ![i] = t] /\ mem'.next = mem.next
  BY <1>1 DEF Edit, Registry
<1>3. Owned(t) = Owned(mem.session[i])
  BY DEF Owned
<1>4. /\ t.listener < mem.next /\ t.socks < mem.next
      /\ t.listener = 0 => t.socks = 0 /\ t.name = None
  BY DEF LedgerInv, Assigned
<1>5. Grows
  BY <1>1, <1>2, <1>3, <1>4, GrowOne
<1>6. Known(mem') = Known(mem)
  BY <1>1, <1>2 DEF Known
<1> QED
  BY <1>5, <1>6

\* The next listener is nobody's yet.
LEMMA CursorFree ==
  ASSUME TypeOK, LedgerInv, NEW r \in 0 .. End, r >= mem.next, NEW j \in Ids
  PROVE  r \notin Owned(mem.session[j])
<1>1. mem.session[j] \in Session /\ mem.next \in Nat
  BY ConstantsAssumption DEF TypeOK, Registry, ConstantsAssumption
<1>2. r # mem.session[j].listener /\ r # mem.session[j].socks
  BY <1>1 DEF LedgerInv, Assigned, Session
<1>3. r # mem.session[j].name
  BY <1>1, ConstantsAssumption DEF Session, ConstantsAssumption
<1> QED
  BY <1>2, <1>3 DEF Owned

\* A name that is not taken is nobody's either.
LEMMA NameFree ==
  ASSUME TypeOK, LedgerInv, NEW n \in Names, NEW i \in Ids, ~NameTaken(n, i),
         NEW j \in Ids \ {i}
  PROVE  n \notin Owned(mem.session[j])
<1>1. mem.session[j] \in Session
  BY DEF TypeOK, Registry
<1>2. n # mem.session[j].listener /\ n # mem.session[j].socks
  BY <1>1, ConstantsAssumption DEF Session, ConstantsAssumption
<1>3. n # mem.session[j].name
  <2>1. CASE j \in Known(mem)
    BY <2>1 DEF NameTaken
  <2>2. CASE j \notin Known(mem)
    BY <2>2, ConstantsAssumption DEF Known, LedgerInv, Assigned, ConstantsAssumption
  <2> QED
    BY <2>1, <2>2
<1> QED
  BY <1>2, <1>3 DEF Owned

\* add takes the cursor, twice with SOCKS, and a free name.
LEMMA AddGrows ==
  ASSUME TypeOK, LedgerInv, NEW i \in Ids, NEW name \in Names \cup {None},
         NEW hours \in Hours \cup {config.default}, Add(i, name, hours)
  PROVE  Grows /\ Known(mem') = Known(mem) \cup {i}
<1> DEFINE t == Added(name, hours)
<1>1. /\ mem \in Registry /\ mem.session \in [Ids -> Session]
      /\ mem.next \in Start .. End + 1 /\ Start \in Nat \ {0} /\ End \in Nat
      /\ config \in Config
  BY ConstantsAssumption DEF TypeOK, Registry, ConstantsAssumption
<1>2. mem.next <= End /\ (config.socks => mem.next + 1 <= End)
  BY <1>1, PendingFinite DEF Add, Room, Config
<1>3. /\ mem'.session = [mem.session EXCEPT ![i] = t]
      /\ mem'.next = IF config.socks THEN mem.next + 2 ELSE mem.next + 1
  BY <1>1 DEF Add, Registry
<1>4. /\ t.listener = mem.next /\ t.name = name
      /\ t.socks = IF config.socks THEN mem.next + 1 ELSE 0
  BY DEF Added
<1>5. t \in Session
  <2>1. mem' \in Registry
    BY AddType DEF CoreOK
  <2> HIDE DEF t
  <2>2. mem'.session[i] = t /\ mem'.session[i] \in Session
    BY <1>1, <1>3, <2>1 DEF Registry
  <2> QED
    BY <2>2
<1> HIDE DEF t
<1>6. Owned(mem.session[i]) = {}
  BY DEF Add, Known, LedgerInv, Assigned, Owned
<1>7. ASSUME NEW j \in Ids \ {i}, NEW r \in Owned(t), r \in Owned(mem.session[j])
      PROVE  FALSE
  <2>1. r = mem.next \/ (config.socks /\ r = mem.next + 1) \/ (name # None /\ r = name)
    BY <1>4, <1>7 DEF Owned
  <2>2. CASE r = mem.next
    BY <1>1, <1>2, <1>7, <2>2, CursorFree
  <2>3. CASE config.socks /\ r = mem.next + 1
    BY <1>1, <1>2, <1>7, <2>3, CursorFree
  <2>4. CASE name # None /\ r = name
    <3>1. ~NameTaken(name, i) /\ name \in Names
      BY <2>4 DEF Add
    <3> QED
      BY <1>7, <2>4, <3>1, NameFree
  <2> QED
    BY <2>1, <2>2, <2>3, <2>4
<1>8. Grows
  <2>1. /\ mem'.next \in Nat /\ mem'.next >= mem.next
        /\ t.listener < mem'.next /\ t.socks < mem'.next /\ t.listener # 0
    BY <1>1, <1>3, <1>4
  <2> QED
    BY <1>3, <1>5, <1>6, <1>7, <2>1, GrowOne
<1>9. Known(mem') = Known(mem) \cup {i}
  BY <1>1, <1>3, <1>4 DEF Known
<1> QED
  BY <1>8, <1>9

\* resolveName takes a free name for a session that has none.
LEMMA ResolveGrows ==
  ASSUME TypeOK, LedgerInv, NEW i \in Ids, NEW s \in Session, CanResolve(i, s),
         s.listener = mem.session[i].listener, s.socks = mem.session[i].socks,
         s.name = mem.session[i].name, i \in Known(mem)
  PROVE  /\ Resolved(s) \in Session /\ Owned(s) \subseteq Owned(Resolved(s))
         /\ Owned(s) = Owned(mem.session[i])
         /\ Resolved(s).listener = s.listener /\ Resolved(s).socks = s.socks
         /\ \A j \in Ids \ {i} :
              Owned(Resolved(s)) \cap Owned(mem.session[j]) \subseteq Owned(s)
<1>1. /\ Resolved(s) \in Session
      /\ Resolved(s).listener = s.listener /\ Resolved(s).socks = s.socks
      /\ Resolved(s).name = IF s.name = None THEN s.user ELSE s.name
  BY DEF Resolved, Session
<1>2. Owned(s) = Owned(mem.session[i])
  BY DEF Owned
<1>3. Owned(s) \subseteq Owned(Resolved(s))
  BY <1>1 DEF Owned
<1>4. ASSUME NEW j \in Ids \ {i}, NEW r \in Owned(Resolved(s)),
             r \in Owned(mem.session[j]), r \notin Owned(s)
      PROVE  FALSE
  <2>1. s.name = None /\ r = s.user /\ s.user # None
    BY <1>1, <1>4 DEF Owned
  <2>2. s.user \in Names /\ ~NameTaken(s.user, i)
    BY <2>1 DEF Session, CanResolve
  <2> QED
    BY <1>4, <2>1, <2>2, NameFree
<1> QED
  BY <1>1, <1>2, <1>3, <1>4

LEMMA ReserveGrows ==
  ASSUME TypeOK, LedgerInv, NEW i \in Ids, Reserve(i)
  PROVE  Grows /\ Known(mem') = Known(mem)
<1> DEFINE s == mem.session[i]
           socks == config.socks /\ s.socks = 0
           r == Resolved(s)
           t == IF socks THEN [r EXCEPT !.socks = mem.next] ELSE r
<1>1. /\ mem \in Registry /\ mem.session \in [Ids -> Session]
      /\ mem.next \in Start .. End + 1 /\ Start \in Nat \ {0} /\ End \in Nat
      /\ s \in Session
  BY ConstantsAssumption DEF TypeOK, Registry, ConstantsAssumption
<1>2. i \in Known(mem) /\ CanResolve(i, s) /\ (socks => mem.next <= End)
  BY DEF Reserve, LedgerInv, From, PoolLeft
<1>3. /\ mem'.session = [mem.session EXCEPT ![i] = t]
      /\ mem'.next = IF socks THEN mem.next + 1 ELSE mem.next
  BY <1>1 DEF Reserve, Registry
<1>4. /\ r \in Session /\ Owned(s) \subseteq Owned(r)
      /\ r.listener = s.listener /\ r.socks = s.socks
      /\ \A j \in Ids \ {i} : Owned(r) \cap Owned(mem.session[j]) \subseteq Owned(s)
  BY <1>1, <1>2, ResolveGrows
<1>5. /\ s.listener # 0 /\ s.listener < mem.next /\ s.socks < mem.next
      /\ s.listener \in Nat /\ s.socks \in Nat
  BY <1>1, <1>2 DEF Known, LedgerInv, Assigned, Session
<1> HIDE DEF r, s
<1>6. CASE ~socks
  <2>1. t = r /\ mem'.next = mem.next
    BY <1>3, <1>6
  <2>2. Grows
    BY <1>1, <1>3, <1>4, <1>5, <2>1, GrowOne DEF s
  <2>3. Known(mem') = Known(mem)
    BY <1>1, <1>3, <1>4, <2>1 DEF Known, s
  <2> QED
    BY <2>2, <2>3
<1>7. CASE socks
  <2>1. t = [r EXCEPT !.socks = mem.next] /\ mem'.next = mem.next + 1
    BY <1>3, <1>7
  <2>2. /\ t \in Session /\ t.listener = r.listener /\ t.socks = mem.next
        /\ t.name = r.name
    BY <1>1, <1>2, <1>4, <1>7, <2>1 DEF Session
  <2> HIDE DEF t
  <2>3. Owned(t) = Owned(r) \cup {mem.next}
    <3>1. r.socks = 0 /\ mem.next # 0
      BY <1>1, <1>4, <1>7
    <3>2. mem.next # None
      BY <1>1, <1>2, <1>7, ConstantsAssumption DEF ConstantsAssumption
    <3> QED
      BY <2>2, <3>1, <3>2 DEF Owned
  <2>4. \A j \in Ids \ {i} :
          Owned(t) \cap Owned(mem.session[j]) \subseteq Owned(s)
    BY <1>1, <1>2, <1>4, <1>7, <2>3, CursorFree
  <2>5. Grows
    <3>1. /\ t.listener < mem'.next /\ t.socks < mem'.next /\ t.listener # 0
          /\ mem'.next \in Nat /\ mem'.next >= mem.next
      BY <1>1, <1>4, <1>5, <2>1, <2>2
    <3> QED
      BY <1>3, <1>4, <2>2, <2>3, <2>4, <3>1, GrowOne DEF s
  <2>6. Known(mem') = Known(mem)
    BY <1>1, <1>3, <1>4, <2>2 DEF Known, s
  <2> QED
    BY <2>5, <2>6
<1> QED
  BY <1>6, <1>7

\* An edit leaves what is written a prefix of the history: a snapshot of the new
\* state may join the chain at its end, a rejected one leaves at its head.
LEMMA EditLedger ==
  ASSUME TypeOK, TypeOK', LedgerInv, Grows, UNCHANGED <<disk, relied>>,
         \/ UNCHANGED queue
         \/ \E by \in Ids \cup {"none", "policy"} : Save(by)
         \/ \E by \in Ids \cup {"none", "policy"} : Rejected(by),
         \A j \in Ids : op'[j].step # "none" => j \in Known(mem')
  PROVE  LedgerInv'
<1>1. Below(disk', mem') /\ Assigned(disk') /\ relied' \subseteq Reservations(disk')
  BY DEF LedgerInv, Grows, Below
<1>2. Chain'
  <2>0. queue \in Seq(Snapshot)
    BY DEF TypeOK
  <2>1. CASE UNCHANGED queue
    BY <2>1 DEF Chain, LedgerInv, Grows, Below
  <2>2. ASSUME NEW by, Save(by)
        PROVE  Chain'
    <3>1. queue' = Append(queue, [state |-> mem', by |-> by])
      BY <2>2 DEF Save
    <3>2. /\ Len(queue') = Len(queue) + 1 /\ Len(queue) \in Nat
          /\ \A k \in 1 .. Len(queue) : queue'[k] = queue[k]
          /\ queue'[Len(queue) + 1].state = mem'
      BY <2>0, <3>1
    <3>3. \A k \in 1 .. Len(queue) :
            /\ Below(disk, queue'[k].state) /\ Below(queue'[k].state, mem)
            /\ Assigned(queue'[k].state)
      BY <3>2 DEF LedgerInv, Chain
    <3>4. \A k \in 1 .. Len(queue') :
            /\ Below(disk', queue'[k].state) /\ Below(queue'[k].state, mem')
            /\ Assigned(queue'[k].state)
      <4> SUFFICES ASSUME NEW k \in 1 .. Len(queue')
                   PROVE  /\ Below(disk', queue'[k].state)
                          /\ Below(queue'[k].state, mem')
                          /\ Assigned(queue'[k].state)
        OBVIOUS
      <4>1. CASE k \in 1 .. Len(queue)
        BY <3>3, <4>1 DEF Grows, Below
      <4>2. CASE k = Len(queue) + 1
        BY <1>1, <3>2, <4>2 DEF Grows, Below
      <4> QED
        BY <3>2, <4>1, <4>2
    <3>5. \A k, l \in 1 .. Len(queue') :
            k <= l => Below(queue'[k].state, queue'[l].state)
      <4> SUFFICES ASSUME NEW k \in 1 .. Len(queue'), NEW l \in 1 .. Len(queue'),
                          k <= l
                   PROVE  Below(queue'[k].state, queue'[l].state)
        OBVIOUS
      <4>1. CASE l \in 1 .. Len(queue)
        BY <3>2, <4>1 DEF LedgerInv, Chain
      <4>2. CASE l = Len(queue) + 1
        BY <3>2, <3>4, <4>2
      <4> QED
        BY <3>2, <4>1, <4>2
    <3> QED
      BY <3>4, <3>5 DEF Chain
  <2>3. ASSUME NEW by, Rejected(by)
        PROVE  Chain'
    <3>1. /\ queue # <<>> /\ queue' = Tail(queue)
      BY <2>3 DEF Rejected
    <3>2. /\ Len(queue') = Len(queue) - 1 /\ Len(queue) \in Nat
          /\ \A k \in 1 .. Len(queue') : queue'[k] = queue[k + 1]
      BY <2>0, <3>1
    <3>3. \A k \in 1 .. Len(queue') : k + 1 \in 1 .. Len(queue)
      BY <3>2
    <3>4. \A k \in 1 .. Len(queue') :
            /\ Below(disk, queue'[k].state) /\ Below(queue'[k].state, mem)
            /\ Assigned(queue'[k].state)
      BY <3>2, <3>3 DEF LedgerInv, Chain
    <3>5. \A k, l \in 1 .. Len(queue') :
            k <= l => Below(queue'[k].state, queue'[l].state)
      BY <3>2, <3>3 DEF LedgerInv, Chain
    <3> QED
      BY <3>4, <3>5 DEF Chain, Grows, Below
  <2> QED
    BY <2>1, <2>2, <2>3
<1> QED
  BY <1>1, <1>2 DEF LedgerInv, Grows

\* A write makes the head of the chain the state on disk.
LEMMA WrittenLedger ==
  ASSUME TypeOK, LedgerInv, NEW t, Written(t), UNCHANGED mem,
         relied' \subseteq Reservations(disk'),
         \A j \in Ids : op'[j].step # "none" => j \in Known(mem')
  PROVE  LedgerInv' /\ Below(disk, disk')
<1>1. queue \in Seq(Snapshot) /\ queue # <<>> /\ queue' = Tail(queue)
      /\ disk' = Head(queue).state
  BY DEF TypeOK, Written
<1>2. /\ Len(queue') = Len(queue) - 1 /\ Len(queue) \in Nat \ {0}
      /\ \A k \in 1 .. Len(queue') : queue'[k] = queue[k + 1]
      /\ disk' = queue[1].state
  BY <1>1
<1>3. \A k \in 1 .. Len(queue') : k + 1 \in 1 .. Len(queue)
  BY <1>2
<1>4. 1 \in 1 .. Len(queue)
  BY <1>2
<1>5. Below(disk, disk') /\ Below(disk', mem) /\ Assigned(disk')
  BY <1>2, <1>4 DEF LedgerInv, Chain
<1>6. \A k \in 1 .. Len(queue') :
        /\ Below(disk', queue'[k].state) /\ Below(queue'[k].state, mem)
        /\ Assigned(queue'[k].state)
  BY <1>2, <1>3, <1>4 DEF LedgerInv, Chain
<1>7. \A k, l \in 1 .. Len(queue') :
        k <= l => Below(queue'[k].state, queue'[l].state)
  BY <1>2, <1>3 DEF LedgerInv, Chain
<1>8. Chain'
  BY <1>6, <1>7 DEF Chain
<1> QED
  BY <1>5, <1>8 DEF LedgerInv

LEMMA NothingGrows ==
  ASSUME LedgerInv, UNCHANGED mem
  PROVE  Grows /\ Known(mem') = Known(mem)
BY DEF LedgerInv, Grows, Below, Known, Assigned

\* Only a session that was added is operated on.
LEMMA OpKnown ==
  ASSUME TypeOK, LedgerInv, NEW i \in Ids, Known(mem) \subseteq Known(mem'),
         NEW step \in Steps, Go(i, step) \/ op' = [op EXCEPT ![i] = NoOp],
         step = "none" \/ op' = [op EXCEPT ![i] = NoOp] \/ i \in Known(mem')
  PROVE  \A j \in Ids : op'[j].step # "none" => j \in Known(mem')
<1>1. op \in [Ids -> OpType]
  BY DEF TypeOK, OpType
<1>2. \A j \in Ids : op[j].step # "none" => j \in Known(mem)
  BY DEF LedgerInv
<1>3. CASE Go(i, step)
  <2>1. \A j \in Ids \ {i} : op'[j] = op[j]
    BY <1>1, <1>3 DEF Go
  <2>2. op'[i].step = step
    BY <1>1, <1>3 DEF Go, OpType
  <2>3. CASE op' = [op EXCEPT ![i] = NoOp]
    BY <1>1, <1>2, <2>3 DEF NoOp
  <2> QED
    BY <1>2, <2>1, <2>2, <2>3
<1>4. CASE op' = [op EXCEPT ![i] = NoOp]
  BY <1>1, <1>2, <1>4 DEF NoOp
<1> QED
  BY <1>3, <1>4

LEMMA FailLedger ==
  ASSUME TypeOK, TypeOK', LedgerInv, NEW i \in Ids, NEW s \in Session, FailAs(i, s),
         s.listener = mem.session[i].listener, s.socks = mem.session[i].socks,
         s.name = mem.session[i].name,
         \/ Save("none")
         \/ Rejected(i)
  PROVE  LedgerInv'
<1> DEFINE t == [s EXCEPT !.removed = FALSE]
<1>1. /\ t \in Session /\ t.listener = s.listener /\ t.socks = s.socks
      /\ t.name = s.name
  BY DEF Session
<1>2. Edit(i, t)
  BY DEF FailAs
<1> HIDE DEF t
<1>3. Grows /\ Known(mem') = Known(mem)
  BY <1>1, <1>2, KeepsOwner
<1>4. "none" \in Steps
  BY DEF Steps
<1>5. \A j \in Ids : op'[j].step # "none" => j \in Known(mem')
  BY <1>3, <1>4, OpKnown DEF FailAs
<1> QED
  BY <1>3, <1>5, EditLedger DEF FailAs, Editing

\* What every step does to the ledger.
LedgerStep == LedgerInv' /\ Below(disk, disk') /\ relied \subseteq relied'

LEMMA CommandLedger ==
  ASSUME TypeOK, TypeOK', LedgerInv, NEW i \in Ids, Command(i)
  PROVE  LedgerStep
<1>0. Editing
  BY DEF Command, Add, Configure, Halt, StartSession
<1>1. Below(disk, disk') /\ UNCHANGED <<disk, relied>> /\ relied \subseteq relied'
  BY <1>0 DEF Editing, Below
<1>2. ASSUME NEW name \in Names \cup {None},
             NEW hours \in Hours \cup {config.default}, Add(i, name, hours)
      PROVE  LedgerInv'
  <2>1. Grows /\ Known(mem') = Known(mem) \cup {i}
    BY <1>2, AddGrows
  <2>2. \A j \in Ids : op'[j].step # "none" => j \in Known(mem')
    <3>1. CASE Go(i, "add")
      BY <2>1, <3>1, OpKnown DEF Steps
    <3>2. CASE UNCHANGED op
      BY <2>1, <3>2 DEF LedgerInv
    <3> QED
      BY <1>2, <3>1, <3>2 DEF Add
  <2>3. UNCHANGED queue \/ Save(i)
    BY <1>2 DEF Add
  <2> QED
    BY <1>1, <2>1, <2>2, <2>3, EditLedger
<1>3. ASSUME NEW hours \in Hours, NEW step \in {"update", "configure"},
             Configure(i, hours, step)
      PROVE  LedgerInv'
  <2> DEFINE t == [mem.session[i] EXCEPT !.hours = hours]
  <2>1. hours \in Nat /\ mem.session[i] \in Session
    BY SessionType, ConstantsAssumption DEF ConstantsAssumption
  <2>2. /\ t \in Session /\ t.listener = mem.session[i].listener
        /\ t.socks = mem.session[i].socks /\ t.name = mem.session[i].name
    BY <2>1 DEF Session
  <2>3. Edit(i, t)
    BY <1>3 DEF Configure
  <2> HIDE DEF t
  <2>4. Grows /\ Known(mem') = Known(mem)
    BY <2>2, <2>3, KeepsOwner
  <2>5. i \in Known(mem) /\ op \in [Ids -> OpType]
    BY <1>3 DEF Configure, OnLive, Live, TypeOK, OpType
  <2>6. \A j \in Ids : op'[j].step # "none" => j \in Known(mem')
    BY <1>3, <2>4, <2>5 DEF Configure, LedgerInv
  <2>7. UNCHANGED queue \/ Save(i)
    BY <1>3 DEF Configure
  <2> QED
    BY <1>1, <2>4, <2>6, <2>7, EditLedger
<1>4. ASSUME NEW step \in {"stop", "login", "logout", "remove"}, Halt(i, step)
      PROVE  LedgerInv'
  <2> DEFINE t == [mem.session[i] EXCEPT !.desired = FALSE]
  <2>1. /\ t \in Session /\ t.listener = mem.session[i].listener
        /\ t.socks = mem.session[i].socks /\ t.name = mem.session[i].name
    BY SessionType DEF Session
  <2>2. Edit(i, t)
    BY <1>4 DEF Halt
  <2> HIDE DEF t
  <2>3. Grows /\ Known(mem') = Known(mem)
    BY <2>1, <2>2, KeepsOwner
  <2>4. \A j \in Ids : op'[j].step # "none" => j \in Known(mem')
    <3>1. i \in Known(mem) /\ step \in Steps
      BY <1>4 DEF Halt, OnLive, Live, Steps
    <3> QED
      BY <1>4, <2>3, <3>1, OpKnown DEF Halt
  <2> QED
    BY <1>1, <1>4, <2>3, <2>4, EditLedger DEF Halt
<1>5. ASSUME StartSession(i) PROVE LedgerInv'
  <2>1. Grows /\ Known(mem') = Known(mem)
    BY <1>5, NothingGrows DEF StartSession
  <2>2. \A j \in Ids : op'[j].step # "none" => j \in Known(mem')
    <3>1. i \in Known(mem) /\ "identity" \in Steps
      BY <1>5 DEF StartSession, OnLive, Live, Steps
    <3> QED
      BY <1>5, <2>1, <3>1, OpKnown DEF StartSession
  <2>3. UNCHANGED queue
    BY <1>5 DEF StartSession
  <2> QED
    BY <1>1, <2>1, <2>2, <2>3, EditLedger
<1> QED
  BY <1>1, <1>2, <1>3, <1>4, <1>5 DEF Command, LedgerStep

LEMMA ProceedLedger ==
  ASSUME TypeOK, TypeOK', LedgerInv, NEW i \in Ids, Proceed(i)
  PROVE  LedgerStep
<1> USE SessionType
<1>0. op \in [Ids -> OpType] /\ mem \in Registry /\ "none" \in Steps
  BY DEF TypeOK, OpType, Steps
<1>a. ASSUME LedgerInv', UNCHANGED <<disk, relied>>
      PROVE  LedgerStep
  BY <1>a DEF LedgerStep, Below
<1>b. op[i].step # "none" => i \in Known(mem)
  BY DEF LedgerInv
<1>1. CASE Updated(i)
  <2>1. Grows /\ Known(mem') = Known(mem)
    BY <1>1, NothingGrows DEF Updated
  <2>2. \A j \in Ids : op'[j].step # "none" => j \in Known(mem')
    <3>1. i \in Known(mem)
      BY <1>1, <1>b DEF Updated, From
    <3> QED
      BY <1>0, <1>1, <2>1, <3>1 DEF Updated, LedgerInv
  <2>3. Save(i) /\ UNCHANGED <<disk, relied>>
    BY <1>1 DEF Updated, Editing
  <2> QED
    BY <1>a, <2>1, <2>2, <2>3, EditLedger
<1>2. ASSUME Rollback(i), UNCHANGED queue \/ Rejected(i)
      PROVE  LedgerStep
  <2> DEFINE t == [mem.session[i] EXCEPT !.hours = op[i].hours]
  <2>1. /\ t \in Session /\ t.listener = mem.session[i].listener
        /\ t.socks = mem.session[i].socks /\ t.name = mem.session[i].name
    BY DEF Session, OpType
  <2>2. Edit(i, t)
    BY <1>2 DEF Rollback
  <2> HIDE DEF t
  <2>3. Grows /\ Known(mem') = Known(mem)
    BY <2>1, <2>2, KeepsOwner
  <2>4. \A j \in Ids : op'[j].step # "none" => j \in Known(mem')
    BY <1>0, <1>2, <2>3, OpKnown DEF Rollback
  <2>5. UNCHANGED <<disk, relied>>
    BY <1>2 DEF Rollback, Editing
  <2> QED
    BY <1>2, <1>a, <2>3, <2>4, <2>5, EditLedger
<1>3. CASE UpdateFails(i)
  BY <1>2, <1>3 DEF UpdateFails
<1>4. CASE ConfigureRejected(i)
  BY <1>2, <1>4 DEF ConfigureRejected
<1>5. CASE Settled(i)
  <2>1. Grows /\ Known(mem') = Known(mem)
    BY <1>5, NothingGrows DEF Settled
  <2>2. \A j \in Ids : op'[j].step # "none" => j \in Known(mem')
    <3>1. i \in Known(mem) /\ "save" \in Steps
      BY <1>5, <1>b DEF Settled, From, Steps
    <3> QED
      BY <1>5, <2>1, <3>1, OpKnown DEF Settled
  <2>3. Save(i) /\ UNCHANGED <<disk, relied>>
    BY <1>5 DEF Settled, Editing
  <2> QED
    BY <1>a, <2>1, <2>2, <2>3, EditLedger
<1>c. ASSUME Written(i), UNCHANGED mem, Rely(i) \/ UNCHANGED relied,
             \A j \in Ids : op'[j].step # "none" => j \in Known(mem')
      PROVE  LedgerStep
  <2>1. disk' = Head(queue).state /\ Below(disk, disk')
    <3>1. disk' = queue[1].state /\ 1 \in 1 .. Len(queue)
      BY <1>c DEF Written, TypeOK
    <3> QED
      BY <1>c, <3>1 DEF Written, LedgerInv, Chain
  <2>2. relied' \subseteq Reservations(disk') /\ relied \subseteq relied'
    <3>1. relied \subseteq Reservations(disk')
      BY <2>1 DEF LedgerInv, Below
    <3> QED
      BY <1>c, <2>1, <3>1 DEF Rely
  <2>3. LedgerInv'
    BY <1>c, <2>2, WrittenLedger
  <2> QED
    BY <2>1, <2>2, <2>3 DEF LedgerStep
<1>6. CASE LoginSaved(i)
  <2>1. Known(mem') = Known(mem) /\ UNCHANGED mem
    BY <1>6, NothingGrows DEF LoginSaved, Waiting
  <2>2. \A j \in Ids : op'[j].step # "none" => j \in Known(mem')
    <3>1. i \in Known(mem) /\ "identity" \in Steps
      BY <1>6, <1>b DEF LoginSaved, From, Steps
    <3> QED
      BY <1>0, <1>6, <2>1, <3>1, OpKnown DEF LoginSaved
  <2> QED
    BY <1>6, <1>c, <2>1, <2>2 DEF LoginSaved
<1>7. CASE LoggedOut(i)
  <2> DEFINE t == [mem.session[i] EXCEPT !.removed = At(i, "remove")]
  <2>1. /\ t \in Session /\ t.listener = mem.session[i].listener
        /\ t.socks = mem.session[i].socks /\ t.name = mem.session[i].name
    BY DEF Session, At
  <2>2. Edit(i, t)
    BY <1>7 DEF LoggedOut
  <2> HIDE DEF t
  <2>3. Grows /\ Known(mem') = Known(mem)
    BY <2>1, <2>2, KeepsOwner
  <2>4. \A j \in Ids : op'[j].step # "none" => j \in Known(mem')
    <3>1. i \in Known(mem) /\ "squid" \in Steps
      BY <1>7, <1>b DEF LoggedOut, From, Steps
    <3> QED
      BY <1>7, <2>3, <3>1, OpKnown DEF LoggedOut
  <2>5. UNCHANGED <<queue, disk, relied>>
    BY <1>7 DEF LoggedOut, Editing
  <2> QED
    BY <1>a, <2>3, <2>4, <2>5, EditLedger
<1>d. ASSUME NEW s \in Session, FailAs(i, s), Save("none") \/ Rejected(i),
             s.listener = mem.session[i].listener,
             s.socks = mem.session[i].socks, s.name = mem.session[i].name
      PROVE  LedgerStep
  <2>1. LedgerInv'
    BY <1>d, FailLedger
  <2>2. UNCHANGED <<disk, relied>>
    BY <1>d DEF FailAs, Editing
  <2> QED
    BY <1>a, <2>1, <2>2
<1>8. CASE CallFails(i)
  BY <1>8, <1>d DEF CallFails, Fail
<1>9. ASSUME NEW user \in Names, LoggedIn(i, user)
      PROVE  LedgerStep
  <2> DEFINE s == [mem.session[i] EXCEPT !.user = user]
  <2>1. /\ s \in Session /\ s.listener = mem.session[i].listener
        /\ s.socks = mem.session[i].socks /\ s.name = mem.session[i].name
    BY DEF Session
  <2>2. \/ /\ CanResolve(i, s) /\ Edit(i, Resolved(s))
           /\ Save(i) /\ Go(i, "login_save") /\ Editing
        \/ FailAs(i, s) /\ Save("none")
    BY <1>9 DEF LoggedIn
  <2> HIDE DEF s
  <2>3. CASE /\ CanResolve(i, s) /\ Edit(i, Resolved(s))
             /\ Save(i) /\ Go(i, "login_save") /\ Editing
    <3>1. i \in Known(mem) /\ "login_save" \in Steps
      BY <1>9, <1>b DEF LoggedIn, From, Steps
    <3>2. /\ Resolved(s) \in Session /\ Owned(s) \subseteq Owned(Resolved(s))
          /\ Owned(s) = Owned(mem.session[i])
          /\ Resolved(s).listener = s.listener /\ Resolved(s).socks = s.socks
          /\ \A j \in Ids \ {i} :
               Owned(Resolved(s)) \cap Owned(mem.session[j]) \subseteq Owned(s)
      BY <2>1, <2>3, <3>1, ResolveGrows
    <3>3. /\ mem'.session = [mem.session EXCEPT ![i] = Resolved(s)]
          /\ mem'.next = mem.next /\ mem.next \in Nat
      BY <1>0, <2>3, ConstantsAssumption DEF Edit, Registry, ConstantsAssumption
    <3>4. /\ mem.session[i].listener < mem.next /\ mem.session[i].socks < mem.next
          /\ mem.session[i].listener # 0
      BY <3>1 DEF LedgerInv, Assigned, Known
    <3>5. Grows
      BY <2>1, <3>2, <3>3, <3>4, GrowOne
    <3>6. Known(mem') = Known(mem)
      BY <1>0, <2>1, <3>2, <3>3 DEF Known, Registry
    <3>7. \A j \in Ids : op'[j].step # "none" => j \in Known(mem')
      BY <2>3, <3>1, <3>6, OpKnown
    <3>8. UNCHANGED <<disk, relied>>
      BY <2>3 DEF Editing
    <3> QED
      BY <1>a, <2>3, <3>5, <3>7, <3>8, EditLedger
  <2>4. CASE FailAs(i, s) /\ Save("none")
    BY <1>d, <2>1, <2>4
  <2> QED
    BY <2>2, <2>3, <2>4
<1>10. CASE Reserve(i)
  <2>1. Grows /\ Known(mem') = Known(mem)
    BY <1>10, ReserveGrows
  <2>2. i \in Known(mem) /\ "reserve" \in Steps
    BY <1>10, <1>b DEF Reserve, From, Steps
  <2>3. Save(i) /\ Go(i, "reserve") /\ UNCHANGED <<disk, relied>>
    BY <1>10 DEF Reserve, Editing
  <2>4. \A j \in Ids : op'[j].step # "none" => j \in Known(mem')
    BY <2>1, <2>2, <2>3, OpKnown
  <2> QED
    BY <1>a, <2>1, <2>3, <2>4, EditLedger
<1>11. CASE ReserveFails(i)
  <2> DEFINE s == mem.session[i]
             r == Resolved(s)
             t == [r EXCEPT !.removed = FALSE]
  <2>1. i \in Known(mem)
    BY <1>11, <1>b DEF ReserveFails, From
  <2>2. CASE FailAs(i, s) /\ Save("none")
    BY <1>d, <2>2
  <2>3. CASE CanResolve(i, s) /\ FailAs(i, r) /\ Save("none")
    <3>1. /\ r \in Session /\ Owned(s) \subseteq Owned(r)
          /\ r.listener = s.listener /\ r.socks = s.socks
          /\ \A j \in Ids \ {i} : Owned(r) \cap Owned(mem.session[j]) \subseteq Owned(s)
      BY <2>1, <2>3, ResolveGrows
    <3>2. Edit(i, t) /\ op' = [op EXCEPT ![i] = NoOp] /\ UNCHANGED <<disk, relied>>
      BY <2>3 DEF FailAs, Editing
    <3> HIDE DEF r
    <3>3. /\ t \in Session /\ t.listener = r.listener /\ t.socks = r.socks
          /\ Owned(t) = Owned(r)
      BY <3>1 DEF Session, Owned
    <3>4. /\ mem'.session = [mem.session EXCEPT ![i] = t]
          /\ mem'.next = mem.next /\ mem.next \in Nat
      BY <1>0, <3>2, ConstantsAssumption DEF Edit, Registry, ConstantsAssumption
    <3> HIDE DEF t
    <3>5. s.listener < mem.next /\ s.socks < mem.next /\ s.listener # 0
      BY <2>1 DEF LedgerInv, Assigned, Known
    <3>6. Grows
      BY <3>1, <3>3, <3>4, <3>5, GrowOne
    <3>7. Known(mem') = Known(mem)
      BY <1>0, <3>1, <3>3, <3>4 DEF Known, Registry
    <3>8. \A j \in Ids : op'[j].step # "none" => j \in Known(mem')
      BY <1>0, <3>2, <3>7, OpKnown
    <3> QED
      BY <1>a, <2>3, <3>2, <3>6, <3>8, EditLedger
  <2> QED
    BY <1>11, <2>2, <2>3 DEF ReserveFails, Fail
<1>12. CASE Reserved(i)
  <2>1. Known(mem') = Known(mem) /\ UNCHANGED mem
    BY <1>12, NothingGrows DEF Reserved, Waiting
  <2>2. \A j \in Ids : op'[j].step # "none" => j \in Known(mem')
    <3>1. i \in Known(mem) /\ "provision" \in Steps
      BY <1>12, <1>b DEF Reserved, From, Steps
    <3> QED
      BY <1>12, <2>1, <3>1, OpKnown DEF Reserved
  <2> QED
    BY <1>12, <1>c, <2>1, <2>2 DEF Reserved
<1>13. CASE Provisioned(i)
  <2> DEFINE t == [mem.session[i] EXCEPT !.desired = TRUE]
  <2>1. /\ t \in Session /\ t.listener = mem.session[i].listener
        /\ t.socks = mem.session[i].socks /\ t.name = mem.session[i].name
    BY DEF Session
  <2>2. Edit(i, t)
    BY <1>13 DEF Provisioned
  <2> HIDE DEF t
  <2>3. Grows /\ Known(mem') = Known(mem)
    BY <2>1, <2>2, KeepsOwner
  <2>4. i \in Known(mem) /\ "save" \in Steps
    BY <1>13, <1>b DEF Provisioned, From, Steps
  <2>5. Save(i) /\ Go(i, "save") /\ UNCHANGED <<disk, relied>>
    BY <1>13 DEF Provisioned, Editing
  <2>6. \A j \in Ids : op'[j].step # "none" => j \in Known(mem')
    BY <2>3, <2>4, <2>5, OpKnown
  <2> QED
    BY <1>a, <2>3, <2>5, <2>6, EditLedger
<1>14. CASE Done(i)
  <2>1. Known(mem') = Known(mem) /\ UNCHANGED mem
    BY <1>14, NothingGrows DEF Done, Waiting
  <2>2. \A j \in Ids : op'[j].step # "none" => j \in Known(mem')
    BY <1>0, <1>14, <2>1, OpKnown DEF Done
  <2> QED
    BY <1>14, <1>c, <2>1, <2>2 DEF Done
<1>15. CASE AddRejected(i)
  <2>1. Grows /\ Known(mem') = Known(mem)
    BY <1>15, NothingGrows DEF AddRejected
  <2>2. \A j \in Ids : op'[j].step # "none" => j \in Known(mem')
    BY <1>0, <1>15, <2>1, OpKnown DEF AddRejected
  <2>3. Rejected(i) /\ UNCHANGED <<disk, relied>>
    BY <1>15 DEF AddRejected, Editing
  <2> QED
    BY <1>a, <2>1, <2>2, <2>3, EditLedger
<1>16. CASE SaveRejected(i)
  BY <1>16, <1>d DEF SaveRejected
<1> QED
  BY <1>1, <1>3, <1>4, <1>5, <1>6, <1>7, <1>8, <1>9, <1>10, <1>11, <1>12, <1>13,
     <1>14, <1>15, <1>16 DEF Proceed

LEMMA RegistryLedger ==
  ASSUME TypeOK, TypeOK', LedgerInv, [Next]_vars
  PROVE  LedgerStep
<1>0. op \in [Ids -> OpType] /\ queue \in Seq(Snapshot)
  BY DEF TypeOK, OpType
<1>a. ASSUME LedgerInv', UNCHANGED <<disk, relied>>
      PROVE  LedgerStep
  BY <1>a DEF LedgerStep, Below
<1>b. ASSUME UNCHANGED <<mem, disk, relied, op>>,
             \/ UNCHANGED queue
             \/ \E by \in Ids \cup {"none", "policy"} : Save(by)
             \/ \E by \in Ids \cup {"none", "policy"} : Rejected(by)
      PROVE  LedgerStep
  <2>1. Grows /\ Known(mem') = Known(mem)
    BY <1>b, NothingGrows
  <2>2. \A j \in Ids : op'[j].step # "none" => j \in Known(mem')
    BY <1>b, <2>1 DEF LedgerInv
  <2> QED
    BY <1>a, <1>b, <2>1, <2>2, EditLedger
<1>c. ASSUME NEW t, Written(t), UNCHANGED <<mem, relied, op>>
      PROVE  LedgerStep
  <2>1. Known(mem') = Known(mem)
    BY <1>c, NothingGrows
  <2>2. disk' = queue[1].state /\ 1 \in 1 .. Len(queue)
    BY <1>0, <1>c DEF Written
  <2>3. Below(disk, disk')
    BY <2>2 DEF LedgerInv, Chain
  <2>4. relied' \subseteq Reservations(disk')
    BY <1>c, <2>3 DEF LedgerInv, Below
  <2>5. \A j \in Ids : op'[j].step # "none" => j \in Known(mem')
    BY <1>c, <2>1 DEF LedgerInv
  <2>6. LedgerInv'
    BY <1>c, <2>4, <2>5, WrittenLedger
  <2> QED
    BY <1>c, <2>3, <2>6 DEF LedgerStep
\* A write that failed has put the head of the chain on disk, or not.
<1>d. ASSUME disk' \in {disk, Head(queue).state}, queue # <<>> \/ disk' = disk
      PROVE  /\ Below(disk, disk') /\ Below(disk', mem) /\ Assigned(disk')
             /\ \A k \in 1 .. Len(queue) : Below(disk', queue[k].state)
  <2>1. CASE disk' = disk
    BY <2>1 DEF LedgerInv, Chain, Below
  <2>2. CASE disk' = Head(queue).state /\ queue # <<>>
    <3>1. disk' = queue[1].state /\ 1 \in 1 .. Len(queue) /\ Len(queue) \in Nat
      BY <1>0, <2>2
    <3>2. \A k \in 1 .. Len(queue) : 1 <= k
      BY <3>1
    <3> QED
      BY <3>1, <3>2 DEF LedgerInv, Chain
  <2> QED
    BY <1>d, <2>1, <2>2
<1>1. ASSUME NEW i \in Ids, Command(i) \/ Proceed(i)
      PROVE  LedgerStep
  BY <1>1, CommandLedger, ProceedLedger
<1>2. CASE Background
  BY <1>2, <1>b DEF Background, Editing
<1>3. CASE BackgroundDone
  BY <1>3, <1>c DEF BackgroundDone, Waiting
<1>4. CASE BackgroundRejected
  BY <1>4, <1>b DEF BackgroundRejected, Editing
<1>5. CASE WriteFails
  <2>1. UNCHANGED <<mem, queue, op, relied>>
    BY <1>5 DEF WriteFails
  <2>2. /\ Below(disk, disk') /\ Below(disk', mem) /\ Assigned(disk')
        /\ \A k \in 1 .. Len(queue) : Below(disk', queue[k].state)
    BY <1>5, <1>d DEF WriteFails
  <2>3. Chain'
    BY <2>1, <2>2 DEF LedgerInv, Chain, Below
  <2>4. relied' \subseteq Reservations(disk')
    BY <2>1, <2>2 DEF LedgerInv, Below
  <2>5. Known(mem') = Known(mem)
    BY <2>1, NothingGrows
  <2>6. LedgerInv'
    BY <2>1, <2>2, <2>3, <2>4, <2>5 DEF LedgerInv, Below, Assigned
  <2> QED
    BY <2>1, <2>2, <2>6 DEF LedgerStep
<1>6. ASSUME NEW c \in Configs, Policy(c)
      PROVE  LedgerStep
  BY <1>6, <1>b DEF Policy
<1>7. CASE PolicySave
  <2>1. /\ mem'.session = mem.session /\ mem'.next = mem.next
        /\ Save("policy") /\ UNCHANGED <<disk, op, relied>>
    BY <1>7 DEF PolicySave, TypeOK, Registry
  <2>2. Reservations(mem') = Reservations(mem) /\ Known(mem') = Known(mem)
    BY <2>1 DEF Reservations, Known
  <2>3. Grows
    BY <2>1, <2>2 DEF LedgerInv, Grows, Below, Assigned
  <2>4. \A j \in Ids : op'[j].step # "none" => j \in Known(mem')
    BY <2>1, <2>2 DEF LedgerInv
  <2> QED
    BY <1>a, <2>1, <2>3, <2>4, EditLedger
<1>8. CASE PolicySaved
  BY <1>8, <1>c DEF PolicySaved
<1>9. CASE PolicyFails
  BY <1>9, <1>b DEF PolicyFails
<1>10. CASE Exit
  <2>1. /\ mem' = disk' /\ queue' = <<>> /\ UNCHANGED relied
        /\ op' = [i \in Ids |-> NoOp]
    BY <1>10 DEF Exit
  <2>2. disk' \in {disk, Head(queue).state} /\ (queue # <<>> \/ disk' = disk)
    BY <1>10 DEF Exit
  <2>3. Below(disk, disk') /\ Below(disk', mem) /\ Assigned(disk')
    BY <1>d, <2>2
  <2>4. Audit!OneOwner(Reservations(mem'))
    <3>1. Reservations(mem') \subseteq Reservations(mem)
      BY <2>1, <2>3 DEF Below
    <3> QED
      BY <3>1 DEF LedgerInv, Audit!OneOwner
  <2>5. Chain'
    BY <2>1 DEF Chain
  <2>6. relied' \subseteq Reservations(disk')
    BY <2>1, <2>3 DEF LedgerInv, Below
  <2>7. Assigned(mem') /\ Below(disk', mem')
    BY <2>1, <2>3 DEF Assigned, Below
  <2>8. \A j \in Ids : op'[j].step = "none"
    BY <2>1 DEF NoOp
  <2>9. LedgerInv'
    BY <2>3, <2>4, <2>5, <2>6, <2>7, <2>8 DEF LedgerInv, Assigned
  <2> QED
    BY <2>1, <2>3, <2>9 DEF LedgerStep
<1>11. CASE Open
  <2>1. UNCHANGED <<mem, disk, queue, relied>>
    BY <1>11 DEF Open
  <2>2. Known(mem') = Known(mem) /\ Grows
    BY <2>1, NothingGrows
  <2>3. \A j \in Ids : op'[j].step # "none" => j \in Known(mem')
    BY <1>11, <2>2 DEF Open, Live, NoOp
  <2> QED
    BY <1>a, <2>1, <2>2, <2>3, EditLedger
<1>12. CASE UNCHANGED vars
  BY <1>12, <1>b DEF vars
<1> QED
  BY <1>1, <1>2, <1>3, <1>4, <1>5, <1>6, <1>7, <1>8, <1>9, <1>10, <1>11, <1>12
     DEF Next

LEMMA LedgerInit == Init => LedgerInv
<1> SUFFICES ASSUME Init PROVE LedgerInv
  OBVIOUS
<1>1. Start > 0 /\ Start \in Nat
  BY ConstantsAssumption DEF ConstantsAssumption
<1>2. /\ mem = Empty /\ disk = Empty /\ queue = <<>> /\ relied = {}
      /\ op = [i \in Ids |-> NoOp]
  BY DEF Init
<1>3. \A i \in Ids : Empty.session[i] = NoSession
  BY DEF Empty
<1>4. Reservations(Empty) = {}
  BY <1>3 DEF Reservations, Owned, NoSession
<1>5. Assigned(Empty)
  BY <1>1, <1>3 DEF Assigned, Empty, NoSession
<1>6. Chain
  BY <1>2 DEF Chain
<1>7. Audit!OneOwner(Reservations(mem))
  BY <1>2, <1>4 DEF Audit!OneOwner
<1>8. \A i \in Ids : op[i].step = "none"
  BY <1>2 DEF NoOp
<1> QED
  BY <1>2, <1>4, <1>5, <1>6, <1>7, <1>8 DEF LedgerInv, Below

\* The registry implements the audit ledger: whatever fails and restarts, a
\* listener or name on record keeps its owner forever, and nothing is
\* acknowledged or served on an assignment that is not yet on record.
THEOREM LedgerHolds == Spec => LedgerKept
<1>1. Init => Audit!Init
  <2> SUFFICES ASSUME Init PROVE Audit!Init
    OBVIOUS
  <2>1. \A i \in Ids : Empty.session[i] = NoSession
    BY DEF Empty
  <2> QED
    BY <2>1 DEF Init, Audit!Init, Reservations, Owned, NoSession
<1>2. ASSUME TypeOK, TypeOK', LedgerInv, [Next]_vars
      PROVE  LedgerInv' /\ [Audit!Next]_Audit!vars
  <2>1. LedgerInv' /\ Below(disk, disk') /\ relied \subseteq relied'
    BY <1>2, RegistryLedger DEF LedgerStep
  <2>2. Reservations(disk') \subseteq Ids \X Resources
    BY DEF Reservations
  <2>3. Audit!OneOwner(Reservations(disk'))
    <3>1. Reservations(disk') \subseteq Reservations(mem')
      BY <2>1 DEF LedgerInv, Below
    <3>2. Audit!OneOwner(Reservations(mem'))
      BY <2>1 DEF LedgerInv
    <3> QED
      BY <3>1, <3>2 DEF Audit!OneOwner
  <2>4. relied' \subseteq Reservations(disk')
    BY <2>1 DEF LedgerInv
  <2> QED
    BY <2>1, <2>2, <2>3, <2>4 DEF Audit!Next, Below
<1> QED
  BY <1>1, <1>2, LedgerInit, Typing, PTL DEF Spec, LedgerKept, Audit!Spec
-----------------------------------------------------------------------------
(***************************************************************************)
(* What a restart of the Hub comes up with, for any number of sessions and *)
(* names, any pool and any policies: the configuration in force, a state   *)
(* that validateState accepts, and room for every session.                 *)
(***************************************************************************)

\* Steps that edit the state in memory and may save it or be refused a write, and
\* steps that only have their write; neither touches the policy.
StateEdit ==
  /\ Editing /\ mem'.policy = mem.policy
  /\ \/ UNCHANGED queue
     \/ \E by \in Ids \cup {"none"} : Save(by) \/ Rejected(by)
StateWrite == Waiting /\ \E by \in Ids \cup {"none"} : Written(by)

Commits ==
  \/ StateEdit \/ StateWrite \/ WriteFails \/ (\E c \in Configs : Policy(c))
  \/ PolicySave \/ PolicySaved \/ PolicyFails \/ Exit

\* While the process is down there is only the state on disk.
Down ==
  ~up => /\ mem = disk /\ queue = <<>> /\ changing.step = "none"
         /\ \A i \in Ids : op[i].step = "none"

\* An edit of one session keeps the policy.
LEMMA EditKeeps ==
  ASSUME TypeOK, NEW i \in Ids, NEW s, Edit(i, s)
  PROVE  /\ mem'.session = [mem.session EXCEPT ![i] = s]
         /\ mem'.next = mem.next /\ mem'.policy = mem.policy
BY DEF Edit, TypeOK, Registry

LEMMA FailCommits ==
  ASSUME TypeOK, NEW i \in Ids, NEW s, FailAs(i, s), Save("none") \/ Rejected(i)
  PROVE  StateEdit
BY EditKeeps DEF FailAs, StateEdit

LEMMA CommandCommits ==
  ASSUME TypeOK, NEW i \in Ids, Command(i)
  PROVE  StateEdit
<1>1. ASSUME NEW name, NEW hours, Add(i, name, hours)
      PROVE  StateEdit
  <2>1. mem'.policy = mem.policy
    BY <1>1 DEF Add, TypeOK, Registry
  <2> QED
    BY <1>1, <2>1 DEF Add, StateEdit
<1>2. ASSUME NEW hours, NEW step, Configure(i, hours, step)
      PROVE  StateEdit
  BY <1>2, EditKeeps DEF Configure, StateEdit
<1>3. ASSUME NEW step, Halt(i, step)
      PROVE  StateEdit
  BY <1>3, EditKeeps DEF Halt, StateEdit
<1>4. CASE StartSession(i)
  BY <1>4 DEF StartSession, StateEdit
<1> QED
  BY <1>1, <1>2, <1>3, <1>4 DEF Command

LEMMA ProceedCommits ==
  ASSUME TypeOK, NEW i \in Ids, Proceed(i)
  PROVE  StateEdit \/ StateWrite
<1>1. CASE Updated(i) \/ Settled(i) \/ AddRejected(i)
  BY <1>1 DEF Updated, Settled, AddRejected, StateEdit
<1>2. CASE UpdateFails(i) \/ ConfigureRejected(i)
  BY <1>2, EditKeeps DEF UpdateFails, ConfigureRejected, Rollback, StateEdit
<1>3. CASE LoginSaved(i) \/ Reserved(i) \/ Done(i)
  BY <1>3 DEF LoginSaved, Reserved, Done, StateWrite
<1>4. CASE LoggedOut(i) \/ Provisioned(i)
  BY <1>4, EditKeeps DEF LoggedOut, Provisioned, StateEdit
<1>5. CASE CallFails(i) \/ SaveRejected(i)
  BY <1>5, FailCommits DEF CallFails, SaveRejected, Fail
<1>6. ASSUME NEW user, LoggedIn(i, user)
      PROVE  StateEdit
  BY <1>6, FailCommits, EditKeeps DEF LoggedIn, StateEdit
<1>7. CASE Reserve(i)
  <2>1. mem'.policy = mem.policy
    BY <1>7 DEF Reserve, TypeOK, Registry
  <2> QED
    BY <1>7, <2>1 DEF Reserve, StateEdit
<1>8. CASE ReserveFails(i)
  BY <1>8, FailCommits DEF ReserveFails, Fail
<1> QED
  BY <1>1, <1>2, <1>3, <1>4, <1>5, <1>6, <1>7, <1>8 DEF Proceed

\* Every step is one of these of an open manager, or opens it.
LEMMA StepCommits ==
  ASSUME TypeOK, Down, [Next]_vars
  PROVE  (up /\ Commits) \/ Open \/ UNCHANGED vars
<1>1. ASSUME NEW i \in Ids, Command(i)
      PROVE  up /\ Commits
  <2>1. up
    BY <1>1 DEF Command, Add, Configure, Halt, StartSession, Begin
  <2> QED
    BY <1>1, <2>1, CommandCommits DEF Commits
<1>2. ASSUME NEW i \in Ids, Proceed(i)
      PROVE  up /\ Commits
  <2>1. op[i].step # "none"
    BY <1>2 DEF Proceed, Updated, UpdateFails, ConfigureRejected, Settled, LoginSaved,
                LoggedOut, CallFails, LoggedIn, Reserve, ReserveFails, Reserved,
                Provisioned, Done, AddRejected, SaveRejected, From
  <2> QED
    BY <1>2, <2>1, ProceedCommits DEF Commits, Down
<1>3. CASE Background \/ BackgroundRejected
  BY <1>3 DEF Background, BackgroundRejected, Rejected, Commits, StateEdit, Down
<1>4. CASE BackgroundDone
  BY <1>4 DEF BackgroundDone, Written, Commits, StateWrite, Down
<1>5. CASE \/ \E c \in Configs : Policy(c)
           \/ PolicySave \/ PolicySaved \/ PolicyFails \/ WriteFails \/ Exit
  BY <1>5 DEF Policy, PolicySave, PolicySaved, PolicyFails, WriteFails, Exit, Down,
              Commits
<1> QED
  BY <1>1, <1>2, <1>3, <1>4, <1>5 DEF Next

LEMMA DownStep ==
  ASSUME TypeOK, Down, [Next]_vars
  PROVE  Down'
<1>1. CASE Exit
  BY <1>1 DEF Exit, Down, NoOp, NoChange
<1>2. CASE Open
  BY <1>2 DEF Open, Down
<1>3. CASE UNCHANGED vars
  BY <1>3 DEF vars, Down
<1>4. CASE up /\ Commits /\ ~Exit
  <2>1. up' = up
    BY <1>4 DEF Commits, StateEdit, Editing, StateWrite, Waiting, WriteFails, Policy,
                PolicySave, PolicySaved, PolicyFails
  <2> QED
    BY <1>4, <2>1 DEF Down
<1> QED
  BY <1>1, <1>2, <1>3, <1>4, StepCommits

\* The chain after a save, and after its head has left it.
LEMMA Joined ==
  ASSUME TypeOK, NEW by, Save(by)
  PROVE  /\ Len(queue') = Len(queue) + 1 /\ Len(queue) \in Nat
         /\ \A k \in 1 .. Len(queue) : queue'[k] = queue[k]
         /\ queue'[Len(queue) + 1] = [state |-> mem', by |-> by]
BY DEF Save, TypeOK

LEMMA Left ==
  ASSUME TypeOK, queue # <<>>, queue' = Tail(queue)
  PROVE  /\ Len(queue') = Len(queue) - 1 /\ Len(queue) \in Nat \ {0}
         /\ \A k \in 1 .. Len(queue') : queue'[k] = queue[k + 1]
         /\ \A k \in 1 .. Len(queue') : k + 1 \in 1 .. Len(queue)
         /\ Head(queue) = queue[1] /\ 1 \in 1 .. Len(queue)
<1>1. queue \in Seq(Snapshot)
  BY DEF TypeOK
<1>2. /\ Len(queue') = Len(queue) - 1 /\ Len(queue) \in Nat \ {0}
      /\ \A k \in 1 .. Len(queue') : queue'[k] = queue[k + 1]
      /\ Head(queue) = queue[1]
  BY <1>1
<1> QED
  BY <1>2
-----------------------------------------------------------------------------
(* The policy.  Every copy of the state results in the configuration in     *)
(* force; during a policy change those from its save on in the new one, the *)
(* others in the one before.                                                *)

Before == IF changing.step = "none" THEN config ELSE changing.config

Settling ==
  changing.step # "save" =>
    /\ Effective(mem) = Before /\ Effective(disk) = Before
    /\ \A k \in 1 .. Len(queue) :
         queue[k].by # "policy" /\ Effective(queue[k].state) = Before
Saving ==
  changing.step = "save" =>
    /\ Effective(mem) = config /\ Effective(disk) = Before
    /\ \E k \in 1 .. Len(queue) :
         /\ queue[k].by = "policy"
         /\ \A l \in 1 .. Len(queue) \ {k} : queue[l].by # "policy"
         /\ \A l \in 1 .. Len(queue) :
              Effective(queue[l].state) = IF l < k THEN Before ELSE config
PolicyInv == up /\ ~torn => Settling /\ Saving

LEMMA EditPolicy ==
  ASSUME TypeOK, PolicyInv, StateEdit, up, ~torn
  PROVE  Settling' /\ Saving'
<1>1. /\ UNCHANGED <<disk, config, changing>> /\ Effective(mem') = Effective(mem)
      /\ Before' = Before
  BY DEF StateEdit, Editing, Effective, Before
<1>2. Settling /\ Saving
  BY DEF PolicyInv
<1>3. CASE UNCHANGED queue
  BY <1>1, <1>2, <1>3 DEF Settling, Saving
<1>4. ASSUME NEW by \in Ids \cup {"none"}, Save(by)
      PROVE  Settling' /\ Saving'
  <2> DEFINE n == Len(queue) + 1
  <2>1. /\ Len(queue') = n /\ n \in Nat /\ Len(queue) \in Nat
        /\ \A k \in 1 .. Len(queue) : queue'[k] = queue[k]
        /\ queue'[n] = [state |-> mem', by |-> by]
    BY <1>4, Joined
  <2>0. queue'[n].by # "policy" /\ Effective(queue'[n].state) = Effective(mem)
    BY <1>1, <2>1, ConstantsAssumption DEF ConstantsAssumption
  <2>2. \A k \in 1 .. Len(queue') : k \in 1 .. Len(queue) \/ k = n
    BY <2>1
  <2> HIDE DEF n
  <2>3. Settling'
    BY <1>1, <1>2, <2>0, <2>1, <2>2 DEF Settling
  <2>4. Saving'
    <3> SUFFICES ASSUME changing.step = "save" PROVE Saving'
      BY <1>1 DEF Saving
    <3>1. PICK k \in 1 .. Len(queue) :
            /\ queue[k].by = "policy"
            /\ \A l \in 1 .. Len(queue) \ {k} : queue[l].by # "policy"
            /\ \A l \in 1 .. Len(queue) :
                 Effective(queue[l].state) = IF l < k THEN Before ELSE config
      BY <1>2 DEF Saving
    <3>2. k \in 1 .. Len(queue') /\ queue'[k].by = "policy" /\ ~(n < k)
      BY <2>1, <3>1 DEF n
    <3>3. \A l \in 1 .. Len(queue') \ {k} : queue'[l].by # "policy"
      BY <2>0, <2>1, <2>2, <3>1
    <3>4. \A l \in 1 .. Len(queue') :
            Effective(queue'[l].state) = IF l < k THEN Before ELSE config
      BY <1>2, <2>0, <2>1, <2>2, <3>1, <3>2 DEF Saving
    <3> QED
      BY <1>1, <1>2, <3>2, <3>3, <3>4 DEF Saving
  <2> QED
    BY <2>3, <2>4
<1>5. ASSUME NEW by, Rejected(by)
      PROVE  FALSE
  BY <1>5 DEF Rejected
<1> QED
  BY <1>3, <1>4, <1>5 DEF StateEdit

LEMMA WritePolicy ==
  ASSUME TypeOK, PolicyInv, StateWrite, up, ~torn
  PROVE  Settling' /\ Saving'
<1>1. /\ UNCHANGED <<mem, config, changing>> /\ Before' = Before
  BY DEF StateWrite, Waiting, Before
<1>2. Settling /\ Saving
  BY DEF PolicyInv
<1>3. /\ queue # <<>> /\ queue' = Tail(queue) /\ disk' = Head(queue).state
      /\ Head(queue).by # "policy"
  BY ConstantsAssumption DEF StateWrite, Written, ConstantsAssumption
<1>4. /\ Len(queue') = Len(queue) - 1 /\ Len(queue) \in Nat \ {0}
      /\ \A k \in 1 .. Len(queue') : queue'[k] = queue[k + 1]
      /\ \A k \in 1 .. Len(queue') : k + 1 \in 1 .. Len(queue)
      /\ Head(queue) = queue[1] /\ 1 \in 1 .. Len(queue)
  BY <1>3, Left
<1>5. Settling'
  BY <1>1, <1>2, <1>3, <1>4 DEF Settling
<1>6. Saving'
  <2> SUFFICES ASSUME changing.step = "save" PROVE Saving'
    BY <1>1 DEF Saving
  <2>1. PICK k \in 1 .. Len(queue) :
          /\ queue[k].by = "policy"
          /\ \A l \in 1 .. Len(queue) \ {k} : queue[l].by # "policy"
          /\ \A l \in 1 .. Len(queue) :
               Effective(queue[l].state) = IF l < k THEN Before ELSE config
    BY <1>2 DEF Saving
  <2>2. 1 < k /\ Effective(disk') = Before
    BY <1>3, <1>4, <2>1
  <2> DEFINE h == k - 1
  <2>3. h \in 1 .. Len(queue') /\ h + 1 = k
    BY <1>4, <2>1, <2>2
  <2>4. queue'[h].by = "policy"
    BY <1>4, <2>1, <2>3
  <2>5. \A l \in 1 .. Len(queue') \ {h} : queue'[l].by # "policy"
    BY <1>4, <2>1
  <2>6. \A l \in 1 .. Len(queue') :
          Effective(queue'[l].state) = IF l < h THEN Before ELSE config
    BY <1>4, <2>1, <2>3
  <2> HIDE DEF h
  <2> QED
    BY <1>1, <1>2, <2>2, <2>3, <2>4, <2>5, <2>6 DEF Saving
<1> QED
  BY <1>5, <1>6

LEMMA PolicyStep ==
  ASSUME TypeOK, Down, PolicyInv, [Next]_vars
  PROVE  PolicyInv'
<1> SUFFICES ASSUME up', ~torn' PROVE Settling' /\ Saving'
  BY DEF PolicyInv
<1>0. queue \in Seq(Snapshot)
  BY DEF TypeOK
<1>1. CASE UNCHANGED vars
  BY <1>1 DEF vars, PolicyInv, Settling, Saving, Before, Effective
<1>2. CASE Open
  BY <1>0, <1>2 DEF Open, Down, Settling, Saving, Before, Effective
<1>3. CASE up /\ StateEdit
  BY <1>3, EditPolicy DEF StateEdit, Editing
<1>4. CASE up /\ StateWrite
  BY <1>4, WritePolicy DEF StateWrite, Waiting
<1>5. CASE WriteFails \/ Exit
  BY <1>5 DEF WriteFails, Exit
<1>6. ASSUME up, NEW c \in Configs, Policy(c)
      PROVE  Settling' /\ Saving'
  BY <1>6 DEF Policy, PolicyInv, Settling, Saving, Before, Effective
<1>7. CASE up /\ PolicySave
  <2>1. /\ changing.step = "squid" /\ changing'.step = "save" /\ UNCHANGED config
        /\ changing'.config = changing.config /\ UNCHANGED <<disk, torn>>
        /\ mem' = [mem EXCEPT !.policy = config] /\ Save("policy")
    BY <1>7 DEF PolicySave, TypeOK
  <2>2. Effective(mem') = config /\ Before' = Before
    BY <2>1, ConstantsAssumption
       DEF Effective, Before, TypeOK, Registry, ConstantsAssumption
  <2>3. /\ Len(queue') = Len(queue) + 1 /\ Len(queue) \in Nat
        /\ \A k \in 1 .. Len(queue) : queue'[k] = queue[k]
        /\ queue'[Len(queue) + 1] = [state |-> mem', by |-> "policy"]
    BY <2>1, Joined
  <2>4. /\ Effective(disk) = Before
        /\ \A k \in 1 .. Len(queue) :
             queue[k].by # "policy" /\ Effective(queue[k].state) = Before
    BY <1>7, <2>1 DEF PolicyInv, Settling
  <2> DEFINE n == Len(queue) + 1
  <2>5. /\ n \in 1 .. Len(queue') /\ queue'[n].by = "policy"
        /\ queue'[n].state = mem'
    BY <2>3
  <2>6. \A l \in 1 .. Len(queue') : l # n => l < n /\ queue'[l] = queue[l]
                                           /\ l \in 1 .. Len(queue)
    BY <2>3
  <2> HIDE DEF n
  <2>7. /\ \A l \in 1 .. Len(queue') \ {n} : queue'[l].by # "policy"
        /\ \A l \in 1 .. Len(queue') :
             Effective(queue'[l].state) = IF l < n THEN Before ELSE config
    BY <2>2, <2>4, <2>5, <2>6
  <2> QED
    BY <2>1, <2>2, <2>4, <2>5, <2>7 DEF Settling, Saving, Effective
<1>8. CASE up /\ PolicySaved
  <2>1. /\ changing.step = "save" /\ changing'.step = "none" /\ UNCHANGED <<mem, config>>
        /\ queue # <<>> /\ queue' = Tail(queue) /\ disk' = Head(queue).state
        /\ Head(queue).by = "policy" /\ ~torn
    BY <1>8 DEF PolicySaved, Written, NoChange
  <2>2. /\ Len(queue') = Len(queue) - 1 /\ Len(queue) \in Nat \ {0}
        /\ \A k \in 1 .. Len(queue') : queue'[k] = queue[k + 1]
        /\ \A k \in 1 .. Len(queue') : k + 1 \in 1 .. Len(queue)
        /\ Head(queue) = queue[1] /\ 1 \in 1 .. Len(queue)
    BY <2>1, Left
  <2>3. PICK k \in 1 .. Len(queue) :
          /\ queue[k].by = "policy"
          /\ \A l \in 1 .. Len(queue) \ {k} : queue[l].by # "policy"
          /\ \A l \in 1 .. Len(queue) :
               Effective(queue[l].state) = IF l < k THEN Before ELSE config
    BY <1>8, <2>1 DEF PolicyInv, Saving
  <2>4. k = 1
    BY <2>1, <2>2, <2>3
  <2>5. Effective(disk') = config /\ Effective(mem) = config
    BY <1>8, <2>1, <2>2, <2>3, <2>4 DEF PolicyInv, Saving
  <2>6. \A l \in 1 .. Len(queue') :
          queue'[l].by # "policy" /\ Effective(queue'[l].state) = config
    BY <2>2, <2>3, <2>4
  <2> QED
    BY <2>1, <2>5, <2>6 DEF Settling, Saving, Before, Effective
<1>9. CASE up /\ PolicyFails
  <2>1. changing.step = "squid" /\ UNCHANGED queue
    BY <1>9 DEF PolicyFails, Rejected
  <2> QED
    BY <1>9, <2>1 DEF PolicyFails, NoChange, PolicyInv, Settling, Saving, Before,
                      Effective
<1> QED
  BY <1>1, <1>2, <1>3, <1>4, <1>5, <1>6, <1>7, <1>8, <1>9, StepCommits DEF Commits

\* PolicyInv is an invariant, and so is what holds while the process is down.
THEOREM PolicyHolds == Spec => [](TypeOK /\ Down /\ PolicyInv)
<1>1. Init => Down /\ PolicyInv
  BY DEF Init, Down, PolicyInv, Settling, Saving, Before, Effective, Empty, NoChange
<1>2. TypeOK /\ Down /\ PolicyInv /\ [Next]_vars => Down' /\ PolicyInv'
  BY DownStep, PolicyStep
<1> QED
  BY <1>1, <1>2, Typing, PTL DEF Spec

\* Outside a policy change the configuration in force is what a restart would come
\* up with, until a write fails (applyPolicy, manager.ts).
THEOREM PolicySurvives == Spec => []PolicyDurable
<1>1. PolicyInv => PolicyDurable
  BY DEF PolicyInv, Settling, Before, PolicyDurable
<1> QED
  BY <1>1, PolicyHolds, PTL
-----------------------------------------------------------------------------
(* The chain of writes, for any property G of a state: what memory has, the *)
(* chain and the disk come to have, whatever write a crash leaves as the    *)
(* last.                                                                    *)

Chained(G) ==
  disk \in G /\ (~torn => \A k \in 1 .. Len(queue) : queue[k].state \in G)

LEMMA ChainedStep ==
  ASSUME TypeOK, Down, [Next]_vars, NEW G, Chained(G), up' /\ ~torn' => mem' \in G
  PROVE  Chained(G)'
<1>1. CASE UNCHANGED vars
  BY <1>1 DEF vars, Chained
<1>2. CASE Open
  BY <1>2 DEF Open, Chained
<1>3. ASSUME up', NEW by, Save(by), UNCHANGED <<disk, torn>>
      PROVE  Chained(G)'
  <2>1. /\ Len(queue') = Len(queue) + 1 /\ Len(queue) \in Nat
        /\ \A k \in 1 .. Len(queue) : queue'[k] = queue[k]
        /\ queue'[Len(queue) + 1] = [state |-> mem', by |-> by]
    BY <1>3, Joined
  <2>2. \A k \in 1 .. Len(queue') : k \in 1 .. Len(queue) \/ k = Len(queue) + 1
    BY <2>1
  <2>3. ~torn => \A k \in 1 .. Len(queue') : queue'[k].state \in G
    BY <1>3, <2>1, <2>2 DEF Chained
  <2> QED
    BY <1>3, <2>3 DEF Chained
<1>4. CASE /\ queue # <<>> /\ queue' = Tail(queue) /\ torn' = torn
           /\ disk' = disk \/ (~torn /\ disk' = Head(queue).state)
  BY <1>4, Left DEF Chained
<1>5. CASE UNCHANGED <<disk, torn, queue>>
  BY <1>5 DEF Chained
<1>6. CASE up /\ StateEdit
  <2>1. disk' = disk /\ torn' = torn /\ up'
    BY <1>6 DEF StateEdit, Editing
  <2>2. CASE UNCHANGED queue
    BY <1>5, <2>1, <2>2
  <2>3. ASSUME NEW by, Save(by)
        PROVE  Chained(G)'
    BY <1>3, <1>6, <2>1, <2>3
  <2>4. ASSUME NEW by, Rejected(by)
        PROVE  Chained(G)'
    BY <1>4, <2>1, <2>4 DEF Rejected
  <2> QED
    BY <1>6, <2>2, <2>3, <2>4 DEF StateEdit
<1>7. CASE up /\ StateWrite
  BY <1>4, <1>7 DEF StateWrite, Waiting, Written
<1>8. CASE WriteFails \/ Exit
  <2>1. queue \in Seq(Snapshot)
    BY DEF TypeOK
  <2>2. queue # <<>> => 1 \in 1 .. Len(queue) /\ Head(queue) = queue[1]
    BY <2>1
  <2> QED
    BY <1>8, <2>2 DEF WriteFails, Exit, Chained
<1>9. CASE up /\ PolicySave
  BY <1>3, <1>9 DEF PolicySave
<1>10. CASE up /\ PolicySaved
  BY <1>4, <1>10 DEF PolicySaved, Written
<1>11. CASE up /\ PolicyFails
  <2>1. disk' = disk /\ torn' = torn
    BY <1>11 DEF PolicyFails
  <2>2. CASE UNCHANGED queue
    BY <1>5, <2>1, <2>2
  <2>3. CASE Rejected("policy")
    BY <1>4, <2>1, <2>3 DEF Rejected
  <2> QED
    BY <1>11, <2>2, <2>3 DEF PolicyFails
<1>12. ASSUME NEW c, Policy(c)
       PROVE  Chained(G)'
  BY <1>5, <1>12 DEF Policy
<1> QED
  BY <1>1, <1>2, <1>6, <1>7, <1>8, <1>9, <1>10, <1>11, <1>12, StepCommits DEF Commits
-----------------------------------------------------------------------------
(* What validateState asks of each session, beside the ledger.             *)

Within == Base.min .. Base.max
\* The console's policies only narrow the hours of the environment.
Narrow == \A c \in Configs : c.min .. c.max \subseteq Within

Valid(s) ==
  /\ s.listener \in Pool /\ s.socks \in {0} \cup Pool /\ s.listener # s.socks
  /\ s.hours \in Within /\ (s.name = None => ~s.desired)
ValidStates == {m \in Registry : \A i \in Known(m) : Valid(m.session[i])}

\* What an operation at one of its steps knows of its session: the name is there
\* before the session is desired, and hours to go back to are valid ones.
ReadyFor(o, s) ==
  /\ o.step = "identity" => s.user # None \/ s.name # None
  /\ o.step \in {"login_save", "reserve", "provision"} => s.name # None
  /\ o.step \in {"update", "configure"} => o.hours \in Within
Ready == \A i \in Ids : ReadyFor(op[i], mem.session[i])
Sane == mem \in ValidStates /\ Ready

\* One session and its operation change.
LEMMA OneChanges ==
  ASSUME TypeOK, mem' \in Registry, Sane, NEW i \in Ids, NEW s, NEW o,
         mem'.session = [mem.session EXCEPT ![i] = s], op' = [op EXCEPT ![i] = o],
         s.listener # 0 => Valid(s), ReadyFor(o, s)
  PROVE  Sane'
<1>1. mem.session \in [Ids -> Session] /\ op \in [Ids -> OpType]
  BY DEF TypeOK, Registry, OpType
<1>2. \A j \in Ids : /\ mem'.session[j] = IF j = i THEN s ELSE mem.session[j]
                     /\ op'[j] = IF j = i THEN o ELSE op[j]
  BY <1>1
<1>3. \A j \in Known(mem') : Valid(mem'.session[j])
  BY <1>2 DEF Sane, ValidStates, Known
<1>4. Ready'
  BY <1>2 DEF Sane, Ready
<1> QED
  BY <1>3, <1>4 DEF Sane, ValidStates

\* The session that an operation is about.
LEMMA OwnSession ==
  ASSUME TypeOK, Sane, NEW i \in Ids
  PROVE  /\ mem.session[i] \in Session /\ op[i] \in OpType
         /\ mem.session[i].listener # 0 => Valid(mem.session[i])
         /\ ReadyFor(op[i], mem.session[i])
         /\ \A step \in Steps : [op[i] EXCEPT !.step = step].step = step
         /\ \A step \in Steps : [op[i] EXCEPT !.step = step].hours = op[i].hours
BY SessionType DEF Sane, Ready, ValidStates, Known, OpType

LEMMA HoursWithin ==
  ASSUME Narrow, TypeOK
  PROVE  config.min .. config.max \subseteq Within /\ config.default \in Within
BY ConstantsAssumption DEF Narrow, Within, TypeOK, ConstantsAssumption

\* An edit of the hours, the user, the name or the flags of a session.
LEMMA EditSane ==
  ASSUME TypeOK, TypeOK', Sane, NEW i \in Ids, NEW s \in Session, NEW o, Edit(i, s),
         op' = [op EXCEPT ![i] = o],
         s.listener = mem.session[i].listener, s.socks = mem.session[i].socks,
         s.hours \in Within \/ s.hours = mem.session[i].hours,
         s.name = mem.session[i].name \/ s.name # None,
         s.desired => s.name # None \/ mem.session[i].desired,
         ReadyFor(o, s)
  PROVE  Sane'
<1>1. mem'.session = [mem.session EXCEPT ![i] = s] /\ mem' \in Registry
  BY EditKeeps DEF TypeOK
<1>2. s.listener # 0 => Valid(s)
  BY OwnSession DEF Valid, Session
<1> QED
  BY <1>1, <1>2, OneChanges

\* A step that leaves the state in memory alone.
LEMMA WaitSane ==
  ASSUME TypeOK, TypeOK', Sane, NEW i \in Ids, NEW o, UNCHANGED mem,
         op' = [op EXCEPT ![i] = o], ReadyFor(o, mem.session[i])
  PROVE  Sane'
<1>1. /\ mem'.session = [mem.session EXCEPT ![i] = mem.session[i]]
      /\ mem' \in Registry
  BY DEF TypeOK, Registry
<1> QED
  BY <1>1, OwnSession, OneChanges

LEMMA FailSane ==
  ASSUME TypeOK, TypeOK', Sane, NEW i \in Ids, NEW s \in Session, FailAs(i, s),
         s.listener = mem.session[i].listener, s.socks = mem.session[i].socks,
         s.hours = mem.session[i].hours, s.desired = mem.session[i].desired,
         s.name = mem.session[i].name \/ s.name # None
  PROVE  Sane'
<1> DEFINE r == [s EXCEPT !.removed = FALSE]
<1>1. /\ r \in Session /\ r.listener = s.listener /\ r.socks = s.socks
      /\ r.hours = s.hours /\ r.desired = s.desired /\ r.name = s.name
  BY DEF Session
<1>2. Edit(i, r) /\ op' = [op EXCEPT ![i] = NoOp]
  BY DEF FailAs
<1> HIDE DEF r
<1> QED
  BY <1>1, <1>2, EditSane DEF ReadyFor, NoOp

LEMMA CommandSane ==
  ASSUME Narrow, TypeOK, TypeOK', Sane, NEW i \in Ids, Command(i)
  PROVE  Sane'
<1> DEFINE s == mem.session[i]
           Gone(step) == [op[i] EXCEPT !.step = step]
<1>0. s \in Session /\ (s.listener # 0 => Valid(s))
  BY OwnSession
<1>1. ASSUME NEW name \in Names \cup {None},
             NEW hours \in Hours \cup {config.default}, Add(i, name, hours)
      PROVE  Sane'
  <2> DEFINE a == Added(name, hours)
  <2>1. /\ mem' \in Registry /\ mem.next \in Start .. End + 1 /\ config \in Config
        /\ Start \in Nat \ {0} /\ End \in Nat
    BY ConstantsAssumption DEF TypeOK, Registry, ConstantsAssumption
  <2>2. mem.next <= End /\ (config.socks => mem.next + 1 <= End)
    BY <1>1, <2>1, PendingFinite DEF Add, Room, Config
  <2>3. /\ a.listener = mem.next /\ a.desired = FALSE
        /\ a.socks = IF config.socks THEN mem.next + 1 ELSE 0
        /\ a.hours \in Within
    BY HoursWithin DEF Added
  <2>4. mem'.session = [mem.session EXCEPT ![i] = a]
    BY <1>1 DEF Add, TypeOK, Registry
  <2> HIDE DEF a
  <2>5. Valid(a)
    BY <2>1, <2>2, <2>3 DEF Valid, Pool
  <2>6. op' = [op EXCEPT ![i] = Gone("add")] \/ op' = [op EXCEPT ![i] = op[i]]
    BY <1>1 DEF Add, Go, TypeOK
  <2>7. ReadyFor(Gone("add"), a) /\ ReadyFor(op[i], a)
    BY <1>1, OwnSession DEF ReadyFor, Add, Begin, At, Steps
  <2> HIDE DEF Gone
  <2> QED
    BY <2>1, <2>4, <2>5, <2>6, <2>7, OneChanges
<1>2. ASSUME NEW hours \in Hours, NEW step \in {"update", "configure"},
             Configure(i, hours, step)
      PROVE  Sane'
  <2> DEFINE t == [s EXCEPT !.hours = hours]
             o == [step |-> step, hours |-> s.hours]
  <2>1. hours \in Within /\ hours \in Nat
    BY <1>2, HoursWithin, ConstantsAssumption DEF Configure, ConstantsAssumption
  <2>2. /\ t \in Session /\ t.listener = s.listener /\ t.socks = s.socks
        /\ t.name = s.name /\ t.desired = s.desired /\ t.hours = hours
    BY <1>0, <2>1 DEF Session
  <2>3. Edit(i, t) /\ op' = [op EXCEPT ![i] = o]
    BY <1>2 DEF Configure
  <2>4. s.hours \in Within
    BY <1>0, <1>2 DEF Configure, OnLive, Live, Known, Valid
  <2>5. ReadyFor(o, t)
    BY <2>4 DEF ReadyFor
  <2> HIDE DEF t, o
  <2> QED
    BY <2>1, <2>2, <2>3, <2>5, EditSane
<1>3. ASSUME NEW step \in {"stop", "login", "logout", "remove"}, Halt(i, step)
      PROVE  Sane'
  <2> DEFINE t == [s EXCEPT !.desired = FALSE]
  <2>1. /\ t \in Session /\ t.listener = s.listener /\ t.socks = s.socks
        /\ t.name = s.name /\ t.desired = FALSE /\ t.hours = s.hours
    BY <1>0 DEF Session
  <2>2. Edit(i, t) /\ op' = [op EXCEPT ![i] = Gone(step)]
    BY <1>3 DEF Halt, Go
  <2>3. ReadyFor(Gone(step), t)
    BY OwnSession DEF ReadyFor, Steps
  <2> HIDE DEF t, Gone
  <2> QED
    BY <2>1, <2>2, <2>3, EditSane
<1>4. CASE StartSession(i)
  <2>1. ReadyFor(Gone("identity"), s)
    BY <1>4, OwnSession DEF StartSession, ReadyFor, Steps
  <2>2. op' = [op EXCEPT ![i] = Gone("identity")] /\ UNCHANGED mem
    BY <1>4 DEF StartSession, Go
  <2> HIDE DEF Gone
  <2> QED
    BY <2>1, <2>2, WaitSane
<1> QED
  BY <1>1, <1>2, <1>3, <1>4 DEF Command

LEMMA ProceedSane ==
  ASSUME TypeOK, TypeOK', LedgerInv, Sane, NEW i \in Ids, Proceed(i)
  PROVE  Sane'
<1> DEFINE s == mem.session[i]
           Gone(step) == [op[i] EXCEPT !.step = step]
<1>0. /\ s \in Session /\ (s.listener # 0 => Valid(s)) /\ ReadyFor(op[i], s)
      /\ \A step \in Steps : Gone(step).step = step /\ Gone(step).hours = op[i].hours
      /\ ReadyFor(NoOp, s) /\ (op[i].step # "none" => s.listener # 0)
  BY OwnSession DEF ReadyFor, NoOp, LedgerInv, Known
<1>1. CASE Updated(i)
  <2>1. ReadyFor([step |-> "add", hours |-> 0], s)
    BY DEF ReadyFor
  <2> QED
    BY <1>1, <2>1, WaitSane DEF Updated
<1>2. CASE UpdateFails(i) \/ ConfigureRejected(i)
  <2> DEFINE t == [s EXCEPT !.hours = op[i].hours]
  <2>1. op[i].hours \in Within /\ op[i].hours \in Nat
    BY <1>0, <1>2, OwnSession DEF UpdateFails, ConfigureRejected, From, ReadyFor, OpType
  <2>2. /\ t \in Session /\ t.listener = s.listener /\ t.socks = s.socks
        /\ t.name = s.name /\ t.desired = s.desired /\ t.hours = op[i].hours
    BY <1>0, <2>1 DEF Session
  <2>3. Edit(i, t) /\ op' = [op EXCEPT ![i] = NoOp] /\ ReadyFor(NoOp, t)
    BY <1>2 DEF UpdateFails, ConfigureRejected, Rollback, ReadyFor, NoOp
  <2> HIDE DEF t
  <2> QED
    BY <2>1, <2>2, <2>3, EditSane
<1>3. ASSUME NEW step \in {"save", "none", "identity"}, Go(i, step), UNCHANGED mem,
             step = "identity" => s.name # None
      PROVE  Sane'
  <2>1. ReadyFor(Gone(step), s)
    BY <1>0, <1>3 DEF ReadyFor, Steps
  <2>2. op' = [op EXCEPT ![i] = Gone(step)]
    BY <1>3 DEF Go
  <2> HIDE DEF Gone
  <2> QED
    BY <1>3, <2>1, <2>2, WaitSane
<1>4. CASE Settled(i)
  BY <1>3, <1>4 DEF Settled
<1>5. CASE LoginSaved(i)
  BY <1>0, <1>3, <1>5 DEF LoginSaved, From, ReadyFor, Waiting
<1>6. CASE LoggedOut(i)
  <2> DEFINE t == [s EXCEPT !.removed = At(i, "remove")]
  <2>1. /\ t \in Session /\ t.listener = s.listener /\ t.socks = s.socks
        /\ t.name = s.name /\ t.desired = s.desired /\ t.hours = s.hours
    BY <1>0 DEF Session, At
  <2>2. Edit(i, t) /\ op' = [op EXCEPT ![i] = Gone("squid")]
    BY <1>6 DEF LoggedOut, Go
  <2>3. ReadyFor(Gone("squid"), t)
    BY <1>0 DEF ReadyFor, Steps
  <2> HIDE DEF t, Gone
  <2> QED
    BY <2>1, <2>2, <2>3, EditSane
<1>7. CASE CallFails(i) \/ SaveRejected(i)
  BY <1>0, <1>7, FailSane DEF CallFails, SaveRejected, Fail
<1>8. ASSUME NEW user \in Names, LoggedIn(i, user)
      PROVE  Sane'
  <2> DEFINE t == [s EXCEPT !.user = user]
             r == Resolved(t)
  <2>1. /\ t \in Session /\ t.listener = s.listener /\ t.socks = s.socks
        /\ t.name = s.name /\ t.desired = s.desired /\ t.hours = s.hours
        /\ t.user = user
    BY <1>0 DEF Session
  <2>2. CASE Edit(i, r) /\ Go(i, "login_save")
    <3>1. /\ r \in Session /\ r.listener = s.listener /\ r.socks = s.socks
          /\ r.name # None /\ r.desired = s.desired /\ r.hours = s.hours
      BY <2>1, ConstantsAssumption DEF Resolved, Session, ConstantsAssumption
    <3>2. ReadyFor(Gone("login_save"), r) /\ op' = [op EXCEPT ![i] = Gone("login_save")]
      BY <1>0, <2>2, <3>1 DEF ReadyFor, Steps, Go
    <3> HIDE DEF r, t, Gone
    <3> QED
      BY <2>2, <3>1, <3>2, EditSane
  <2>3. CASE FailAs(i, t)
    <3> HIDE DEF t
    <3> QED
      BY <2>1, <2>3, FailSane
  <2> QED
    BY <1>8, <2>2, <2>3 DEF LoggedIn
<1>9. ASSUME op[i].step = "identity", CanResolve(i, s)
      PROVE  /\ Resolved(s) \in Session /\ Resolved(s).name # None
             /\ Resolved(s).listener = s.listener /\ Resolved(s).socks = s.socks
             /\ Resolved(s).desired = s.desired /\ Resolved(s).hours = s.hours
  <2>1. s.user # None \/ s.name # None
    BY <1>0, <1>9 DEF ReadyFor
  <2> QED
    BY <1>0, <2>1 DEF Resolved, Session
<1>10. CASE Reserve(i)
  <2> DEFINE r == Resolved(s)
             socks == config.socks /\ s.socks = 0
             t == IF socks THEN [r EXCEPT !.socks = mem.next] ELSE r
  <2>1. /\ mem' \in Registry /\ mem.next \in Start .. End + 1
        /\ Start \in Nat \ {0} /\ End \in Nat
    BY ConstantsAssumption DEF TypeOK, Registry, ConstantsAssumption
  <2>2. /\ r \in Session /\ r.name # None /\ r.listener = s.listener
        /\ r.socks = s.socks /\ r.desired = s.desired /\ r.hours = s.hours
    BY <1>9, <1>10 DEF Reserve, From
  <2>3. socks => mem.next <= End
    BY <1>10 DEF Reserve, PoolLeft
  <2>4. mem'.session = [mem.session EXCEPT ![i] = t] /\ Go(i, "reserve")
    BY <1>10 DEF Reserve, TypeOK, Registry
  <2>5. Valid(s) /\ s.listener < mem.next
    BY <1>0, <1>10 DEF Reserve, From, LedgerInv, Assigned
  <2> HIDE DEF r, s
  <2>6. /\ t.listener = s.listener /\ t.name # None /\ t.desired = s.desired
        /\ t.hours = s.hours /\ t.socks = IF socks THEN mem.next ELSE s.socks
    BY <2>2 DEF Session
  <2> HIDE DEF t
  <2>7. Valid(t)
    BY <2>1, <2>3, <2>5, <2>6 DEF Valid, Pool
  <2>8. ReadyFor(Gone("reserve"), t) /\ op' = [op EXCEPT ![i] = Gone("reserve")]
    BY <1>0, <2>4, <2>6 DEF ReadyFor, Steps, Go
  <2> HIDE DEF Gone
  <2> QED
    BY <2>1, <2>4, <2>7, <2>8, OneChanges
<1>11. CASE ReserveFails(i)
  BY <1>0, <1>9, <1>11, FailSane DEF ReserveFails, Fail, From
<1>12. CASE Reserved(i)
  <2>1. ReadyFor(Gone("provision"), s)
    BY <1>0, <1>12 DEF ReadyFor, Steps, Reserved, From
  <2>2. op' = [op EXCEPT ![i] = Gone("provision")] /\ UNCHANGED mem
    BY <1>12 DEF Go, Reserved, Waiting
  <2> HIDE DEF Gone
  <2> QED
    BY <2>1, <2>2, WaitSane
<1>13. CASE Provisioned(i)
  <2> DEFINE t == [s EXCEPT !.desired = TRUE]
  <2>1. /\ t \in Session /\ t.listener = s.listener /\ t.socks = s.socks
        /\ t.name = s.name /\ t.hours = s.hours
    BY <1>0 DEF Session
  <2>2. Edit(i, t) /\ op' = [op EXCEPT ![i] = Gone("save")]
    BY <1>13 DEF Provisioned, Go
  <2>3. ReadyFor(Gone("save"), t) /\ t.name # None
    BY <1>0, <1>13, <2>1 DEF ReadyFor, Steps, Provisioned, From
  <2> HIDE DEF t, Gone
  <2> QED
    BY <2>1, <2>2, <2>3, EditSane
<1>14. CASE Done(i) \/ AddRejected(i)
  BY <1>0, <1>14, WaitSane DEF Done, AddRejected, Waiting
<1> QED
  BY <1>1, <1>2, <1>4, <1>5, <1>6, <1>7, <1>8, <1>10, <1>11, <1>12, <1>13, <1>14
     DEF Proceed

LEMMA LedgerAlways == Spec => []LedgerInv
<1>1. TypeOK /\ TypeOK' /\ LedgerInv /\ [Next]_vars => LedgerInv'
  BY RegistryLedger DEF LedgerStep
<1> QED
  BY <1>1, LedgerInit, Typing, PTL DEF Spec

SaneInv == Sane /\ Chained(ValidStates)

LEMMA SaneStep ==
  ASSUME Narrow, TypeOK, TypeOK', Down, LedgerInv, SaneInv, [Next]_vars
  PROVE  SaneInv'
<1>1. ASSUME UNCHANGED <<mem, op>>
      PROVE  Sane'
  BY <1>1 DEF SaneInv, Sane, Ready
<1>2. ASSUME NEW i \in Ids, Command(i) \/ Proceed(i)
      PROVE  Sane'
  BY <1>2, CommandSane, ProceedSane DEF SaneInv
<1>3. ASSUME PolicySave PROVE Sane'
  <2>1. mem'.session = mem.session /\ mem' \in Registry /\ UNCHANGED op
    BY <1>3 DEF PolicySave, TypeOK, Registry
  <2> QED
    BY <2>1 DEF SaneInv, Sane, Ready, ValidStates, Known
<1>4. ASSUME Open PROVE Sane'
  <2>1. \A i \in Ids : op'[i].step \in {"none", "identity"}
    BY <1>4 DEF Open, NoOp
  <2>2. ASSUME NEW i \in Ids, op'[i].step = "identity"
        PROVE  mem.session[i].name # None
    <3>1. i \in Known(mem) /\ mem.session[i].desired
      BY <1>4, <2>2 DEF Open, NoOp, Live
    <3> QED
      BY <3>1 DEF SaneInv, Sane, ValidStates, Valid
  <2>3. Ready'
    BY <1>4, <2>1, <2>2 DEF Open, Ready, ReadyFor
  <2> QED
    BY <1>4, <2>3 DEF Open, SaneInv, Sane
<1>5. ASSUME up' => mem' \in ValidStates
      PROVE  Chained(ValidStates)'
  BY <1>5, ChainedStep DEF SaneInv
<1>6. CASE Exit
  <2>1. Chained(ValidStates)' /\ mem' = disk'
    BY <1>5, <1>6 DEF Exit
  <2>2. Ready'
    BY <1>6 DEF Exit, Ready, ReadyFor, NoOp
  <2> QED
    BY <2>1, <2>2 DEF SaneInv, Sane, Chained
<1>7. CASE ~Exit
  <2>1. Sane'
    BY <1>1, <1>2, <1>3, <1>4, <1>7
       DEF Next, vars, Background, BackgroundDone, BackgroundRejected, WriteFails,
           Policy, PolicySaved, PolicyFails, Editing, Waiting
  <2> QED
    BY <1>5, <2>1 DEF SaneInv, Sane
<1> QED
  BY <1>6, <1>7

\* A restart finds nothing to refuse: two sessions on disk share no listener and no
\* name, all are within the pool, below its cursor and within the hours allowed, and
\* none is desired before it has a name (validateState, state.ts), provided that the
\* policies of the console allow no hours that the environment does not.
THEOREM RestartsAccepted ==
  ASSUME Narrow
  PROVE  Spec => []RestartAccepted
<1>1. Init => SaneInv
  <2> SUFFICES ASSUME Init PROVE SaneInv
    OBVIOUS
  <2>1. Empty \in ValidStates
    BY ConstantsAssumption
       DEF ConstantsAssumption, Empty, Registry, NoSession, Session, ValidStates, Known
  <2>2. Ready
    BY DEF Init, Ready, ReadyFor, NoOp
  <2> QED
    BY <2>1, <2>2 DEF Init, SaneInv, Sane, Chained
<1>2. TypeOK /\ TypeOK' /\ Down /\ LedgerInv /\ SaneInv /\ [Next]_vars => SaneInv'
  BY SaneStep
<1>3. TypeOK /\ LedgerInv /\ SaneInv => RestartAccepted
  <2> SUFFICES ASSUME TypeOK, LedgerInv, SaneInv PROVE Acceptable(disk, Base)
    BY DEF RestartAccepted
  <2>1. disk \in Registry /\ \A i \in Known(disk) : Valid(disk.session[i])
    BY DEF SaneInv, Chained, ValidStates
  <2>2. ASSUME NEW i \in Known(disk), NEW j \in Known(disk), i # j,
               NEW r \in Owned(disk.session[i]), r \in Owned(disk.session[j])
        PROVE  FALSE
    <3>1. r \in Resources
      BY <2>1, <2>2 DEF Owned, Valid, Registry, Session, Resources, Known
    <3>2. <<i, r>> \in Reservations(mem) /\ <<j, r>> \in Reservations(mem)
      BY <2>2, <3>1 DEF LedgerInv, Below, Reservations, Known
    <3> QED
      BY <2>2, <3>2 DEF LedgerInv, Audit!OneOwner
  <2>3. disk.next \in Start .. End + 1
    BY <2>1 DEF Registry
  <2> QED
    BY <2>1, <2>2, <2>3 DEF Acceptable, Valid, Within, LedgerInv, Assigned, Known
<1> QED
  BY <1>1, <1>2, <1>3, LedgerAlways, PolicyHolds, PTL DEF Spec
-----------------------------------------------------------------------------
(* Room.  A policy change is accepted when everybody fits under it; from    *)
(* then on add and start keep it so, for the policy in force and for the    *)
(* one that a refused change goes back to.                                  *)

RoomyStates == {m \in Registry : Fits(m, Effective(m))}

\* Whose operation is at a step that counts on the session is not a tombstone.
Busy ==
  \A i \in Ids : op[i].step \notin {"none", "squid", "save"} => i \in Live(mem)
Alone == changing.step # "none" => \A i \in Ids : op[i].step = "none"
Fitting ==
  up /\ ~revived =>
    Fits(mem, config) /\ (changing.step # "none" => Fits(mem, changing.config))
RoomInv == Busy /\ Alone /\ Fitting /\ (~revived => Chained(RoomyStates))

LEMMA LiveFinite ==
  ASSUME NEW m
  PROVE  IsFiniteSet(Live(m)) /\ IsFiniteSet(Pending(m))
<1>1. Live(m) \subseteq Ids /\ Pending(m) \subseteq Ids /\ IsFiniteSet(Ids)
  BY ConstantsAssumption DEF Pending, Live, Known, ConstantsAssumption
<1> QED
  BY <1>1, FS_Subset

\* No session comes to life or loses its listener.
LEMMA FitsFewer ==
  ASSUME NEW m, NEW n, NEW c \in Config, Live(n) \subseteq Live(m),
         Pending(n) \subseteq Pending(m), n.next = m.next, n.next \in Nat, Fits(m, c)
  PROVE  Fits(n, c)
<1>1. /\ Cardinality(Live(n)) <= Cardinality(Live(m))
      /\ Cardinality(Pending(n)) <= Cardinality(Pending(m))
  BY LiveFinite, FS_Subset
<1>2. /\ Cardinality(Live(n)) \in Nat /\ Cardinality(Live(m)) \in Nat
      /\ Cardinality(Pending(n)) \in Nat /\ Cardinality(Pending(m)) \in Nat
  BY PendingFinite
<1>3. c.limit \in Nat /\ End \in Nat
  BY ConstantsAssumption DEF Config, ConstantsAssumption
<1> QED
  BY <1>1, <1>2, <1>3 DEF Fits

\* An operation that ends or goes on, and what becomes of its session.
Turns(i, s, step) ==
  /\ mem'.session = [mem.session EXCEPT ![i] = s] /\ mem'.policy = mem.policy
  /\ \A j \in Ids \ {i} : op'[j] = op[j]
  /\ op'[i].step = step
  /\ step \notin {"none", "squid", "save"} => s.listener # 0 /\ ~s.removed
  /\ UNCHANGED <<config, changing, up>> /\ changing.step = "none"

LEMMA TurnBusy ==
  ASSUME TypeOK, RoomInv, NEW i \in Ids, NEW s, NEW step, Turns(i, s, step)
  PROVE  Busy' /\ Alone'
<1>1. \A j \in Ids : mem'.session[j] = IF j = i THEN s ELSE mem.session[j]
  BY DEF Turns, TypeOK, Registry
<1> QED
  BY <1>1 DEF Turns, RoomInv, Busy, Alone, Live, Known

LEMMA TurnFits ==
  ASSUME TypeOK, RoomInv, NEW i \in Ids, NEW s, NEW step, Turns(i, s, step),
         mem'.next = mem.next, revived' \/ (mem.session[i].removed => s.removed),
         revived => revived', s.listener = mem.session[i].listener,
         s.socks = mem.session[i].socks
  PROVE  Busy' /\ Alone' /\ Fitting'
<1> SUFFICES ASSUME up, ~revived' PROVE Fits(mem', config)
  BY TurnBusy DEF Fitting, Turns
<1>1. \A j \in Ids : mem'.session[j] = IF j = i THEN s ELSE mem.session[j]
  BY DEF Turns, TypeOK, Registry
<1>2. Live(mem') \subseteq Live(mem) /\ Pending(mem') \subseteq Pending(mem)
  BY <1>1 DEF Live, Known, Pending
<1>3. config \in Config /\ mem.next \in Nat
  BY ConstantsAssumption DEF TypeOK, Registry, ConstantsAssumption
<1> QED
  BY <1>2, <1>3, FitsFewer DEF RoomInv, Fitting

\* One session is edited, in nothing but the user, the name, the hours and the flags.
LEMMA EditRoom ==
  ASSUME TypeOK, RoomInv, NEW i \in Ids, NEW s, NEW o,
         Edit(i, s) \/ (UNCHANGED mem /\ s = mem.session[i]),
         op' = [op EXCEPT ![i] = o], UNCHANGED <<config, changing, up>>,
         changing.step = "none", revived' \/ (mem.session[i].removed => s.removed),
         revived => revived', s.listener = mem.session[i].listener,
         s.socks = mem.session[i].socks,
         o.step \notin {"none", "squid", "save"} => s.listener # 0 /\ ~s.removed
  PROVE  Busy' /\ Alone' /\ Fitting'
<1>1. /\ mem'.session = [mem.session EXCEPT ![i] = s] /\ mem'.policy = mem.policy
      /\ mem'.next = mem.next
  BY EditKeeps DEF TypeOK, Registry
<1>2. op'[i] = o /\ \A j \in Ids \ {i} : op'[j] = op[j]
  BY DEF TypeOK
<1>3. Turns(i, s, o.step)
  BY <1>1, <1>2 DEF Turns
<1> QED
  BY <1>1, <1>3, TurnFits

LEMMA AddRoom ==
  ASSUME TypeOK, RoomInv, NEW i \in Ids, NEW name \in Names \cup {None},
         NEW hours \in Hours \cup {config.default}, Add(i, name, hours)
  PROVE  Busy' /\ Alone' /\ Fitting'
<1> DEFINE a == Added(name, hours)
<1>1. /\ mem.session \in [Ids -> Session] /\ mem.next \in Start .. End + 1
      /\ Start \in Nat \ {0} /\ End \in Nat /\ config \in Config
  BY ConstantsAssumption DEF TypeOK, Registry, ConstantsAssumption
<1>2. /\ a.listener = mem.next /\ a.removed = FALSE
      /\ a.socks = IF config.socks THEN mem.next + 1 ELSE 0
  BY DEF Added
<1>3. /\ mem'.session = [mem.session EXCEPT ![i] = a] /\ mem'.policy = mem.policy
      /\ mem'.next = IF config.socks THEN mem.next + 2 ELSE mem.next + 1
      /\ UNCHANGED <<config, changing, up, revived>> /\ changing.step = "none"
  BY <1>1 DEF Add, TypeOK, Registry, Editing, Begin
<1> HIDE DEF a
<1>4. Busy' /\ Alone'
  <2>1. CASE Go(i, "add")
    <3>1. Turns(i, a, "add")
      BY <1>1, <1>2, <1>3, <2>1 DEF Turns, Go, TypeOK
    <3> QED
      BY <3>1, TurnBusy
  <2>2. CASE UNCHANGED op
    <3>1. Turns(i, a, "none")
      BY <1>3, <2>2 DEF Turns, Add, Begin, At
    <3> QED
      BY <3>1, TurnBusy
  <2> QED
    BY <2>1, <2>2 DEF Add
<1>5. \A j \in Ids : mem'.session[j] = IF j = i THEN a ELSE mem.session[j]
  BY <1>1, <1>3
<1>6. Live(mem') = Live(mem) \cup {i} /\ i \notin Live(mem)
  BY <1>1, <1>2, <1>5 DEF Live, Known, Add
<1>7. Cardinality(Live(mem')) <= config.limit
  <2>1. Cardinality(Live(mem')) = Cardinality(Live(mem)) + 1
    BY <1>6, LiveFinite, FS_AddElement
  <2> QED
    BY <1>1, <2>1, PendingFinite DEF Add, Room, Config
<1>8. config.socks => Cardinality(Pending(mem')) <= End - mem'.next + 1
  <2> SUFFICES ASSUME config.socks
               PROVE  Cardinality(Pending(mem')) <= End - mem'.next + 1
    OBVIOUS
  <2>1. Pending(mem') = Pending(mem)
    <3>1. a.socks # 0
      BY <1>1, <1>2
    <3>2. \A j \in Live(mem) : mem'.session[j] = mem.session[j] /\ j # i
      BY <1>5, <1>6 DEF Live, Known
    <3>3. mem'.session[i] = a
      BY <1>5
    <3> QED
      BY <1>6, <3>1, <3>2, <3>3 DEF Pending
  <2>2. mem.next + 1 + Cardinality(Pending(mem)) <= End
    BY <1>1, PendingFinite DEF Add, Room
  <2> QED
    BY <1>1, <1>3, <2>1, <2>2, PendingFinite
<1> QED
  BY <1>3, <1>4, <1>7, <1>8 DEF Fitting, Fits

LEMMA CommandRoom ==
  ASSUME TypeOK, RoomInv, NEW i \in Ids, Command(i)
  PROVE  Busy' /\ Alone' /\ Fitting'
<1> DEFINE s == mem.session[i]
<1>0. s \in Session /\ op[i] \in OpType
  BY SessionType
<1>1. ASSUME NEW name \in Names \cup {None},
             NEW hours \in Hours \cup {config.default}, Add(i, name, hours)
      PROVE  Busy' /\ Alone' /\ Fitting'
  BY <1>1, AddRoom
<1>2. ASSUME NEW hours \in Hours, NEW step \in {"update", "configure"},
             Configure(i, hours, step)
      PROVE  Busy' /\ Alone' /\ Fitting'
  <2> DEFINE t == [s EXCEPT !.hours = hours]
             o == [step |-> step, hours |-> s.hours]
  <2>1. t.listener = s.listener /\ t.socks = s.socks /\ t.removed = s.removed
    BY <1>0 DEF Session
  <2>2. /\ Edit(i, t) /\ op' = [op EXCEPT ![i] = o] /\ i \in Live(mem)
        /\ UNCHANGED <<config, changing, up, revived>> /\ changing.step = "none"
    BY <1>2 DEF Configure, Editing, Begin, OnLive
  <2> HIDE DEF t, o
  <2> QED
    BY <2>1, <2>2, EditRoom DEF Live, Known
<1>3. ASSUME NEW step \in {"stop", "login", "logout", "remove"}, Halt(i, step)
      PROVE  Busy' /\ Alone' /\ Fitting'
  <2> DEFINE t == [s EXCEPT !.desired = FALSE]
             o == [op[i] EXCEPT !.step = step]
  <2>1. t.listener = s.listener /\ t.socks = s.socks /\ t.removed = s.removed
    BY <1>0 DEF Session
  <2>2. /\ Edit(i, t) /\ op' = [op EXCEPT ![i] = o] /\ i \in Live(mem)
        /\ UNCHANGED <<config, changing, up, revived>> /\ changing.step = "none"
    BY <1>3 DEF Halt, Go, Editing, Begin, OnLive
  <2> HIDE DEF t, o
  <2> QED
    BY <2>1, <2>2, EditRoom DEF Live, Known
<1>4. CASE StartSession(i)
  <2> DEFINE o == [op[i] EXCEPT !.step = "identity"]
  <2>1. /\ UNCHANGED mem /\ op' = [op EXCEPT ![i] = o] /\ i \in Live(mem)
        /\ UNCHANGED <<config, changing, up, revived>> /\ changing.step = "none"
    BY <1>4 DEF StartSession, Go, Editing, Begin, OnLive
  <2> HIDE DEF o
  <2> QED
    BY <2>1, EditRoom DEF Live, Known
<1> QED
  BY <1>1, <1>2, <1>3, <1>4 DEF Command

LEMMA FailRoom ==
  ASSUME TypeOK, RoomInv, NEW i \in Ids, NEW s \in Session, FailAs(i, s),
         s.listener = mem.session[i].listener, s.socks = mem.session[i].socks,
         s.removed = mem.session[i].removed, op[i].step # "none"
  PROVE  Busy' /\ Alone' /\ Fitting'
<1> DEFINE t == [s EXCEPT !.removed = FALSE]
<1>1. t.listener = s.listener /\ t.socks = s.socks
  BY DEF Session
<1>2. /\ Edit(i, t) /\ op' = [op EXCEPT ![i] = NoOp] /\ (s.removed => revived')
      /\ (revived => revived') /\ UNCHANGED <<config, changing, up>>
  BY DEF FailAs, Editing
<1>3. changing.step = "none" /\ NoOp.step = "none"
  BY DEF RoomInv, Alone, NoOp
<1> HIDE DEF t
<1> QED
  BY <1>1, <1>2, <1>3, EditRoom

LEMMA ReserveRoom ==
  ASSUME TypeOK, RoomInv, NEW i \in Ids, Reserve(i)
  PROVE  Busy' /\ Alone' /\ Fitting'
<1> DEFINE s == mem.session[i]
           r == Resolved(s)
           socks == config.socks /\ s.socks = 0
           t == IF socks THEN [r EXCEPT !.socks = mem.next] ELSE r
<1>1. /\ mem.session \in [Ids -> Session] /\ mem.next \in Start .. End + 1
      /\ Start \in Nat \ {0} /\ End \in Nat /\ config \in Config
      /\ s \in Session /\ i \in Live(mem) /\ changing.step = "none"
  BY ConstantsAssumption, SessionType
     DEF TypeOK, Registry, ConstantsAssumption, RoomInv, Busy, Alone, Reserve, From
<1>2. /\ r.listener = s.listener /\ r.removed = s.removed /\ r.socks = s.socks
      /\ r \in Session
  BY <1>1 DEF Resolved, Session
<1>3. /\ mem'.session = [mem.session EXCEPT ![i] = t] /\ mem'.policy = mem.policy
      /\ mem'.next = IF socks THEN mem.next + 1 ELSE mem.next
      /\ UNCHANGED <<config, changing, up, revived>> /\ Go(i, "reserve")
  BY <1>1 DEF Reserve, TypeOK, Registry, Editing
<1> HIDE DEF r
<1>4. /\ t.listener = s.listener /\ t.removed = s.removed
      /\ t.socks = IF socks THEN mem.next ELSE s.socks
  BY <1>2 DEF Session
<1> HIDE DEF t
<1>5. Turns(i, t, "reserve")
  BY <1>1, <1>3, <1>4 DEF Turns, Go, TypeOK, Live, Known
<1>6. CASE ~socks
  BY <1>3, <1>4, <1>5, <1>6, TurnFits
<1>7. CASE socks
  <2>1. \A j \in Ids : mem'.session[j] = IF j = i THEN t ELSE mem.session[j]
    BY <1>1, <1>3
  <2>2. Live(mem') = Live(mem)
    BY <1>1, <1>4, <2>1 DEF Live, Known
  <2>3. i \in Pending(mem) /\ Pending(mem') = Pending(mem) \ {i}
    <3>1. mem'.session[i].socks # 0 /\ s.socks = 0
      BY <1>1, <1>4, <1>7, <2>1
    <3>2. \A j \in Live(mem) : j \in Ids
      BY DEF Live, Known
    <3> QED
      BY <1>1, <2>1, <2>2, <3>1, <3>2 DEF Pending
  <2>4. Cardinality(Pending(mem')) = Cardinality(Pending(mem)) - 1
    BY <2>3, LiveFinite, FS_RemoveElement
  <2>5. up /\ ~revived => Fits(mem', config)
    BY <1>1, <1>3, <1>7, <2>2, <2>4, PendingFinite DEF RoomInv, Fitting, Fits
  <2> QED
    BY <1>3, <1>5, <2>5, TurnBusy DEF Fitting, Turns
<1> QED
  BY <1>6, <1>7

LEMMA ProceedRoom ==
  ASSUME TypeOK, RoomInv, NEW i \in Ids, Proceed(i)
  PROVE  Busy' /\ Alone' /\ Fitting'
<1> DEFINE s == mem.session[i]
           Gone(step) == [op[i] EXCEPT !.step = step]
<1>0. /\ s \in Session /\ \A step \in Steps : Gone(step).step = step
      /\ op[i].step # "none" => changing.step = "none"
      /\ op[i].step \notin {"none", "squid", "save"} => s.listener # 0 /\ ~s.removed
      /\ NoOp.step = "none"
  BY SessionType DEF OpType, RoomInv, Busy, Alone, Live, Known, NoOp
<1>1. ASSUME NEW o, UNCHANGED mem, op' = [op EXCEPT ![i] = o], op[i].step # "none",
             UNCHANGED <<config, changing, up, revived>>,
             o.step \in {"none", "squid", "save"}
               \/ op[i].step \notin {"none", "squid", "save"}
      PROVE  Busy' /\ Alone' /\ Fitting'
  BY <1>0, <1>1, EditRoom
<1>2. CASE Updated(i)
  BY <1>1, <1>2 DEF Updated, From, Editing
<1>3. CASE UpdateFails(i) \/ ConfigureRejected(i)
  <2> DEFINE t == [s EXCEPT !.hours = op[i].hours]
  <2>1. t.listener = s.listener /\ t.socks = s.socks /\ t.removed = s.removed
    BY <1>0 DEF Session
  <2>2. /\ Edit(i, t) /\ op' = [op EXCEPT ![i] = NoOp] /\ op[i].step # "none"
        /\ UNCHANGED <<config, changing, up, revived>>
    BY <1>3 DEF UpdateFails, ConfigureRejected, Rollback, From, Editing
  <2> HIDE DEF t
  <2> QED
    BY <1>0, <2>1, <2>2, EditRoom
<1>4. ASSUME NEW step \in Steps, Go(i, step), UNCHANGED mem, op[i].step # "none",
             UNCHANGED <<config, changing, up, revived>>,
             step \in {"none", "squid", "save"}
               \/ op[i].step \notin {"none", "squid", "save"}
      PROVE  Busy' /\ Alone' /\ Fitting'
  <2>1. op' = [op EXCEPT ![i] = Gone(step)] /\ Gone(step).step = step
    BY <1>0, <1>4 DEF Go
  <2> HIDE DEF Gone
  <2> QED
    BY <1>1, <1>4, <2>1
<1>5. CASE Settled(i)
  BY <1>4, <1>5 DEF Settled, From, Editing, Steps
<1>6. CASE LoginSaved(i) \/ Reserved(i)
  BY <1>4, <1>6 DEF LoginSaved, Reserved, From, Waiting, Steps
<1>7. ASSUME NEW t \in Session, NEW step \in Steps, Edit(i, t), Go(i, step),
             op[i].step \notin {"none", "squid", "save"}, t.listener = s.listener,
             t.socks = s.socks, UNCHANGED <<config, changing, up, revived>>,
             t.removed = s.removed \/ step \in {"none", "squid", "save"}
      PROVE  Busy' /\ Alone' /\ Fitting'
  <2>1. op' = [op EXCEPT ![i] = Gone(step)] /\ Gone(step).step = step
    BY <1>0, <1>7 DEF Go
  <2> HIDE DEF Gone
  <2> QED
    BY <1>0, <1>7, <2>1, EditRoom
<1>8. CASE LoggedOut(i)
  <2> DEFINE t == [s EXCEPT !.removed = At(i, "remove")]
  <2>1. t \in Session /\ t.listener = s.listener /\ t.socks = s.socks
    BY <1>0 DEF Session, At
  <2>2. /\ Edit(i, t) /\ Go(i, "squid") /\ op[i].step \in {"logout", "remove"}
        /\ UNCHANGED <<config, changing, up, revived>> /\ "squid" \in Steps
    BY <1>8 DEF LoggedOut, From, Editing, Steps
  <2> HIDE DEF t
  <2> QED
    BY <1>7, <2>1, <2>2
<1>9. CASE CallFails(i) \/ SaveRejected(i)
  BY <1>0, <1>9, FailRoom DEF CallFails, SaveRejected, Fail, From
<1>10. ASSUME NEW user \in Names, LoggedIn(i, user)
       PROVE  Busy' /\ Alone' /\ Fitting'
  <2> DEFINE t == [s EXCEPT !.user = user]
             r == Resolved(t)
  <2>1. /\ t \in Session /\ t.listener = s.listener /\ t.socks = s.socks
        /\ t.removed = s.removed
    BY <1>0 DEF Session
  <2>2. /\ r \in Session /\ r.listener = s.listener /\ r.socks = s.socks
        /\ r.removed = s.removed
    BY <1>0 DEF Resolved, Session
  <2>3. op[i].step = "login" /\ "login_save" \in Steps
    BY <1>10 DEF LoggedIn, From, Steps
  <2>4. \/ /\ Edit(i, r) /\ Go(i, "login_save")
           /\ UNCHANGED <<config, changing, up, revived>>
        \/ FailAs(i, t)
    BY <1>10 DEF LoggedIn, Editing
  <2> HIDE DEF t, r
  <2>5. CASE FailAs(i, t)
    BY <2>1, <2>3, <2>5, FailRoom
  <2>6. CASE /\ Edit(i, r) /\ Go(i, "login_save")
             /\ UNCHANGED <<config, changing, up, revived>>
    BY <1>7, <2>2, <2>3, <2>6
  <2> QED
    BY <2>4, <2>5, <2>6
<1>11. CASE Reserve(i)
  BY <1>11, ReserveRoom
<1>12. CASE ReserveFails(i)
  <2>1. /\ Resolved(s) \in Session /\ Resolved(s).listener = s.listener
        /\ Resolved(s).socks = s.socks /\ Resolved(s).removed = s.removed
    BY <1>0 DEF Resolved, Session
  <2>2. (FailAs(i, s) \/ FailAs(i, Resolved(s))) /\ op[i].step # "none"
    BY <1>12 DEF ReserveFails, Fail, From
  <2> QED
    BY <1>0, <2>1, <2>2, FailRoom
<1>13. CASE Provisioned(i)
  <2> DEFINE t == [s EXCEPT !.desired = TRUE]
  <2>1. /\ t \in Session /\ t.listener = s.listener /\ t.socks = s.socks
        /\ t.removed = s.removed
    BY <1>0 DEF Session
  <2>2. /\ Edit(i, t) /\ Go(i, "save") /\ op[i].step = "provision"
        /\ UNCHANGED <<config, changing, up, revived>> /\ "save" \in Steps
    BY <1>13 DEF Provisioned, From, Editing, Steps
  <2> HIDE DEF t
  <2> QED
    BY <1>7, <2>1, <2>2
<1>14. CASE Done(i) \/ AddRejected(i)
  BY <1>0, <1>1, <1>14 DEF Done, AddRejected, From, Waiting, Editing
<1> QED
  BY <1>2, <1>3, <1>5, <1>6, <1>8, <1>9, <1>10, <1>11, <1>12, <1>13, <1>14 DEF Proceed

\* A tombstone that has come back to life is not forgotten.
LEMMA RevivedStays ==
  ASSUME [Next]_vars, revived
  PROVE  revived'
<1>1. ASSUME NEW i \in Ids, Command(i)
      PROVE  revived'
  BY <1>1 DEF Command, Add, Configure, Halt, StartSession
<1>2. ASSUME NEW i \in Ids, Proceed(i)
      PROVE  revived'
  <2>1. CASE FailAs(i, mem.session[i]) \/ \E s : FailAs(i, s)
    BY <2>1 DEF FailAs
  <2> QED
    BY <1>2, <2>1
       DEF Proceed, Updated, UpdateFails, ConfigureRejected, Rollback, Settled,
           LoginSaved, LoggedOut, CallFails, LoggedIn, Reserve, ReserveFails, Reserved,
           Provisioned, Done, AddRejected, SaveRejected, Fail, Waiting
<1> QED
  BY <1>1, <1>2
     DEF Next, vars, Background, BackgroundDone, BackgroundRejected, WriteFails,
         Policy, PolicySave, PolicySaved, PolicyFails, Exit, Open, Waiting

LEMMA RoomStep ==
  ASSUME TypeOK, TypeOK', Down, PolicyInv', RoomInv, [Next]_vars
  PROVE  RoomInv'
<1> DEFINE Rest == Busy' /\ Alone' /\ Fitting'
<1>1. ASSUME UNCHANGED <<mem, op, config, changing, up, revived>>
      PROVE  Rest
  BY <1>1 DEF RoomInv, Busy, Alone, Fitting
<1>2. ASSUME NEW i \in Ids, Command(i) \/ Proceed(i)
      PROVE  Rest
  BY <1>2, CommandRoom, ProceedRoom
<1>3. ASSUME NEW c \in Configs, Policy(c)
      PROVE  Rest
  <2>1. /\ config' = c /\ changing'.config = config /\ UNCHANGED <<mem, op, up, revived>>
        /\ Fits(mem, c) /\ \A i \in Ids : op[i].step = "none"
        /\ changing.step = "none"
    BY <1>3 DEF Policy, At
  <2> QED
    BY <2>1 DEF RoomInv, Busy, Alone, Fitting
<1>4. ASSUME PolicySave PROVE Rest
  <2>1. /\ mem'.session = mem.session /\ mem'.next = mem.next
        /\ changing.step # "none" /\ changing'.config = changing.config
        /\ UNCHANGED <<op, config, up, revived>>
    BY <1>4 DEF PolicySave, TypeOK, Registry
  <2>2. Live(mem') = Live(mem) /\ Pending(mem') = Pending(mem)
    BY <2>1 DEF Live, Known, Pending
  <2> QED
    BY <2>1, <2>2 DEF RoomInv, Busy, Alone, Fitting, Fits
<1>5. ASSUME PolicySaved \/ PolicyFails PROVE Rest
  <2>1. /\ changing'.step = "none" /\ changing.step # "none"
        /\ config' \in {config, changing.config} /\ UNCHANGED <<mem, op, up, revived>>
    BY <1>5 DEF PolicySaved, PolicyFails, NoChange
  <2> QED
    BY <2>1 DEF RoomInv, Busy, Alone, Fitting
<1>6. ASSUME Exit PROVE Rest
  BY <1>6 DEF Exit, Busy, Alone, Fitting, NoOp, NoChange
<1>7. ASSUME Open PROVE Rest
  <2>1. /\ \A i \in Ids : op'[i].step # "none" => i \in Live(mem)
        /\ changing'.step = "none" /\ config' = Effective(disk)
        /\ UNCHANGED <<mem, disk, revived>> /\ mem = disk
    BY <1>7 DEF Open, NoOp, Down
  <2>2. ~revived => Fits(disk, Effective(disk))
    BY DEF RoomInv, Chained, RoomyStates
  <2> QED
    BY <2>1, <2>2 DEF Busy, Alone, Fitting
<1>8. Rest
  BY <1>1, <1>2, <1>3, <1>4, <1>5, <1>6, <1>7
     DEF Next, vars, Background, BackgroundDone, BackgroundRejected, WriteFails,
         Editing, Waiting
<1>9. ~revived' => Chained(RoomyStates)'
  <2> SUFFICES ASSUME ~revived' PROVE Chained(RoomyStates)'
    OBVIOUS
  <2>1. Chained(RoomyStates)
    BY RevivedStays DEF RoomInv
  <2>2. ASSUME up', ~torn'
        PROVE  mem' \in RoomyStates
    <3>1. Effective(mem') = config'
            \/ (changing'.step # "none" /\ Effective(mem') = changing'.config)
      BY <2>2 DEF PolicyInv, Settling, Saving, Before
    <3>2. Fits(mem', Effective(mem'))
      BY <1>8, <2>2, <3>1 DEF Fitting
    <3> QED
      BY <3>2 DEF RoomyStates, TypeOK
  <2> QED
    BY <2>1, <2>2, ChainedStep
<1> QED
  BY <1>8, <1>9 DEF RoomInv

\* There is always room for what was accepted: unless a tombstone was revived, the
\* sessions stay within the limit and each that lacks a SOCKS listener has one left
\* in the pool, under the policy in force and under the one on disk (add,
\* validateRuntimeAccess, manager.ts).
THEOREM RoomKept == Spec => []CapacityKept
<1>1. Init => RoomInv
  <2> SUFFICES ASSUME Init PROVE RoomInv
    OBVIOUS
  <2>1. Live(Empty) = {} /\ Pending(Empty) = {} /\ Empty.next = Start
    BY DEF Empty, NoSession, Live, Known, Pending
  <2>2. Base \in Config /\ Start \in Nat /\ End \in Nat /\ Start <= End
    BY ConstantsAssumption DEF ConstantsAssumption
  <2>3. Fits(Empty, Base)
    BY <2>1, <2>2, FS_EmptySet DEF Fits, Config
  <2>4. Empty \in Registry
    BY ConstantsAssumption
       DEF ConstantsAssumption, Empty, Registry, NoSession, Session
  <2>5. Effective(Empty) = Base
    BY DEF Effective, Empty
  <2> QED
    BY <2>3, <2>4, <2>5
       DEF Init, RoomInv, Busy, Alone, Fitting, Chained, RoomyStates, NoOp, NoChange
<1>2. TypeOK /\ TypeOK' /\ Down /\ PolicyInv' /\ RoomInv /\ [Next]_vars => RoomInv'
  BY RoomStep
<1>3. RoomInv => CapacityKept
  BY DEF RoomInv, Fitting, Chained, RoomyStates, CapacityKept
<1> QED
  BY <1>1, <1>2, <1>3, PolicyHolds, PTL DEF Spec
==============================================================================
