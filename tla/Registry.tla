------------------------------ MODULE Registry ------------------------------
(***************************************************************************)
(* The registry of the Hub: the sessions of StateStore (state.ts) with the *)
(* listeners, names and hours reserved for them, the commands and the      *)
(* policy change of the manager that edit it (manager.ts), the chain of    *)
(* writes that makes it durable, and restarts.                             *)
(*                                                                         *)
(* Abstractions: a CLI call, the relay worker's death and squid are awaits *)
(* with a nondeterministic outcome.  The policy saved by the console is    *)
(* kept as the configuration that it results in, which depends on nothing  *)
(* else while the environment stays the same.  The identity bound to a     *)
(* session is kept as the tunnel name the template makes of it.            *)
(***************************************************************************)
EXTENDS Integers, Sequences, FiniteSets

CONSTANTS
  Ids,       \* session ids
  Names,     \* tunnel names
  None,      \* no name, no policy
  Hours,     \* tunnel_expiration_hours an administrator may ask for
  Configs,   \* configurations a policy of the console may result in
  Base,      \* the configuration of the environment
  Start,     \* listenerStart
  End,       \* listenerEnd
  MaxQueue,     \* bound on the writes waiting in the chain
  MaxCommands   \* bound on the commands and policy changes issued

Config == [socks : BOOLEAN, min : Nat, max : Nat, default : Nat, limit : Nat]

ASSUME ConstantsAssumption ==
  /\ IsFiniteSet(Ids)
  /\ Start \in Nat \ {0} /\ End \in Nat /\ Start <= End
  /\ Hours \subseteq Nat
  /\ Base \in Config /\ Configs \subseteq Config
  /\ \A c \in Configs \cup {Base} : c.default \in c.min .. c.max
  /\ None \notin Configs /\ None \notin Names \cup (0 .. End)
  /\ Names \cap (0 .. End) = {}
  /\ "none" \notin Ids /\ "policy" \notin Ids

VARIABLES
  mem,       \* the state in memory, with the policy of the console in it
  disk,      \* the last state written
  queue,     \* snapshots to be written, each with the task that waits for it
  torn,      \* a write has failed: the chain rejects every later one
  config,    \* the configuration in force
  op,        \* for each session: the operation that holds exclusive(), its step
  changing,  \* the policy change in progress and the configuration before it
  up,        \* the manager is open
  relied,    \* reservations acknowledged to an administrator or served
  commands,  \* commands and policy changes issued
  revived    \* a removal that failed has brought a tombstone back to life

vars == <<mem, disk, queue, torn, config, op, changing, up, relied, commands,
          revived>>

Pool == Start .. End
NoSession == [listener |-> 0, socks |-> 0, name |-> None, user |-> None,
              hours |-> 0, desired |-> FALSE, removed |-> FALSE]
Empty == [session |-> [i \in Ids |-> NoSession], next |-> Start, policy |-> None]

NoOp == [step |-> "none", hours |-> 0]
At(i, step) == op[i].step = step
Go(i, step) == op' = [op EXCEPT ![i].step = step]
NoChange == [step |-> "none", config |-> Base]

Known(m) == {i \in Ids : m.session[i].listener # 0}
Live(m) == {i \in Known(m) : ~m.session[i].removed}
\* Sessions that the SOCKS proxy would still need a listener for.
Pending(m) == {i \in Live(m) : m.session[i].socks = 0}
Effective(m) == IF m.policy = None THEN Base ELSE m.policy

\* Who owns which listener or name, tombstones included.
Resources == Pool \cup Names
Owned(s) == {s.listener, s.socks, s.name} \ {0, None}
Reservations(m) == {r \in Ids \X Resources : r[2] \in Owned(m.session[r[1]])}
NameTaken(n, i) == \E j \in Known(mem) \ {i} : mem.session[j].name = n

Edit(i, s) == mem' = [mem EXCEPT !.session[i] = s]
\* save() takes its snapshot when it is called.
Save(by) == /\ Len(queue) < MaxQueue
            /\ queue' = Append(queue, [state |-> mem', by |-> by])
\* The write that task t awaits has happened, or the chain has rejected it.
Written(t) ==
  /\ queue # <<>> /\ Head(queue).by = t /\ ~torn
  /\ disk' = Head(queue).state /\ queue' = Tail(queue)
Rejected(t) ==
  /\ queue # <<>> /\ Head(queue).by = t /\ torn
  /\ queue' = Tail(queue)
\* The administrator is told, or traffic is served, on the strength of this write.
Rely(i) ==
  relied' = relied \cup {r \in Reservations(Head(queue).state) : r[1] = i}

Issue == commands < MaxCommands /\ commands' = commands + 1
\* exclusive(): one operation for each session, none during a policy change.
Begin(i) == up /\ changing.step = "none" /\ At(i, "none") /\ Issue
\* The operation that holds exclusive() comes back from an await.
From(i, steps) == op[i].step \in steps /\ UNCHANGED commands
OnLive(i) == i \in Live(mem)
Editing == UNCHANGED <<disk, torn, config, changing, up, relied>>
Waiting == UNCHANGED <<mem, torn, config, changing, up, revived>>

\* validateState: what load() and the preflight of a successor accept.
Acceptable(m, c) ==
  /\ \A i, j \in Known(m) : i # j =>
       Owned(m.session[i]) \cap Owned(m.session[j]) = {}
  /\ \A i \in Known(m) :
       LET s == m.session[i] IN
       /\ s.listener \in Pool /\ s.socks \in {0} \cup Pool
       /\ s.listener # s.socks
       /\ s.hours \in c.min .. c.max
       /\ s.listener < m.next /\ s.socks < m.next
       /\ s.name = None => ~s.desired
  /\ m.next \in Start .. End + 1

Init ==
  /\ mem = Empty /\ disk = Empty /\ queue = <<>> /\ torn = FALSE
  /\ config = Base /\ op = [i \in Ids |-> NoOp]
  /\ changing = NoChange /\ up = TRUE
  /\ relied = {} /\ commands = 0 /\ revived = FALSE
-----------------------------------------------------------------------------
(* add and configure                                                       *)

\* The session that add() creates; hours that the policy refuses are left out.
Added(name, hours) ==
  [listener |-> mem.next, socks |-> IF config.socks THEN mem.next + 1 ELSE 0,
   name |-> name, user |-> None,
   hours |-> IF hours \in config.min .. config.max THEN hours ELSE config.default,
   desired |-> FALSE, removed |-> FALSE]

Room_WithoutPending ==
  /\ Cardinality(Live(mem)) < config.limit
  /\ mem.next + (IF config.socks THEN 1 ELSE 0) <= End

Room ==
  /\ Cardinality(Live(mem)) < config.limit
  /\ mem.next + (IF config.socks THEN 1 + Cardinality(Pending(mem)) ELSE 0) <= End

\* When applyValidityOptions throws, the session is already in the registry and
\* stays there, not saved.
Add(i, name, hours) ==
  /\ Begin(i) /\ i \notin Known(mem) /\ Room
  /\ name # None => ~NameTaken(name, i)
  /\ mem' = [mem EXCEPT !.session[i] = Added(name, hours),
                        !.next = IF config.socks THEN @ + 2 ELSE @ + 1]
  /\ IF hours \in config.min .. config.max
       THEN Save(i) /\ Go(i, "add")
       ELSE UNCHANGED <<queue, op>>
  /\ UNCHANGED revived /\ Editing

\* configure: a session with a tunnel changes it remotely before it is saved.
Configure(i, hours, step) ==
  /\ Begin(i) /\ OnLive(i) /\ hours \in config.min .. config.max
  /\ Edit(i, [mem.session[i] EXCEPT !.hours = hours])
  /\ op' = [op EXCEPT ![i] = [step |-> step, hours |-> mem.session[i].hours]]
  /\ \/ step = "update" /\ UNCHANGED queue
     \/ step = "configure" /\ Save(i)
  /\ UNCHANGED revived /\ Editing

\* The tunnel has the new hours: they are saved even if reading it back fails.
Updated(i) ==
  /\ From(i, {"update"}) /\ UNCHANGED <<mem, revived>> /\ Save(i)
  /\ op' = [op EXCEPT ![i] = [step |-> "add", hours |-> 0]] /\ Editing

Rollback(i) ==
  /\ Edit(i, [mem.session[i] EXCEPT !.hours = op[i].hours])
  /\ op' = [op EXCEPT ![i] = NoOp] /\ UNCHANGED revived /\ Editing
UpdateFails(i) == From(i, {"update"}) /\ UNCHANGED queue /\ Rollback(i)
ConfigureRejected(i) == From(i, {"configure"}) /\ Rejected(i) /\ Rollback(i)
-----------------------------------------------------------------------------
(* stop, login, logout, remove                                             *)

\* fail(): the operation ends, and its status is saved.  The status of a
\* tombstone is overwritten too, which brings it back to life.
FailAs(i, s) ==
  /\ Edit(i, [s EXCEPT !.removed = FALSE])
  /\ revived' = (revived \/ s.removed)
  /\ op' = [op EXCEPT ![i] = NoOp] /\ Editing
Fail(i) == FailAs(i, mem.session[i]) /\ Save("none")

\* These commands clear desired and wait for the worker to end.
Halt(i, step) ==
  /\ Begin(i) /\ OnLive(i)
  /\ Edit(i, [mem.session[i] EXCEPT !.desired = FALSE]) /\ Go(i, step)
  /\ UNCHANGED <<queue, revived>> /\ Editing

\* stop has ended the worker, or logout and remove have configured squid.
Settled(i) ==
  /\ From(i, {"stop", "squid"}) /\ UNCHANGED <<mem, revived>>
  /\ Save(i) /\ Go(i, "save") /\ Editing

CanResolve_IgnoresTombstones(i, s) ==
  s.name = None => \A j \in Live(mem) \ {i} : mem.session[j].name # s.user

\* resolveName: no await between the check and the reservation.
CanResolve(i, s) == s.name = None => ~NameTaken(s.user, i)
Resolved(s) == IF s.name = None THEN [s EXCEPT !.name = s.user] ELSE s

\* bindIdentity, then resolveName.
LoggedIn(i, user) ==
  LET s == [mem.session[i] EXCEPT !.user = user] IN
  /\ From(i, {"login"}) /\ mem.session[i].user \in {None, user}
  /\ \/ /\ CanResolve(i, s) /\ Edit(i, Resolved(s))
        /\ Save(i) /\ Go(i, "login_save") /\ UNCHANGED revived /\ Editing
     \/ ~CanResolve(i, s) /\ FailAs(i, s) /\ Save("none")

\* login ends here; connect and reconnect go on with start.
LoginSaved(i) ==
  /\ From(i, {"login_save"}) /\ Written(i) /\ Rely(i)
  /\ Go(i, "none") \/ Go(i, "identity")
  /\ Waiting

LoggedOut(i) ==
  /\ From(i, {"logout", "remove"})
  /\ Edit(i, [mem.session[i] EXCEPT !.removed = At(i, "remove")])
  /\ Go(i, "squid") /\ UNCHANGED <<queue, revived>> /\ Editing

\* An await other than a save throws.
CallFails(i) ==
  /\ From(i, {"login", "logout", "remove", "squid", "identity", "provision"})
  /\ Fail(i)
-----------------------------------------------------------------------------
(* start                                                                   *)

StartSession(i) ==
  /\ Begin(i) /\ OnLive(i) /\ mem.session[i].user # None
  /\ Go(i, "identity") /\ UNCHANGED <<mem, queue, revived>> /\ Editing

PoolLeft_OffByOne == mem.next <= End + 1
PoolLeft == mem.next <= End

\* resolveName and ensureSocksListener, once the cached identity is checked.
Reserve(i) ==
  LET s == mem.session[i]
      socks == config.socks /\ s.socks = 0
      r == Resolved(s) IN
  /\ From(i, {"identity"}) /\ CanResolve(i, s) /\ (socks => PoolLeft)
  /\ mem' = [mem EXCEPT
       !.session[i] = IF socks THEN [r EXCEPT !.socks = mem.next] ELSE r,
       !.next = IF socks THEN @ + 1 ELSE @]
  /\ Save(i) /\ Go(i, "reserve") /\ UNCHANGED revived /\ Editing

ReserveFails(i) ==
  LET s == mem.session[i] IN
  /\ From(i, {"identity"})
  /\ \/ ~CanResolve(i, s) /\ Fail(i)
     \/ /\ CanResolve(i, s) /\ config.socks /\ s.socks = 0 /\ ~PoolLeft
        /\ FailAs(i, Resolved(s)) /\ Save("none")

Reserved(i) ==
  /\ From(i, {"reserve"}) /\ Written(i) /\ Go(i, "provision")
  /\ UNCHANGED relied /\ Waiting

\* The worker is forked once this save has been written.
Provisioned(i) ==
  /\ From(i, {"provision"}) /\ Edit(i, [mem.session[i] EXCEPT !.desired = TRUE])
  /\ Save(i) /\ Go(i, "save") /\ UNCHANGED revived /\ Editing
-----------------------------------------------------------------------------
(* The chain of writes                                                     *)

Done_NotAwaited(i) ==
  /\ From(i, {"add", "configure", "save"})
  /\ relied' = relied \cup {r \in Reservations(mem) : r[1] = i}
  /\ op' = [op EXCEPT ![i] = NoOp] /\ UNCHANGED <<disk, queue>> /\ Waiting

\* The last save of a command: the administrator is told, the worker forked.
Done(i) ==
  /\ From(i, {"add", "configure", "save"}) /\ Written(i) /\ Rely(i)
  /\ op' = [op EXCEPT ![i] = NoOp] /\ Waiting

\* Saves nobody waits for: the status of a worker, a check, close().  One that
\* would write what is written last anyway is left out.
Last == IF queue = <<>> THEN disk ELSE queue[Len(queue)].state
Background ==
  /\ up /\ Last # mem
  /\ UNCHANGED <<mem, op, commands, revived>> /\ Save("none") /\ Editing
BackgroundDone == Written("none") /\ UNCHANGED <<op, relied, commands>> /\ Waiting

\* After an error it is not known whether the state has been replaced.
WriteFails ==
  /\ queue # <<>> /\ ~torn /\ torn' = TRUE
  /\ disk' \in {disk, Head(queue).state}
  /\ UNCHANGED <<mem, queue, config, op, changing, up, relied, commands, revived>>

BackgroundRejected ==
  /\ Rejected("none") /\ UNCHANGED <<mem, op, commands, revived>> /\ Editing
AddRejected(i) ==
  /\ From(i, {"add"}) /\ Rejected(i) /\ op' = [op EXCEPT ![i] = NoOp]
  /\ UNCHANGED <<mem, revived>> /\ Editing
\* fail() follows, whose own save is rejected as well.
SaveRejected(i) ==
  /\ From(i, {"save", "login_save", "reserve"})
  /\ Rejected(i) /\ FailAs(i, mem.session[i])
-----------------------------------------------------------------------------
(* applyPolicy with the update of the console as what it persists          *)

Fits(m, c) ==
  /\ Cardinality(Live(m)) <= c.limit
  /\ c.socks => Cardinality(Pending(m)) <= End - m.next + 1

Policy(c) ==
  /\ up /\ changing.step = "none" /\ Issue
  /\ \A i \in Ids : At(i, "none")
  /\ \A i \in Known(mem) : ~mem.session[i].desired
  /\ \A i \in Live(mem) : mem.session[i].hours \in c.min .. c.max
  /\ Fits(mem, c)
  /\ changing' = [step |-> "squid", config |-> config] /\ config' = c
  /\ UNCHANGED <<mem, disk, queue, torn, op, up, relied, revived>>

\* Squid runs with it and the console's revision is current.
PolicySave ==
  /\ changing.step = "squid" /\ mem' = [mem EXCEPT !.policy = config]
  /\ Save("policy") /\ changing' = [changing EXCEPT !.step = "save"]
  /\ UNCHANGED <<disk, torn, config, op, up, relied, commands, revived>>

PolicySaved ==
  /\ changing.step = "save" /\ Written("policy") /\ changing' = NoChange
  /\ UNCHANGED <<mem, torn, config, op, up, relied, commands, revived>>

PolicyFails_KeepsConfig ==
  /\ \/ changing.step = "squid" /\ UNCHANGED queue
     \/ changing.step = "save" /\ Rejected("policy")
  /\ changing' = NoChange
  /\ UNCHANGED <<mem, disk, torn, config, op, up, relied, commands, revived>>

\* Squid refuses it, the revision is stale, or the save is rejected.
PolicyFails ==
  /\ \/ changing.step = "squid" /\ UNCHANGED queue
     \/ changing.step = "save" /\ Rejected("policy")
  /\ config' = changing.config /\ changing' = NoChange
  /\ UNCHANGED <<mem, disk, torn, op, up, relied, commands, revived>>
-----------------------------------------------------------------------------
\* The process ends: a crash, a fence, or the last step of close().  A write in
\* progress may have replaced the state.
Exit ==
  /\ up /\ up' = FALSE
  /\ disk' \in IF queue # <<>> /\ ~torn THEN {disk, Head(queue).state} ELSE {disk}
  /\ mem' = disk' /\ queue' = <<>> /\ torn' = FALSE
  /\ op' = [i \in Ids |-> NoOp] /\ changing' = NoChange /\ config' = Base
  /\ UNCHANGED <<relied, commands, revived>>

\* open(): the state is validated against the environment, then the console's
\* policy is applied, then what was desired is started.
Open ==
  /\ ~up /\ up' = TRUE /\ Acceptable(disk, Base)
  /\ config' = Effective(disk)
  /\ op' = [i \in Ids |-> IF i \in Live(mem) /\ mem.session[i].desired
                          THEN [NoOp EXCEPT !.step = "identity"] ELSE NoOp]
  /\ UNCHANGED <<mem, disk, queue, torn, changing, relied, commands, revived>>

Command(i) ==
  \/ \E name \in Names \cup {None}, hours \in Hours \cup {config.default} :
       Add(i, name, hours)
  \/ \E hours \in Hours, step \in {"update", "configure"} : Configure(i, hours, step)
  \/ \E step \in {"stop", "login", "logout", "remove"} : Halt(i, step)
  \/ StartSession(i)

Proceed(i) ==
  \/ Updated(i) \/ UpdateFails(i) \/ ConfigureRejected(i)
  \/ Settled(i) \/ LoginSaved(i) \/ LoggedOut(i) \/ CallFails(i)
  \/ \E user \in Names : LoggedIn(i, user)
  \/ Reserve(i) \/ ReserveFails(i) \/ Reserved(i) \/ Provisioned(i)
  \/ Done(i) \/ AddRejected(i) \/ SaveRejected(i)

Next ==
  \/ \E i \in Ids : Command(i) \/ Proceed(i)
  \/ Background \/ BackgroundDone \/ BackgroundRejected \/ WriteFails
  \/ \E c \in Configs : Policy(c)
  \/ PolicySave \/ PolicySaved \/ PolicyFails
  \/ Exit \/ Open

Spec == Init /\ [][Next]_vars
-----------------------------------------------------------------------------
Session == [listener : 0 .. End, socks : 0 .. End, name : Names \cup {None},
            user : Names \cup {None}, hours : Nat,
            desired : BOOLEAN, removed : BOOLEAN]
Registry == [session : [Ids -> Session], next : Start .. End + 1,
             policy : Configs \cup {Base, None}]
Snapshot == [state : Registry, by : Ids \cup {"none", "policy"}]
Steps == {"none", "add", "configure", "update", "stop", "login", "login_save",
          "logout", "remove", "squid", "identity", "reserve", "provision", "save"}

\* Every variable keeps its type; the cursor never passes the end of the pool.
TypeOK ==
  /\ mem \in Registry /\ disk \in Registry /\ commands \in Nat
  /\ queue \in Seq(Snapshot)
  /\ torn \in BOOLEAN /\ up \in BOOLEAN /\ revived \in BOOLEAN
  /\ config \in Configs \cup {Base}
  /\ op \in [Ids -> [step : Steps, hours : Nat]]
  /\ changing \in [step : {"none", "squid", "save"}, config : Configs \cup {Base}]
  /\ relied \subseteq Ids \X Resources

\* A restart accepts what is on disk: whatever was written, in whatever order the
\* commands and the failed writes came, passes validateState (state.ts).
RestartAccepted == Acceptable(disk, Base)

\* The checks of add and applyPolicy keep, between them, a listener for every
\* session that lacks one and the number of sessions within the limit, in memory
\* and after a restart, unless fail() has revived a tombstone (manager.ts).
CapacityKept ==
  revived \/ ((up => Fits(mem, config)) /\ Fits(disk, Effective(disk)))

\* Outside a policy change the configuration in force is the one a restart would
\* come up with, until a write fails: applyPolicy rolls back what it could not
\* save, and no later save takes the place of an accepted policy (manager.ts).
PolicyDurable ==
  up /\ ~torn /\ changing.step = "none" => config = Effective(disk)

\* The registry keeps the promise of the audit log: listeners and names on disk
\* have one owner forever, and what was acknowledged or served is on disk.
Audit == INSTANCE AuditLedger WITH
  Owners <- Ids, ledger <- Reservations(disk)
LedgerKept == Audit!Spec
=============================================================================
