# DevTunnel Toolkit: TLA+ models and proofs

The repository packages Microsoft dev tunnels as containers. Its core is the
**Hub** (`images/hub/src`): one Node process that owns a relay worker, a CLI
login and a pair of proxy listeners for every user, keeps their state in a file
or in PostgreSQL, and hands over to a newer deployment without two managers ever
serving at once. This directory models that core, checks it with TLC and proves
the safety properties with TLAPS.

## Inventory

| Component | State it keeps | Operations | What is hard |
| --- | --- | --- | --- |
| Leadership: `postgres.ts`, `cli.ts` | advisory lock, `deployments`, `leadership`, `hubs.revision`; per process: connection, cached revision, flags | open, propose, await, activate, monitor, write, markFailed, close, shutdown | several replicas, crashes between two statements, lost connections, stale rows |
| Session lifecycle: `manager.ts`, `auth.ts`, `worker.ts` | `desired`, `status`, `error`, maps of workers, runtimes, retry timers and failure counts, the busy set | the administrator's commands, start, fail, retries, auth checks, policy change, close | everything that is not under `exclusive()` runs between any two awaits |
| Registry: `state.ts`, `manager.ts` add/configure/policy/open | sessions with ids, names, listeners, tombstones, the cursor, hours; the chain of writes; the effective policy | add, resolveName, ensureSocksListener, remove, applyPolicy, load, save | failed and lost writes, restarts under another policy, the end of the pool |
| Credential checkpoints: `auth.ts`, `postgres.ts`, `credentials.ts` | home directory, dirty marker, generation, sealed package | beginAuth, checkpoint, restore, read | a crash between the two markers |
| Tunnel: `manager.ts` `start`, `provision`, `auth.ts` `details`, `credentials`, `worker.ts`, `mapped-host.ts` | `tunnel_id`, recorded ports, `desired`; at the service: tunnels, their ports and grants | create, compensate, recreate, migrate ports, record, verify, renew | lost answers, crashes between two remote changes, the owner's other tools |
| Relay worker: `worker.ts`, `mapped-host.ts` | pending credential requests, forwarded ports | start, credentials, refreshPorts, stop | the tunnel changes while it is served |
| SOCKS proxy: `socks.ts`, `socks-protocol.ts` | per connection: phase, unread input, header, upstream socket, timers; the set of clients | listen, accept, greeting, request, CONNECT, pipe, close | bytes cut and coalesced anywhere, half-open sockets, deadlines, the limit |
| Web console: `web/server.ts`, `web/security.ts`, `web/providers.ts`, `web/control.ts` | users, provider, revision, infrastructure profile; browser sessions, setup token and session, OAuth flows, jobs | sign-in (password, directory, OAuth), setup, account and provider edits, policy, password change, reset, jobs, close | every handler awaits its body, a scrypt, a provider, the queue of updates and a save |
| Console page and its stream: `web/app.js`, `server.ts` events | view, logs and cursor, pending topics, timers, `EventSource`, `authGeneration`; per stream the last fingerprint | bootstrap, refresh, queueLive, checkStreams, logout, visibility | lost notices, late answers, restarts of the manager |
| Squid configuration: `squid.ts` | generated file, audit records | configure, parse | stale listener owners |
| Configuration: `config.ts`, `environment.ts`, `model.ts` | none | parse and validate | none: pure |
| Legacy containers: `docker/`, `images/openvpn`, `images/squid`, `images/tinyproxy` | processes of a shell supervisor | login, host, restart | signals, dying children |
| Release automation: `.github/scripts` | image tags, digests, release assets | plan, promote, publish | resuming after a partial promotion |

`cli.ts` opens the persistence, which decides who leads, and then the manager.
The manager calls the store (`save`), one `SessionRuntime` per session (CLI
calls under a keyring, checkpointed to the persistence), forks workers that ask
for credentials over IPC, and rewrites the configuration of squid. The web
console and the Unix socket call `dispatch`. The persistence calls back `onLost`
(fence and exit) and `onTakeover` (shut down). `PROJECT.json` lists every
component with its status and every hazard at its line.

## Modules

### Leadership

`Leadership.tla` has one process per replica. `pc` names the SQL statement or
the phase a replica is about to execute, so each await between two statements is
an interleaving point; `mon` is the step of the monitor's task, which shares the
serial queue with `write` and `markFailed`. `lock` is the session-level advisory
lock: the server releases it when the connection ends, which may be long before
the process notices (`up` is the server's view, `broken` the process's). The row
`hubs` is the set `current` of processes whose cached revision equals the row's, and
`revision`, the row's own modulo 2, so that every accepted write is a step that shows;
`gen`, `status`, `fresh` are the rows of `deployments`, `desired` the row of
`leadership`. `fresh` stands for "heartbeat younger than 30 s": it can only be
lost while no process of the deployment runs, except for deployments in
`Laggards`, whose processes may be suspended for longer than a lease.

`Coordinated` are the replicas with a deployment id and handoff enabled;
the others just try the lock once. The executor (`Start`) restarts a replica
until its deployment has been replaced, or for ever with `RestartOld`. Faults
(crash, dropped connection, query timeout, failing preflight or `Manager.open`,
SIGTERM) may hit at every step; `MaxFaults` bounds their number.

### SessionLifecycle

`SessionLifecycle.tla` is one session of the manager. Node runs one callback at
a time, so a step is what happens between two awaits. `op` is the operation that
holds `exclusive()` and the await it is in; `fails` are the `fail()` calls in
progress, which hold nothing; `timer` and `orphan` are retry timers that are
armed (an orphan is one whose handle the map has overwritten); `saves` is the
chain of writes in its order; `phase` follows `close()`. A command, the resume in
`open()`, a retry, an auth check, `configure` and `applyPolicy` are operations;
`Throw` does what the code does when the action given to `exclusive()` throws.
`Quiet` encodes one fact of the event loop: awaiting a promise that is already
settled (`terminate(undefined)`) lets no event in before the continuation.

Calls to the CLI are one await with a nondeterministic outcome. Error codes are
kept as the six classes the code tells apart. The time a dying worker takes (at
most 5 s) is not compared with the time of CLI calls. A save succeeds; failed
writes are part of Registry. Two slots for `fail()` calls are enough for the
overlaps the findings need; steps that would open a third one are delayed.

### Registry and AuditLedger

`Registry.tla` is the state of `StateStore` as far as sessions own things:
`mem` is `this.state` (per session: listener, SOCKS listener, name, bound user,
hours, `desired`, the tombstone; the cursor; the policy in the console's data),
`disk` the last state written, `queue` the chain of writes with the snapshot
each `save()` took when it was called, `torn` a chain that a failed write has
broken. `op` is the operation that holds `exclusive()` of a session and the await
it is in, so the commands of two sessions and the policy change interleave at
every await. `Exit` loses everything but `disk`; `Open` is `load()` followed by
the console's policy and the resume.

`AuditLedger.tla` is what the registry promises: assignments of listeners and
names are only ever added, each has one owner, and nobody outside (the
administrator, the traffic) relies on one that is not recorded. `Registry`
implements it with `ledger` as the reservations on disk; `relied` is a history
variable of `Registry` and is set where a command returns or the worker is forked.

Left out: a save by nobody in particular that would write what is already last
in the chain; the status of a session other than the tombstone; `read()`'s
downgrade of sessions with a dirty login, which belongs to CredentialStore; a
restart with another environment or with the console disabled. A policy is kept
as the configuration that results from it. A worker needs no variable: by
`SessionLifecycle!ServesAsDesired` it exists only while `desired`. `revived`
records that a failed removal brought a tombstone back, the only way
`CapacityKept` is lost; whether that should happen is finding 1.

### CredentialStore

`CredentialStore.tla` follows the login of one session with the PostgreSQL
backend. `row` is its row of `credentials`, `stored` the `desired` that the
database has, and per manager there is `runtime`, the step of `withCredentials`
(`task`), the login in the keyring's memory, in the files of the home and in the
package about to be written. A login is a number; each one the CLI writes is new
and spends the one it replaces, and so does logging out. `conn` is the manager
whose connection the server still has: only that one gets a statement through, but
a manager without a connection goes on with what needs no database. `Exit` is a
crash at any step. `lost` is the set of logins a keyring fell back to as it lost what
had replaced them and its runtime went on (see "Disagreements without a run"). No state
is left out because of it: `CurrentUnlessLost` lets exactly these logins be restored
although they are spent, and no other.

### Tunnel

`Tunnel.tla` is the private tunnel of one session, seen from both sides.
`alive`, `ports`, `shared` and `ours` are the tunnels of the session's name at the
service, one per cluster; `id` and `rec` are `tunnel_id` and the recorded ports;
`pc` is the next call of `start()`, `cur` the ports `provision()` takes to be
there (`current` in the code). Every CLI call may be done and answered, be done and
its answer lost, or fail; between any two calls a stranger (another tool of the
owner, the service's expiry) may add or remove a port, grant access or delete the
tunnel, and the manager may die. `touched`, `dirty` and `unfinished` are history:
they say in which states a property can be asked of the Hub at all. `failures` counts
the transient errors since the worker was last connected: after `MaxRetries` of them
`fail()` sets no timer any more, and the session waits for its user or for a restart.

A stranger never creates a tunnel under the session's name and in its cluster once the
Hub's is gone. `details()` knows a tunnel by name and cluster alone and would take such
a one up (it still has to be owner-only, with known ports); that the tunnel served is
one the Hub created, in `ServedIsVerified` and `OwnOnly`, is said of strangers that do not.

`OwnOnly` and `MigrationResumes` are the two promises of `provision()`'s comments:
nothing is adopted, only recorded or desired ports are touched, and what a crash
leaves half done the next start accepts. Two states in which the Hub rests until
somebody acts are within these promises and visible in the model: a lost answer to
`create` ends in `TUNNEL_NAME_CONFLICT` (the tunnel is the Hub's, but it cannot
know), and a migration that was interrupted under one policy and is resumed under a
third ends in `TUNNEL_PORT_POLICY_CHANGED` until the policy is set back.

### Console

`Console.tla` is `WebConsole`, `ControlStore` and `Sessions`. A request is a chain
of awaits: `pc` is the await it is in, `req` what it captured before. The
variables `rev` to `done` are `ControlData` as last committed, `queue` is the
promise chain of `ControlStore.update`. Passwords and infrastructure profiles are
represented by the revision that wrote them, so "the present password" is a
comparison. A token that a session has used can be given again once nobody holds
it. `SaveFails` is the failed save that fences the manager.

`TypeOK`, which is in no run, is proved in `ConsoleProofs`; it also says that the queue
holds exactly the requests whose update waits.

Left out: rate limits, the two slots of `authenticate()`, limits on jobs and flows
and malformed fields, all of which only refuse (`Refuse`); assets, the GET
projections and the display of stored secrets, which change nothing; the expiry of
a flow, which is a refusal.

### LiveView

`LiveView.tla` is one tab of the console and the event stream that feeds it. The
tab runs one callback at a time, so its state is one record `tab` and each callback an
operator from record to record; a refresh, a `bootstrap()` and a navigation each
await answers, and answers of different chains may overtake each other. The
manager's side is what each topic's projection has become (`data`, `seq`), the
login of the cookie (`sess`) and the fingerprint last sent (`tab.print`).

`navStale` marks a catalog whose navigation failed or was overtaken by a newer
answer: `loadCatalog()` has no order among answers, so `ViewCurrent` says nothing of
such a catalog. The back/forward cache (`pagehide`, `pageshow`), paused logs and
browsers without `EventSource` are left out; so is the page on which both `/me` and
`/auth/options` fail, which shows no login form until it is reloaded. For
`bootstrap()` and `loginPage()` the manager's answer and what the page does with it are
one step: several of them may be under way at once and answer in any order, but none
is told of a login that has been replaced since. The page would take such an answer:
`bootstrap()` sets `me` from `/me` without comparing `authGeneration` (`app.js:525`). So
a late `/me` of an earlier login is outside the model, and what `LoginOwnsView` says of
the view does not speak of it.

### SocksProxy

`SocksProxy.tla` is the proxy of one session with the parsers of
`socks-protocol.ts` byte by byte. Reads have any size; a token of Squid's answer
stands for a header line, the status with the end of the header, or a byte. A
connection is a place that is taken again when its socket has closed.

Left out: backpressure in `pipe()`, address formatting, and `connect` events that
come after a failure, which do nothing.

## Runs

| Run | Question | Result |
| --- | --- | --- |
| `leadership_safety` | Two deployments, three replicas, one of them uncoordinated, one suspended past its lease, one fault at any point: does the lock exclude managers, is the holder's revision current, can a stale manager overwrite the state? | holds |
| `leadership_live` | Two coordinated deployments, two faults: does a newer standby or candidate get its turn, and does some manager serve again after the faults? | holds under `FairSpec` |
| `session_safety` | Two failures in progress, two retries, every interleaving: no worker is lost, no worker and no retry that can be disarmed is there against the desired state or during a policy change, no ghost status, transient failures stay covered by a retry, every operation and `close()` end | holds, liveness under `FairSpec` |
| `session_removed` | Does a removed session stay removed? | violated: finding 1 |
| `session_revived` | Does `stop` disable the restart? | violated: finding 2 |
| `registry_safety` | Two sessions, two names, three listeners, five commands or policy changes: is every state on disk one that a restart accepts, is the capacity kept, is an accepted policy durable, does the registry implement the audit ledger? | holds |
| `registry_restart` | The same with a policy that allows more hours than the environment: can the Hub always be restarted? | violated: finding 3 |
| `credential_safety` | Two managers that take over from each other at any step, three logins: is a restored login current unless a keyring lost its replacement, is a login used once at a time, does an interrupted session stay down? | holds |
| `tunnel` | Two clusters, four ports, three policies, two retries, three faults, two changes by strangers: is what is served what was verified, does an interrupted migration resume, is nothing foreign changed, does a desired session serve again, as long as it has a retry left? | holds, `Recovers` under `FairSpec` |
| `console` | Two browsers, two requests at once, five accounts, two identities: does every usable session rest on a present secret, has an identity one account, do updates and jobs rest on what still holds, is a revocation final? | holds |
| `socks` | Two sockets on one place, twelve requests, eight answers of Squid, reads of any size: are payload and replies whole and in order, is everything bounded, is a place given back, does `close()` return? | holds, the last two under `FairSpec` |
| `live_view` | Two events and two logins: does the tab come to show what the manager has, mix two logins in no step, and leave when its login ends? | holds under `FairSpec` |

Bounds. A handoff involves the draining leader and the successor; the third
replica of `leadership_safety` shares a deployment row with the second and takes
part in the contention for the lock. One fault at any step of any replica (two
in the smaller instance) gives a crash during the recovery from a crash.
`MaxRetries = 2` reaches both "a retry is left" and "retries are used up"; the
code has 8. `Tunnel` has two policies with one port and one with two, so a
migration may delete, create, or both, and a fourth port that only strangers use;
two faults give a crash in the recovery from a lost answer, and with `MaxRetries = 2` a
third uses the retries up, unless the worker was connected in between. In `Console` the
hazards are one request that awaits while another commits, so two requests at
once reach them, and requests of a kind arrive before revision `MaxRev`, 2 or 3.
`SocksProxy` has one place for two sockets, 12 bytes for `MAX_CLIENT_BYTES` and two
tokens for `MAX_HEADER_BYTES`: each limit is met, exceeded by one and straddled by
a read. `LiveView` has two things happening from outside (a second login is one), one
undelivered notice, and the user's clicks without a bound.

`CHECK_DEADLOCK FALSE` is used where the system really stops: a closed manager, a
closed console, a closed proxy.

Fairness. `Leadership!FairSpec` lets a started process take its next step
(strong fairness because the serial queue is first in, first out, and the
monitor's tasks do not starve it), lets the monitor's interval fire, the executor
restart what it wants, and leases expire. `SessionLifecycle!FairSpec` lets every
await end: CLI calls, `terminate` and queries have timeouts; an armed timer fires.
Nothing is assumed of the administrator, the worker, the session services or SIGTERM.
`Tunnel!FairSpec` lets the event loop go on (CLI calls time out after 60 s, so each
has an outcome) and a retry's timer fire. `SocksProxy!FairSpec` has the two timers,
the close event of a destroyed socket, the flush of a frame of ten bytes and the
outcome of `listen()`; clients and Squid owe nothing, which is what `PlaceFreed` is
about. `LiveView!FairSpec` has the tab's timers, an outcome for each request, and a
stream that delivers, ends or is noticed to be silent; the user, the manager's changes
and the network's faults owe nothing.

## Proofs

`LeadershipProofs.tla` proves for any number of replicas and deployments, any
crashes and any lost connections: `TypeOK`, `WorkersUnderLock`,
`HolderIsCurrent` and `OnlyHolderWrites`. The last two need the inductive
invariant `LockInv`: a process past the lock whose connection the server keeps
holds the lock, a process without a connection holds nothing, and the holder that
has passed `refreshValidatedState` is in `current`. `HolderIsCurrent` alone is not
inductive, because a write by someone else would make the holder stale; `LockInv`
says that nobody else can be at a point where it writes with a live connection.
`OnlyHolderWrites` names the writer: whenever the row's revision changes, the one
process whose cached revision is the new one holds the lock.
The only assumption is `ConstantsAssumption`.

Two more theorems are about the rows the deployments coordinate through.
`GenerationsKept`: generations are unique, never change and are never handed out
again, and the desired one has a row, so the monitors never wait for a deployment that
does not exist (`GenInv`: whoever is past `registerDeployment` has a generation, and
none is above `issued`). `HolderSpeaks`: a row comes to say leader, draining or failed
only by its own process while that holds the lock; `MonitorHolds` says that the monitor
and the flags it sets belong to a process that has the lock or has lost its connection.

`SessionProofs.tla` proves `TypeOK`, `NoWorkerLost` and `ServesAsDesired` of a
session for any number of failures and retries. The invariant `ServeInv` adds to
the two properties that an operation waiting in the save before `fork` still has
`desired` set, no worker and no policy change: between that save and the fork no
other operation can begin, and `fail()` only takes workers away.

It also proves `NoGhostStatus` and `RetryCovered`, which hold only once everything
has settled, from `RecoverInv`, which says what holds in between. Whoever takes a
worker that a status reports is going to write that status (`NoGhost`); whoever
writes a transient failure, or takes the retry that was armed for one, is going to
arm the next or to start the session (`Covered`). Several failures may be under way
at once, and a command beside them: `Held` says that one of them at most holds
`exclusive()`, so no command clears what another failure is about to rely on.

The findings 1 and 2 are each bounded by a theorem that says what it takes.
`RetriesOverwritten`: a retry starts a session that is not desired only as a timer whose
handle another failure has overwritten. `StopHoldsAlone`: as long as no two failures of a
session overlap there is no such timer (`OneTimer`: who fails finds no retry armed), and
then what `StopDisablesRestart` says of `stop` is true. `RemovedReturns`: a session loses
the status removed only to a retry or to a failure that was already under way, not to any
command (`OpPath`: what an operation awaits tells which it is; `RemoveInv`: a removed
session has no worker and is not desired, and no operation on it but a retry is one that
starts it). `NobodyWaitsInVain` is the safety half of
`EverythingEnds`: the chain of writes holds exactly the tasks that wait for one, once
each, and a command that waits in `fail()` has a failure to wait for (`NoVainWait`,
which is inductive as it stands).

`RegistryProofs.tla` proves `TypeOK` and `LedgerKept` for any sessions, names,
pool and policies: the cursor never passes the end of the pool, and the registry
implements the ledger. The invariant `LedgerInv` orders the copies of the state:
what is on disk is contained in the first snapshot of the chain, each snapshot in
the next and the last in memory (`Grows` compares listeners and names, which an
edit may add and never takes back); the cursor is above every listener; no two
sessions share a listener or a name. So whichever write a crash leaves as the
last, its successor only adds. The lemmas `AddGrows`, `ResolveGrows` and
`ReserveGrows` are the three places that assign something, `EditLedger` and
`WrittenLedger` carry the invariant over an edit and a write. The assumptions are
those of `ConstantsAssumption`.

The second part of `RegistryProofs.tla` proves what a restart comes up with, for the
same constants. Each of the three needs to know which copies of the state
may be on disk next, which is why all go over the chain of writes: `ChainedStep`
shows once that what memory always has, the chain and the disk come to have.
`PolicyInv` says which configuration each copy results in: during a policy change
those from its own save on in the new one, all before it in the old one; it gives
`PolicyDurable`. `SaneInv` says that each copy has valid hours and names, and that an
operation in an await knows a name before it sets `desired` and valid hours to go
back to; with `LedgerInv` it gives `RestartAccepted`, under the hypothesis `Narrow`
that no policy allows hours that the environment does not. The hypothesis is
necessary: without it `registry_restart` finds the state of finding 3. `RoomInv` says
that all fit under the configuration in force and under the one that a refused change
would go back to, and that an operation at work is not about a tombstone; it gives
`CapacityKept`, by the cardinality of the sets of sessions.

`CredentialProofs.tla` proves all four properties of `credential_safety` for any
managers and logins. `LoginInv` says why the marker is enough: while the holder of
the lock is in an operation the row is dirty (`Marked`), whoever is in one, with
or without a connection, shares its login with nobody and not with a clean row
(`Apart`), and a login that can still get to a checkpoint is not spent, unless a keyring
fell back to it (`Fresh`).

`TunnelProofs.tla` proves `TypeOK`, `ServedIsVerified`, `MigrationResumes` and
`OwnOnly` for any clusters, ports, policies, lost calls and strangers. `TunnelInv`
has four parts. `Own`: what the Hub holds or is about to compensate it has created
itself. `Migrating`: `provision()` works on ports it knows, and unless a stranger came
in between, exactly those that are there. `Serving`: from the save on, the recorded
ports are the policy's. `Resumable`: without strangers, the ports at the service are
the recorded ones or those of the unfinished migration, so the next start finds only
ports it knows. `DesiredRests` is the safety half of `Recovers`: a desired session whose
tunnel no stranger changed rests only after a transient error, never in one that waits
for somebody, and its retry is due unless there were more faults and changes by strangers
than retries (`Budget`: every counted failure has a fault or a stranger's change of its
own, and a change the run is still to fail on is `Owed`). `DesiredInv` adds what that
needs: an unfinished migration of a desired session is one to the policy in force, and
its ports are the recorded ones once verified. `LeavesNoTunnel`: while every call is
answered and nothing crashes, compensations included, no tunnel of the Hub is left behind.

`ConsoleProofs.tla` proves `TypeOK` and the five properties of `console` for any
accounts, identities, browsers, tokens and any number of requests at once. All 38
actions are first shown to have one of a few `Effects` on the data, the sessions, the
requests and the queue; the invariant is then proved from those. `ConsoleInv` says
what a captured value is worth. `Evidence`: what a request captured of its account is
still so as long as the account's epoch is. `Sound`: a session of the present epoch
was verified against the present secret. `Decided`: what an update was accepted on
holds until it is committed, because only the head of the queue commits. With
`Grows` (an epoch grows whenever rights or password change) a comparison of epochs
after an await is as good as holding a lock over it, which is what the code relies on.

`SocksProofs.tla` proves `TypeOK`, `PayloadInOrder`, `RepliesInOrder` and
`UpstreamBounded` for any number of connections, any limits, and whatever clients and
Squid send in reads of whatever size. That a message may be cut anywhere rests on two
lemmas about the parsers, `GreetingStays` and `RequestStays`: once a message is
complete, more bytes do not change where it ends. `Good` then says for each phase
where the bytes of the client and the tokens of Squid are: in the handshake, what is
kept and what is still unread make up what follows the messages already taken; in the
stream, what was piped and what is unread make up the payload and the banner, as
`unshift()` puts the coalesced bytes back in front (`ReadMore`, `RestOfConcat`,
`HeaderStays`). A failure only freezes what either side was told (`FailAsGood`), and a
step leaves the other connections alone (`Others`).

Two theorems are the safety halves of its liveness. `NobodyStays`: every client that
holds a place has a timer that will fail it or a socket on its way to its close event.
`CloseLeavesNothing`: once `close()` has returned nothing listens, no socket is left,
and it stays so, also when `listen()` was in progress. Their invariant `LeaveInv` says
that a closed connection has given up its socket (`Leaving`) and how far the server is
on its way down (`Down`).

`LiveProofs.tla` proves `LoginOwnsView` and `LogsOnce` for any number of logins,
changes, records, restarts of the manager and faults of the network. The tab's callbacks
are operators from record to record that call each other, so the proof has a lemma per
operator, `Kept(t, u, n)`, that composes as the code does. `LoginInv` says that what the
tab still awaits and would show comes from the last login, that a tab which is signed
out holds and awaits nothing (`LeavesNothing`), and that a tab signed in as an earlier
login shows the login page. "Log and catalog are those of the login" is not inductive,
nor an invariant: a late answer to `/auth/options` may put the login page over a console
that somebody has signed in to (see below), and the login after that finds the old log.
`LoginOwnsView` says that no step but one out of such a `Covered` state mixes two logins;
`OwnViewUncovered` that without such a state log and catalog are always the login's.
`LogOnce` rests on `LogInv`: an awaited answer was asked for with the cursor the tab has
now, by the manager that runs or by one before it (`AskedFor`), so appending it
continues the log whichever answers were lost, late or cut off by a restart.

Every type invariant and safety property of a passing run is proved. TLC alone checks
liveness: `StandbyReplacesOlder`, `ServiceResumes`, `EverythingEnds`, `Recovers`,
`PlaceFreed`, `CloseReturns`, `ViewCurrent`, `LogsCurrent` and `RevokedLeaves`. They need
fairness and ENABLED, which the prover cannot reason about; for four of them the safety
half is proved, that no reachable state is without the timer, the task or the retry that
fairness then lets happen (a tunnel's retry, as long as they are not used up).
The assumptions of all proofs are the `ConstantsAssumption` of
the modules: constants have the right kind and marker values are not among the things
they mark (`"op"` is no slot of a failure, `None` no cluster). No bound is assumed except
to be a number, so the theorems hold for any.

## Disagreements without a run

Five more places where the code does not do what the repository says. They were seen
with the same models and are left without a run, so that the runs above stay with the
questions that matter most:

- `postgres.ts:367`: `open()` throws `HUB_ALREADY_ACTIVE` whenever its own row says
  leader or draining, also when that row is stale because the process crashed. If an
  older deployment has taken the lock meanwhile, the newer one never replaces it,
  however often it is restarted; `images/hub/README.md:534` says "later compatible
  revisions replace each other automatically".
- `postgres.ts:340`: after `markFailed` the monitor runs until `close()`, and its
  takeover branch sets the row from `failed` to `draining`. If the process dies before
  `close()` puts it back, the failed deployment opens again, where
  `images/hub/tests/postgres-probe.mjs:83` expects `DEPLOYMENT_PREVIOUSLY_FAILED`.
- `manager.ts:466`: `start` on a running session throws `SESSION_ALREADY_RUNNING` into
  `fail()`, which stops the healthy worker; a retry that finds the session busy fails
  with `SESSION_BUSY`. Neither code is retried, so a desired session rests in error;
  `images/hub/README.md:501` says "Transient failures get bounded exponential retries.
  Policy and identity mismatches need intervention."
- `auth.ts:436`: a keyring that had to be killed may have lost its last writes, but the
  runtime is used again and its next checkpoint publishes the home as clean, where
  `images/hub/tests/postgres-probe.mjs:87` says it "must leave its checkpoint dirty".
  `lost` has these logins in `CredentialStore`.
- `app.js:491`: `loginPage()` awaits `/auth/options` and does not compare
  `authGeneration` afterwards, so a late answer puts the login page over a console that
  somebody has signed in to meanwhile. Signing in there as somebody else runs
  `bootstrap()`, which clears neither logs nor cursor nor catalog: the log of the one
  before is shown until it is replaced. `images/hub/tests/web-live-ui.test.mjs:149` says
  the page "ignores stale callbacks". It takes three logins; the proof of
  `LoginOwnsView` came upon it. `Covered` marks these states in `LiveView`.

## What is left

1. `Release`: promotion of tags and assets, resumed after a partial failure.
2. `Entrypoint`: the shell supervisors of the tunnel and OpenVPN containers.

## Not modelled

The configuration parser, the squid configuration text, rendering and forms of the
browser pages, image and package builds and the one-shot pipeline scripts keep no
state that a model could tell apart. Limits that only refuse (rates, jobs, flows) and
the SSH library under `forwardPort` are left out of the modules that border on them.
Cryptography is abstracted wherever it is used: a package that was sealed can be opened
with its key. `PROJECT.json` gives the reason for each component.
