------------------------------ MODULE Console ------------------------------
(***************************************************************************)
(* The web console: class WebConsole (web/server.ts), the control data     *)
(* behind it, class ControlStore (web/control.ts), and the browser         *)
(* sessions, class Sessions (web/security.ts).                             *)
(*                                                                         *)
(* A request is a chain of awaits: its body, a scrypt or an identity       *)
(* provider, its place in the queue of updates, the save.  `pc' names the  *)
(* await a request is in and `req' what it captured before; between two    *)
(* awaits everything else may happen.  The variables from `rev' to `done'  *)
(* are ControlData as last committed.                                      *)
(*                                                                         *)
(* Abstractions: a password is the revision that set it, the               *)
(* infrastructure profile the revision that wrote it; there is one         *)
(* identity provider with registration enabled; rate limits, the two slots *)
(* of authenticate(), malformed fields and elapsed times are choices       *)
(* (Refuse, Expire).  A cookie whose session is gone counts as none.       *)
(***************************************************************************)
EXTENDS Naturals, Sequences, FiniteSets

\* What requests are for: those of a signed-in browser, the others.
SignedIn == {"password", "user", "provider", "infra", "policy", "job"}
Edits == {"user", "provider", "infra", "policy"}
Kinds == SignedIn \cup {"unlock", "complete", "login", "external", "reset"}

CONSTANTS
  Accounts,   \* ids of console users
  Local,      \* those that sign in with a password
  Admin,      \* the recovery administrator
  Subjects,   \* identities the provider knows
  Tunnels,    \* sessions of the Hub that can be granted
  Bindings,   \* the accounts of identities in data that is loaded
  Profiles,   \* the role, grants and disabled flag an administrator may set
  Browsers,
  Tokens,     \* session cookies; their number is the capacity
  Requests,   \* requests, CLI commands, OAuth flows and operations at once
  MaxRev,     \* requests of a kind arrive before this revision: a bound
  None

\* A browser session; what a request captured.
Session == [user : Accounts, epoch : Nat, ext : BOOLEAN, pepoch : Nat,
            verified : Nat]
Request == [kind : Kinds, browser : Browsers \cup {None}, tok : Tokens \cup {None},
            user : Accounts, epoch : Nat, pw : Nat, seen : Nat, base : Nat,
            target : Accounts, profile : Profiles \cup {None}, flag : BOOLEAN,
            subject : Subjects \cup {None}, tunnel : Tunnels \cup {None}]

ASSUME ConstantsAssumption ==
  /\ Admin \in Local /\ Local \subseteq Accounts
  /\ Profiles \subseteq [role : {"admin", "operator", "viewer"}, off : BOOLEAN,
                         grants : SUBSET Tunnels]
  /\ DOMAIN Bindings \subseteq Accounts \ Local
  /\ Bindings \in [DOMAIN Bindings -> Subjects]
  /\ \A u, v \in DOMAIN Bindings : Bindings[u] = Bindings[v] => u = v
  /\ MaxRev \in [Kinds -> Nat]
  /\ None \notin Tokens \cup Browsers \cup Subjects \cup Accounts \cup Profiles
  /\ None \notin Session /\ None \notin Request

VARIABLES
  rev,        \* ControlData.revision
  exists, role, off, grants, epoch, pw, must, ident,   \* users
  pon, pepoch,  \* the provider: enabled, epoch
  infra,      \* infrastructure profile
  done,       \* setupCompletedAt
  failed,     \* a save of the control data failed
  sess,       \* browser sessions by token
  cookie,     \* the token a browser holds
  token,      \* a setup token has been issued and not used
  setup,      \* the browser with the setup session
  closed,
  pc, req,    \* requests: the await they are in, what they captured
  queue       \* updates of the control data, first in, first out

userVars == <<exists, role, off, grants, epoch, pw, must, ident>>
provVars == <<pon, pepoch>>
dataVars == <<rev, userVars, provVars, infra, done>>
webVars == <<sess, cookie, token, setup>>
reqVars == <<pc, req, queue>>
vars == <<dataVars, failed, webVars, closed, reqVars>>

Roles == {"admin", "operator", "viewer"}
PCs == {"idle", "body", "scrypt", "discovery", "begun", "identity", "applying",
        "queued", "saving", "running"}

SetupRequired == ~done /\ pw[Admin] = 0
Known(u) == u \in exists /\ ~off[u]

\* Sessions.get(): the session of a token exists and its user and provider are
\* still those it was created for.
Usable(t) ==
  /\ t # None /\ ~failed
  /\ sess[t] # None
  /\ Known(sess[t].user) /\ epoch[sess[t].user] = sess[t].epoch
  /\ sess[t].ext => pon /\ pepoch = sess[t].pepoch

\* Policy changes that hold the manager's changingPolicy.
Applying ==
  {q \in Requests : /\ pc[q] \in {"applying", "queued", "saving"}
                    /\ req[q].kind \in {"policy", "complete"}}

\* What a request of kind k and browser b captures when it arrives: the cookie,
\* the account u it acts for; only some kinds look at the other fields.
Arrived(k, b, u) ==
  [kind |-> k, browser |-> b, tok |-> IF b = None THEN None ELSE cookie[b],
   user |-> u, epoch |-> 0, pw |-> 0, seen |-> 0, base |-> 0, target |-> u,
   profile |-> None, flag |-> FALSE, subject |-> None, tunnel |-> None]

Begins(q, step, r) ==
  /\ pc[q] = "idle" /\ ~closed /\ rev < MaxRev[r.kind]
  /\ pc' = [pc EXCEPT ![q] = step] /\ req' = [req EXCEPT ![q] = r]
  /\ UNCHANGED <<dataVars, failed, sess, cookie, token, setup, closed, queue>>
Await(q, step) == pc' = [pc EXCEPT ![q] = step] /\ UNCHANGED queue
Enqueue(q) == pc' = [pc EXCEPT ![q] = "queued"] /\ queue' = Append(queue, q)
Ends(q) == pc' = [pc EXCEPT ![q] = "idle"] /\ req' = [req EXCEPT ![q] = None]

\* The types, and the shape of the queue: it holds the requests whose update waits
\* or is saved, once each, and only its head is saved.
TypeOK ==
  /\ rev \in Nat /\ exists \subseteq Accounts
  /\ role \in [Accounts -> Roles] /\ off \in [Accounts -> BOOLEAN]
  /\ grants \in [Accounts -> SUBSET Tunnels]
  /\ epoch \in [Accounts -> Nat] /\ pw \in [Accounts -> Nat]
  /\ must \in [Accounts -> BOOLEAN]
  /\ ident \in [Accounts -> Subjects \cup {None}]
  /\ pon \in BOOLEAN /\ pepoch \in Nat /\ infra \in Nat /\ done \in BOOLEAN
  /\ failed \in BOOLEAN
  /\ sess \in [Tokens -> Session \cup {None}]
  /\ cookie \in [Browsers -> Tokens \cup {None}]
  /\ token \in BOOLEAN /\ setup \in Browsers \cup {None}
  /\ closed \in BOOLEAN
  /\ pc \in [Requests -> PCs] /\ req \in [Requests -> Request \cup {None}]
  /\ queue \in Seq(Requests)
  /\ \A q \in Requests : req[q] = None <=> pc[q] = "idle"
  /\ \A i \in 1..Len(queue) :
       pc[queue[i]] \in {"queued"} \cup IF i = 1 THEN {"saving"} ELSE {}
  /\ \A i, j \in 1..Len(queue) : queue[i] = queue[j] => i = j
  /\ \A q \in Requests : pc[q] \in {"queued", "saving"} =>
                          \E i \in 1..Len(queue) : queue[i] = q
-----------------------------------------------------------------------------
\* ControlStore.load(): new control data, saved with a recovery administrator who
\* has no password, or the data of local administrators, accounts of identities and an enabled
\* provider.
Init ==
  \E loaded \in BOOLEAN :
    /\ rev = 1
    /\ exists = IF loaded THEN Local \cup DOMAIN Bindings ELSE {Admin}
    /\ role = [u \in Accounts |-> IF u \in Local THEN "admin" ELSE "viewer"]
    /\ off = [u \in Accounts |-> FALSE]
    /\ grants = [u \in Accounts |-> {}]
    /\ epoch = [u \in Accounts |-> 0]
    /\ pw = [u \in Accounts |-> IF loaded /\ u \in Local THEN 1 ELSE 0]
    /\ must = [u \in Accounts |-> ~loaded]
    /\ ident = [u \in Accounts |-> IF loaded /\ u \in DOMAIN Bindings
                                   THEN Bindings[u] ELSE None]
    /\ pon = loaded /\ pepoch = 0 /\ infra = 0 /\ done = loaded
    /\ failed = FALSE
    /\ sess = [t \in Tokens |-> None]
    /\ cookie = [b \in Browsers |-> None]
    /\ token = FALSE /\ setup = None
    /\ closed = FALSE
    /\ pc = [q \in Requests |-> "idle"]
    /\ req = [q \in Requests |-> None]
    /\ queue = <<>>

Visible(u, tunnel) == role[u] = "admin" \/ tunnel \in grants[u]

\* What the captured user may ask for.  The code looks at it after the body, but
\* at the object captured before, so the answer is that of the arrival.
Permitted(u, k, tunnel) ==
  /\ k # "password" => ~must[u]
  /\ k = "password" => u \in Local
  /\ k \in Edits => role[u] = "admin"
  /\ k = "job" => role[u] # "viewer" /\ Visible(u, tunnel)

\* What such a request captures; an administrator sends the revision the page was
\* read at.
Asked(b, k, target, profile, flag, tunnel) ==
  LET u == sess[cookie[b]].user IN
  [kind |-> k, browser |-> b, tok |-> cookie[b], user |-> u, epoch |-> epoch[u],
   pw |-> IF k = "password" THEN pw[u] ELSE 0, seen |-> IF k \in Edits THEN rev ELSE 0,
   base |-> 0, target |-> target, profile |-> profile, flag |-> flag,
   subject |-> None, tunnel |-> tunnel]

\* A POST of a signed-in browser: Sessions.get() and the CSRF token, then the
\* body is awaited.
Post(q, b) ==
  /\ pc[q] = "idle" /\ Usable(cookie[b])
  /\ \E k \in SignedIn :
     \E target \in IF k = "user" THEN exists \cup Local ELSE {sess[cookie[b]].user},
        profile \in IF k = "user" THEN Profiles ELSE {None},
        flag \in IF k \in {"user", "provider"} THEN BOOLEAN ELSE {FALSE},
        tunnel \in IF k = "job" THEN Tunnels ELSE {None} :
       /\ Permitted(sess[cookie[b]].user, k, tunnel)
       /\ Begins(q, "body", Asked(b, k, target, profile, flag, tunnel))

\* The session is looked up again after the body; the user captured before it
\* goes on to the handler.
StillUsable_Trusting(q) == ~closed
StillUsable(q) == ~closed /\ Usable(req[q].tok)

BodyRead(q, k) == pc[q] = "body" /\ req[q].kind = k /\ StillUsable(q)

\* updateUser and updateProvider: the edit is queued, after a scrypt if it sets a
\* password.
EditBody(q) ==
  /\ BodyRead(q, "user") \/ BodyRead(q, "provider")
  /\ IF req[q].kind = "user" /\ req[q].flag THEN Await(q, "scrypt") ELSE Enqueue(q)
  /\ UNCHANGED <<dataVars, failed, webVars, closed, req>>

\* updateInfrastructure: the next profile is computed from the present one.
InfrastructureBody(q) ==
  /\ BodyRead(q, "infra")
  /\ req' = [req EXCEPT ![q].base = infra]
  /\ Enqueue(q)
  /\ UNCHANGED <<dataVars, failed, webVars, closed>>

\* updatePolicy: host.policy() applies the policy before it calls persist.
PolicyBody(q) ==
  /\ BodyRead(q, "policy") /\ Applying = {}
  /\ Await(q, "applying")
  /\ UNCHANGED <<dataVars, failed, webVars, closed, req>>

\* changePassword: the current password is verified and the new one hashed.
PasswordBody(q) ==
  /\ BodyRead(q, "password")
  /\ Await(q, "scrypt")
  /\ UNCHANGED <<dataVars, failed, webVars, closed, req>>

\* createJob: the operation is started for the captured user, without an await.
\* It runs in the place of its request, which has been answered, until it settles.
JobBody(q) ==
  /\ BodyRead(q, "job") /\ Await(q, "running")
  /\ UNCHANGED <<dataVars, failed, webVars, closed, req>>
JobEnd(q) ==
  /\ pc[q] = "running" /\ Ends(q)
  /\ UNCHANGED <<dataVars, failed, webVars, closed, queue>>

\* A check that fails, an abort of the client, a wrong password, a policy the
\* manager rejects: the request is answered with an error.  A flow is forgotten.
Refuse(q) ==
  /\ pc[q] \in {"body", "scrypt", "discovery", "begun", "identity", "applying"}
  /\ Ends(q)
  /\ UNCHANGED <<dataVars, failed, webVars, closed, queue>>

\* Sessions.prune(), idle for 30 minutes or 8 hours old, and authLogout, which
\* has no body.
Without(T) ==
  /\ sess' = [t \in Tokens |-> IF t \in T THEN None ELSE sess[t]]
  /\ cookie' = [b \in Browsers |-> IF cookie[b] \in T THEN None ELSE cookie[b]]
Expire(t) ==
  /\ sess[t] # None /\ Without({t})
  /\ UNCHANGED <<dataVars, failed, token, setup, closed, reqVars>>
Logout(b) ==
  /\ ~closed /\ Usable(cookie[b]) /\ Without({cookie[b]})
  /\ UNCHANGED <<dataVars, failed, token, setup, closed, reqVars>>
-----------------------------------------------------------------------------
Fresh(t) == sess[t] = None /\ \A q \in Requests : pc[q] # "idle" => req[q].tok # t

\* Sessions.remove() and create(): the cookie of the request is forgotten and
\* its browser gets a new one, unless there is no capacity.
SignIn(q, u, ext, verified) ==
  LET b == req[q].browser  old == req[q].tok
      kept == [t \in Tokens |-> IF t = old THEN None ELSE sess[t]]
      left == [c \in Browsers |-> IF c = b \/ cookie[c] = old THEN None
                                  ELSE cookie[c]]
      made == [user |-> u, epoch |-> epoch'[u], ext |-> ext, pepoch |-> pepoch,
               verified |-> verified]
  IN \/ /\ ~ \E t \in Tokens : Fresh(t)
        /\ sess' = kept /\ cookie' = left
     \/ \E t \in Tokens :
          /\ Fresh(t)
          /\ sess' = [kept EXCEPT ![t] = made]
          /\ cookie' = [left EXCEPT ![b] = t]

\* authLogin with a password: the candidate is captured, scrypt is awaited.
Login(q, b, u) ==
  /\ ~SetupRequired /\ u \in exists \cap Local
  /\ Begins(q, "scrypt", [Arrived("login", b, u) EXCEPT !.epoch = epoch[u],
                                                        !.pw = pw[u]])

SameEpoch_Unchecked(q) == TRUE
SameEpoch(q) == epoch[req[q].user] = req[q].epoch

\* The password was that of the captured candidate.
LoginEnd(q) ==
  /\ pc[q] = "scrypt" /\ req[q].kind = "login"
  /\ req[q].pw # 0 /\ ~failed /\ Known(req[q].user) /\ SameEpoch(q)
  /\ epoch' = epoch
  /\ SignIn(q, req[q].user, FALSE, req[q].pw)
  /\ Ends(q)
  /\ UNCHANGED <<rev, exists, role, off, grants, pw, must, ident, provVars, infra,
                 done, failed, token, setup, closed, queue>>

\* authBegin awaits the provider's discovery, then the browser has a flow, which
\* is "begun" in the place of its request.
Begin(q, b) ==
  /\ ~SetupRequired /\ pon
  /\ Begins(q, "discovery", [Arrived("external", b, Admin) EXCEPT !.epoch = pepoch,
                                                                  !.tok = None])
Begun(q) ==
  /\ pc[q] = "discovery" /\ Await(q, "begun")
  /\ UNCHANGED <<dataVars, failed, webVars, closed, req>>

\* authCallback uses the flow up and, if the provider is still the one it was
\* begun with, asks it who it was.
Callback(q, s) ==
  /\ pc[q] = "begun" /\ ~closed /\ pon /\ pepoch = req[q].epoch
  /\ req' = [req EXCEPT ![q].tok = cookie[req[q].browser], ![q].subject = s]
  /\ Await(q, "identity")
  /\ UNCHANGED <<dataVars, failed, webVars, closed>>
\* authLogin with an LDAP provider asks the directory at once.
Directory(q, b, s) ==
  /\ ~SetupRequired /\ pon
  /\ Begins(q, "identity", [Arrived("external", b, Admin) EXCEPT !.epoch = pepoch,
                                                                 !.subject = s])

Enrolled(s) == {u \in exists : ident[u] = s}
SameProvider(q) == pon /\ pepoch = req[q].epoch

\* The identity of an account: it is signed in, if it is not disabled.
ExternalKnown(q) ==
  /\ pc[q] = "identity" /\ req[q].kind = "external" /\ SameProvider(q)
  /\ ~failed
  /\ epoch' = epoch
  /\ \E u \in Enrolled(req[q].subject) : ~off[u] /\ SignIn(q, u, TRUE, req[q].epoch)
  /\ Ends(q)
  /\ UNCHANGED <<rev, exists, role, off, grants, pw, must, ident, provVars, infra,
                 done, failed, token, setup, closed, queue>>
\* An identity without an account: external() queues its registration.
ExternalNew(q) ==
  /\ pc[q] = "identity" /\ req[q].kind = "external" /\ SameProvider(q)
  /\ Enrolled(req[q].subject) = {}
  /\ Enqueue(q)
  /\ UNCHANGED <<dataVars, failed, webVars, closed, req>>
-----------------------------------------------------------------------------
\* "hub setup token": the token is issued on the manager's socket, which is
\* closed with the console.
IssueToken ==
  /\ ~closed /\ SetupRequired /\ token' = TRUE /\ setup' = None
  /\ UNCHANGED <<dataVars, failed, sess, cookie, closed, reqVars>>
ExpireToken ==
  /\ token /\ token' = FALSE
  /\ UNCHANGED <<dataVars, failed, sess, cookie, setup, closed, reqVars>>
\* setupUnlock: whether setup is required is checked before the body, the token
\* after it.
Unlock(q, b) ==
  /\ SetupRequired /\ Begins(q, "body", [Arrived("unlock", b, Admin) EXCEPT !.tok = None])
Unlocked(q) ==
  /\ pc[q] = "body" /\ req[q].kind = "unlock" /\ ~closed /\ token
  /\ token' = FALSE /\ setup' = req[q].browser
  /\ Ends(q)
  /\ UNCHANGED <<dataVars, failed, sess, cookie, closed, queue>>

\* setupComplete: the setup session is checked, the password hashed, the policy
\* applied; the rest is checked in the update.
Complete(q, b) ==
  /\ SetupRequired /\ setup = b
  /\ Begins(q, "scrypt", [Arrived("complete", b, Admin) EXCEPT !.seen = rev])
CompleteHashed(q) ==
  /\ pc[q] = "scrypt" /\ req[q].kind = "complete" /\ Applying = {}
  /\ Await(q, "applying")
  /\ UNCHANGED <<dataVars, failed, webVars, closed, req>>

\* "hub admin reset-password" of a local user; it comes from no browser.
Reset(q, u) ==
  /\ Begins(q, "scrypt", Arrived("reset", None, u))

\* scrypt, or the policy, is done and the update is queued.
Hashed(q) ==
  /\ \/ pc[q] = "scrypt" /\ req[q].kind \in {"password", "user", "reset"}
     \/ pc[q] = "applying"
  /\ Enqueue(q)
  /\ UNCHANGED <<dataVars, failed, webVars, closed, req>>
-----------------------------------------------------------------------------
\* WebConsole.update(): the session and the epoch of the captured user.
SessionHolds(q) ==
  /\ ~closed /\ Usable(req[q].tok)
  /\ Known(req[q].user) /\ epoch[req[q].user] = req[q].epoch

SameRevision(q) == req[q].seen = rev

\* The checks of updateUser on its target.
TargetAllowed(q) ==
  LET r == req[q] IN
  /\ r.target \in exists \/ (r.target \in Local /\ r.flag)
  /\ r.target \in {Admin, r.user} => r.profile.role = "admin" /\ ~r.profile.off
  /\ r.flag => r.target \in Local

SetupAllowed(q) == SetupRequired /\ SameRevision(q)

\* The checks of an update that runs: those of update() and those of its edit.
Accepted(q) ==
  LET k == req[q].kind IN
  /\ ~failed
  /\ k \in SignedIn => SessionHolds(q)
  /\ k \in Edits => SameRevision(q)
  /\ k = "user" => TargetAllowed(q)
  /\ k = "complete" => SetupAllowed(q)
  /\ k = "external" => SameProvider(q)
  /\ k = "reset" => req[q].target \in exists \cap Local

\* The queue runs an update: it is rejected, or its draft is being saved.
UpdateStart(q) ==
  /\ queue # <<>> /\ q = Head(queue) /\ pc[q] = "queued"
  /\ Accepted(q) /\ Await(q, "saving")
  /\ UNCHANGED <<dataVars, failed, webVars, closed, req>>
UpdateRejected(q) ==
  /\ queue # <<>> /\ q = Head(queue) /\ pc[q] = "queued"
  /\ ~Accepted(q) /\ queue' = Tail(queue) /\ Ends(q)
  /\ UNCHANGED <<dataVars, failed, webVars, closed>>

\* The save has succeeded: this.data becomes the draft.
Saved(q, k) ==
  /\ queue # <<>> /\ q = Head(queue) /\ pc[q] = "saving" /\ req[q].kind = k
  /\ queue' = Tail(queue) /\ Ends(q)
  /\ rev' = rev + 1
  /\ UNCHANGED <<failed, closed>>

NextEpoch_Kept(u) == epoch[u]
NextEpoch(u) == epoch[u] + 1

SavedUser(q) ==
  LET u == req[q].target  p == req[q].profile IN
  /\ Saved(q, "user")
  /\ exists' = exists \cup {u}
  /\ role' = [role EXCEPT ![u] = p.role] /\ off' = [off EXCEPT ![u] = p.off]
  /\ grants' = [grants EXCEPT ![u] = p.grants]
  /\ epoch' = [epoch EXCEPT ![u] = NextEpoch(u)]
  /\ pw' = IF req[q].flag THEN [pw EXCEPT ![u] = rev + 1] ELSE pw
  /\ must' = IF req[q].flag THEN [must EXCEPT ![u] = TRUE] ELSE must
  /\ UNCHANGED <<ident, provVars, infra, done, sess, cookie, token, setup>>

\* changePassword goes on by replacing the browser's session.
SavedPassword(q) ==
  LET u == req[q].user IN
  /\ Saved(q, "password")
  /\ pw' = [pw EXCEPT ![u] = rev + 1] /\ must' = [must EXCEPT ![u] = FALSE]
  /\ epoch' = [epoch EXCEPT ![u] = NextEpoch(u)]
  /\ SignIn(q, u, FALSE, rev + 1)
  /\ UNCHANGED <<exists, role, off, grants, ident, provVars, infra, done, token,
                 setup>>

NextProviderEpoch_Kept == pepoch
NextProviderEpoch == pepoch + 1

SavedProvider(q) ==
  /\ Saved(q, "provider")
  /\ pon' = req[q].flag /\ pepoch' = NextProviderEpoch
  /\ UNCHANGED <<userVars, infra, done, sess, cookie, token, setup>>

SavedInfrastructure(q) ==
  /\ Saved(q, "infra") /\ infra' = rev + 1
  /\ UNCHANGED <<userVars, provVars, done, sess, cookie, token, setup>>

SavedPolicy(q) ==
  /\ Saved(q, "policy")
  /\ UNCHANGED <<userVars, provVars, infra, done, sess, cookie, token, setup>>

\* setupComplete goes on by ending the setup and signing the administrator in.
SavedSetup(q) ==
  /\ Saved(q, "complete")
  /\ pw' = [pw EXCEPT ![Admin] = rev + 1] /\ must' = [must EXCEPT ![Admin] = FALSE]
  /\ epoch' = [epoch EXCEPT ![Admin] = NextEpoch(Admin)]
  /\ infra' = rev + 1 /\ done' = TRUE /\ setup' = None
  /\ SignIn(q, Admin, FALSE, rev + 1)
  /\ UNCHANGED <<exists, role, off, grants, ident, provVars, token>>

SavedReset(q) ==
  LET u == req[q].target IN
  /\ Saved(q, "reset")
  /\ pw' = [pw EXCEPT ![u] = rev + 1] /\ must' = [must EXCEPT ![u] = TRUE]
  /\ epoch' = [epoch EXCEPT ![u] = NextEpoch(u)]
  /\ off' = IF u = Admin THEN [off EXCEPT ![u] = FALSE] ELSE off
  /\ role' = IF u = Admin THEN [role EXCEPT ![u] = "admin"] ELSE role
  /\ UNCHANGED <<exists, grants, ident, provVars, infra, done, sess, cookie, token,
                 setup>>

MayEnrol_Trusting(s) == Accounts \ (exists \cup Local)
\* The account an identity gets: none if it has one by now.
MayEnrol(s) == IF Enrolled(s) # {} THEN {} ELSE Accounts \ (exists \cup Local)

\* external() adds a disabled viewer, to be approved by an administrator.
SavedExternal(q) ==
  LET s == req[q].subject IN
  /\ Saved(q, "external")
  /\ IF MayEnrol(s) = {} THEN UNCHANGED userVars
     ELSE LET u == CHOOSE x \in MayEnrol(s) : TRUE IN
          /\ exists' = exists \cup {u}
          /\ ident' = [ident EXCEPT ![u] = s]
          /\ role' = [role EXCEPT ![u] = "viewer"] /\ off' = [off EXCEPT ![u] = TRUE]
          /\ grants' = [grants EXCEPT ![u] = {}] /\ must' = [must EXCEPT ![u] = FALSE]
          /\ UNCHANGED <<epoch, pw>>
  /\ UNCHANGED <<provVars, infra, done, sess, cookie, token, setup>>

\* WebConsole.close(): the sessions, flows and the setup are cleared.
Shut(ended) ==
  LET gone == {q \in Requests : pc[q] = "begun"} \cup ended IN
  /\ closed' = TRUE
  /\ Without(Tokens) /\ token' = FALSE /\ setup' = None
  /\ pc' = [q \in Requests |-> IF q \in gone THEN "idle" ELSE pc[q]]
  /\ req' = [q \in Requests |-> IF q \in gone THEN None ELSE req[q]]
Close == ~closed /\ Shut({}) /\ UNCHANGED <<dataVars, failed, queue>>

\* A failed save fences the manager, which closes the console.
SaveFails(q) ==
  /\ queue # <<>> /\ q = Head(queue) /\ pc[q] = "saving"
  /\ queue' = Tail(queue) /\ failed' = TRUE /\ Shut({q})
  /\ UNCHANGED dataVars
-----------------------------------------------------------------------------
SignIns(q) ==
  \/ \E b \in Browsers, u \in Local : Login(q, b, u)
  \/ LoginEnd(q)
  \/ \E b \in Browsers : Begin(q, b)
  \/ Begun(q)
  \/ \E s \in Subjects : Callback(q, s)
  \/ \E b \in Browsers, s \in Subjects : Directory(q, b, s)
  \/ ExternalKnown(q) \/ ExternalNew(q)
Handlers(q) ==
  \/ \E b \in Browsers : Post(q, b)
  \/ EditBody(q) \/ InfrastructureBody(q) \/ PolicyBody(q) \/ PasswordBody(q)
  \/ JobBody(q) \/ JobEnd(q)
  \/ \E b \in Browsers : Unlock(q, b) \/ Complete(q, b)
  \/ Unlocked(q)
  \/ CompleteHashed(q)
  \/ \E u \in Local : Reset(q, u)
  \/ Hashed(q) \/ Refuse(q)
Updates(q) ==
  \/ UpdateStart(q) \/ UpdateRejected(q) \/ SavedUser(q) \/ SavedPassword(q) \/ SavedProvider(q)
  \/ SavedInfrastructure(q) \/ SavedPolicy(q) \/ SavedSetup(q) \/ SavedReset(q)
  \/ SavedExternal(q) \/ SaveFails(q)
Next ==
  \/ \E q \in Requests : SignIns(q) \/ Handlers(q) \/ Updates(q)
  \/ \E b \in Browsers : Logout(b)
  \/ \E t \in Tokens : Expire(t)
  \/ IssueToken \/ ExpireToken \/ Close

Spec == Init /\ [][Next]_vars
-----------------------------------------------------------------------------
\* A usable session rests on a check of the account's present password, or of
\* the present configuration of the provider: no reset, reapproval or provider
\* change leaves behind a session that an older secret opened, whatever the
\* order of the awaits in authLogin, authCallback and the updates (server.ts).
UsableIsVerified ==
  \A t \in Tokens : Usable(t) =>
    sess[t].verified = IF sess[t].ext THEN pepoch ELSE pw[sess[t].user]

\* No identity of the provider owns two accounts, although two callbacks may
\* both find it unknown before either registers it (external, control.ts).
UniqueIdentity ==
  \A u, v \in exists : u # v /\ ident[u] # None => ident[u] # ident[v]

\* An update takes effect only if what it was decided on still holds when it is
\* saved: its account is enabled, and an administrator's for an edit; the old
\* password, verified two awaits earlier, is the present one, so that a change does
\* not undo a reset; setup completes only while the recovery administrator has no
\* password, so it replaces none set by a reset or another setup; a profile of the
\* infrastructure was computed from the one it replaces (update, changePassword,
\* setupComplete, updateInfrastructure in server.ts).
CommitsCurrent ==
  [][\A q \in Requests :
       pc[q] = "saving" /\ rev' # rev /\ q = Head(queue) =>
         LET r == req[q] IN
         /\ r.kind \in SignedIn => Known(r.user)
         /\ r.kind \in Edits => role[r.user] = "admin"
         /\ r.kind = "password" => r.pw = pw[r.user]
         /\ r.kind = "complete" => pw[Admin] = 0 /\ ~done
         /\ r.kind = "infra" => r.base = infra]_vars

\* An operation is started only for an account that may operate that tunnel
\* when it starts, not when its request arrived (createJob after the body).
JobsAuthorized ==
  [][\A q \in Requests : pc[q] # "running" /\ pc'[q] = "running" =>
       LET u == req[q].user IN
       /\ Known(u) /\ ~failed /\ ~closed /\ role[u] # "viewer" /\ ~must[u]
       /\ Visible(u, req[q].tunnel)]_vars

\* A session that a change of its user or provider has made unusable does not
\* become usable again by a later change (Sessions.get(), security.ts).
RevocationFinal ==
  [][\A t \in Tokens :
       sess[t] # None /\ ~Usable(t) /\ sess'[t] = sess[t] => ~Usable(t)']_vars
=============================================================================
