---------------------------- MODULE ConsoleProofs ----------------------------
(***************************************************************************)
(* The console, for any accounts, identities, browsers and requests: no    *)
(* interleaving of requests, updates and sign-ins makes a session rest on  *)
(* an older secret, revives it, or lets an update or an operation rest on  *)
(* what does not hold any more.                                            *)
(***************************************************************************)
EXTENDS Console, TLAPS

\* TypeOK has the types of the data, of the sessions and of the requests, and the
\* shape of the queue.
DataTypes ==
  /\ rev \in Nat /\ exists \subseteq Accounts
  /\ role \in [Accounts -> Roles] /\ off \in [Accounts -> BOOLEAN]
  /\ grants \in [Accounts -> SUBSET Tunnels]
  /\ epoch \in [Accounts -> Nat] /\ pw \in [Accounts -> Nat]
  /\ must \in [Accounts -> BOOLEAN]
  /\ ident \in [Accounts -> Subjects \cup {None}]
  /\ pon \in BOOLEAN /\ pepoch \in Nat /\ infra \in Nat /\ done \in BOOLEAN
  /\ failed \in BOOLEAN
WebTypes ==
  /\ sess \in [Tokens -> Session \cup {None}]
  /\ cookie \in [Browsers -> Tokens \cup {None}]
  /\ token \in BOOLEAN /\ setup \in Browsers \cup {None}
  /\ closed \in BOOLEAN
ReqTypes ==
  /\ pc \in [Requests -> PCs] /\ req \in [Requests -> Request \cup {None}]
  /\ \A q \in Requests : req[q] = None <=> pc[q] = "idle"
Queued(q) == pc[q] \in {"queued", "saving"}
QueueOK ==
  /\ queue \in Seq(Requests)
  /\ \A i \in 1..Len(queue) :
       pc[queue[i]] \in {"queued"} \cup IF i = 1 THEN {"saving"} ELSE {}
  /\ \A i, j \in 1..Len(queue) : queue[i] = queue[j] => i = j
  /\ \A q \in Requests : Queued(q) => \E i \in 1..Len(queue) : queue[i] = q

LEMMA TypeParts == TypeOK <=> DataTypes /\ WebTypes /\ ReqTypes /\ QueueOK
BY DEF TypeOK, DataTypes, WebTypes, ReqTypes, QueueOK, Queued

LEMMA NoneApart == None \notin Request /\ None \notin Session
BY ConstantsAssumption DEF ConstantsAssumption
-----------------------------------------------------------------------------
\* What a request is for goes with the await it is in and with what it captured.
Flows ==
  \A q \in Requests : pc[q] # "idle" =>
    LET r == req[q] IN
    /\ pc[q] \in {"discovery", "begun", "identity"} => r.kind = "external"
    /\ pc[q] = "applying" => r.kind \in {"policy", "complete"}
    /\ r.kind # "reset" => r.browser # None
    /\ r.kind = "user" => r.profile \in Profiles /\ r.target \in exists \cup Local

\* The actions that commit an update, and those that sign a browser in.
Commits(q) ==
  \/ SavedUser(q) \/ SavedPassword(q) \/ SavedProvider(q) \/ SavedInfrastructure(q)
  \/ SavedPolicy(q) \/ SavedSetup(q) \/ SavedReset(q) \/ SavedExternal(q)
DataEffect == UNCHANGED dataVars \/ \E q \in Requests : Commits(q)
SessEffect ==
  \/ UNCHANGED <<sess, cookie>>
  \/ \E T \in SUBSET Tokens : Without(T)
  \/ \E q \in Requests :
       LoginEnd(q) \/ ExternalKnown(q) \/ SavedPassword(q) \/ SavedSetup(q)
FlagEffect ==
  /\ token' \in BOOLEAN /\ closed' \in BOOLEAN /\ failed' \in BOOLEAN
  /\ closed => closed'
  /\ failed => failed'
  /\ setup' # setup /\ setup' # None =>
       \E q \in Requests : pc[q] # "idle" /\ req[q].kind = "unlock" /\ setup' = req[q].browser

\* A request arrives, goes on, or has ended.
Arrives(q) ==
  \/ \E b \in Browsers, u \in Local : Login(q, b, u)
  \/ \E b \in Browsers : Begin(q, b) \/ Post(q, b) \/ Unlock(q, b) \/ Complete(q, b)
  \/ \E b \in Browsers, s \in Subjects : Directory(q, b, s)
  \/ \E u \in Local : Reset(q, u)
GoesOn(q) ==
  /\ pc[q] # "idle" /\ pc'[q] \in PCs \ {"idle"} /\ req'[q] = req[q]
  /\ pc'[q] \in {"discovery", "begun", "identity"} =>
       pc[q] \in {"discovery", "begun", "identity"}
  /\ pc'[q] = "applying" => pc[q] = "applying" \/ req[q].kind \in {"policy", "complete"}
  /\ pc'[q] = "queued" /\ req[q].kind = "infra" => pc[q] = "queued"
  /\ pc'[q] = "saving" => pc[q] = "saving" \/ UpdateStart(q)
  /\ pc'[q] = "running" => pc[q] = "running" \/ JobBody(q)
ReqEffect ==
  /\ pc' = [q \in Requests |-> pc'[q]] /\ req' = [q \in Requests |-> req'[q]]
  /\ \A q \in Requests :
       \/ pc'[q] = "idle" /\ req'[q] = None
       \/ GoesOn(q)
       \/ Arrives(q)
       \/ \E s \in Subjects : Callback(q, s)
       \/ InfrastructureBody(q)

\* The queue stays, grows by a request, has its head saved, or loses it.
SameQueued(Q) == \A q \in Q : Queued(q) \/ Queued(q)' => pc'[q] = pc[q]
QueueEffect ==
  \/ queue' = queue /\ SameQueued(Requests)
  \/ \E q \in Requests : /\ ~Queued(q) /\ queue' = Append(queue, q)
                         /\ pc' = [pc EXCEPT ![q] = "queued"]
  \/ /\ queue # <<>> /\ pc[Head(queue)] = "queued" /\ queue' = queue
     /\ pc' = [pc EXCEPT ![Head(queue)] = "saving"]
  \/ \E q \in Requests : /\ queue # <<>> /\ q = Head(queue) /\ queue' = Tail(queue)
                         /\ ~Queued(q)' /\ SameQueued(Requests \ {q})
Effects == DataEffect /\ SessEffect /\ FlagEffect /\ ReqEffect /\ QueueEffect

LEMMA InFlight ==
  ASSUME ReqTypes, NEW q \in Requests, pc[q] # "idle"
  PROVE  req[q] \in Request
BY DEF ReqTypes

LEMMA PostCaptures ==
  ASSUME DataTypes, WebTypes, NEW q \in Requests, NEW b \in Browsers, Post(q, b)
  PROVE  \E k \in SignedIn, flag \in BOOLEAN, target \in Accounts,
            profile \in Profiles \cup {None}, tunnel \in Tunnels \cup {None} :
           LET r == Asked(b, k, target, profile, flag, tunnel) IN
           /\ r \in Request /\ Permitted(r.user, k, tunnel) /\ Begins(q, "body", r)
           /\ k = "user" => profile \in Profiles /\ target \in exists \cup Local
<1> DEFINE u == sess[cookie[b]].user
<1>1. cookie[b] \in Tokens /\ sess[cookie[b]] \in Session /\ u \in Accounts
  BY DEF Post, Usable, WebTypes, Session
<1>2. PICK k \in SignedIn : 
        \E target \in IF k = "user" THEN exists \cup Local ELSE {u},
           profile \in IF k = "user" THEN Profiles ELSE {None},
           flag \in IF k \in {"user", "provider"} THEN BOOLEAN ELSE {FALSE},
           tunnel \in IF k = "job" THEN Tunnels ELSE {None} :
          Permitted(u, k, tunnel) /\ Begins(q, "body", Asked(b, k, target, profile, flag, tunnel))
  BY DEF Post
<1>3. PICK target \in IF k = "user" THEN exists \cup Local ELSE {u},
           profile \in IF k = "user" THEN Profiles ELSE {None},
           flag \in IF k \in {"user", "provider"} THEN BOOLEAN ELSE {FALSE},
           tunnel \in IF k = "job" THEN Tunnels ELSE {None} :
          Permitted(u, k, tunnel) /\ Begins(q, "body", Asked(b, k, target, profile, flag, tunnel))
  BY <1>2
<1>4. /\ target \in Accounts /\ flag \in BOOLEAN /\ profile \in Profiles \cup {None}
      /\ tunnel \in Tunnels \cup {None}
      /\ k = "user" => profile \in Profiles /\ target \in exists \cup Local
  BY <1>1, <1>3, ConstantsAssumption DEF ConstantsAssumption, DataTypes
<1> DEFINE r == Asked(b, k, target, profile, flag, tunnel)
<1>6. /\ epoch[u] \in Nat /\ (IF k \in Edits THEN rev ELSE 0) \in Nat
      /\ (IF k = "password" THEN pw[u] ELSE 0) \in Nat
  BY <1>1 DEF DataTypes
<1>7. r.user = u /\ r \in Request
  BY <1>1, <1>4, <1>6, ConstantsAssumption DEF ConstantsAssumption, Asked, Request, Kinds
<1> QED
  BY <1>3, <1>4, <1>7

LEMMA Dequeues ==
  ASSUME ReqTypes, NEW q \in Requests, queue # <<>>, q = Head(queue),
         queue' = Tail(queue), Ends(q)
  PROVE  QueueEffect
<1>1. ~Queued(q)'
  BY DEF Queued, Ends, ReqTypes
<1>2. SameQueued(Requests \ {q})
  BY DEF Queued, Ends, ReqTypes, SameQueued
<1> QED
  BY <1>1, <1>2 DEF QueueEffect

\* Every step has these effects.
LEMMA StepEffects ==
  ASSUME DataTypes, WebTypes, ReqTypes, Flows, [Next]_vars
  PROVE  Effects
<1> USE ConstantsAssumption DEF ConstantsAssumption, dataVars, userVars, provVars, webVars, reqVars
<1> USE DEF Effects, DataEffect, FlagEffect, ReqEffect, DataTypes, WebTypes,
    ReqTypes, PCs
<1>1. CASE UNCHANGED vars
  BY <1>1 DEF vars, SessEffect, Commits, GoesOn, Arrives, QueueEffect, SameQueued, Queued
<1>2. ASSUME NEW q \in Requests, NEW b \in Browsers, NEW u \in Local, Login(q, b, u) PROVE Effects
  BY <1>2 DEF Login, Begins, Arrived, SessEffect, Commits, GoesOn, Arrives,
     QueueEffect, SameQueued, Queued
<1>3. ASSUME NEW q \in Requests, LoginEnd(q) PROVE Effects
  BY <1>3 DEF LoginEnd, Ends, SessEffect, Commits, GoesOn, Arrives, QueueEffect,
     SameQueued, Queued
<1>4. ASSUME NEW q \in Requests, NEW b \in Browsers, Begin(q, b) PROVE Effects
  BY <1>4 DEF Begin, Begins, Arrived, SessEffect, Commits, GoesOn, Arrives,
     QueueEffect, SameQueued, Queued
<1>5. ASSUME NEW q \in Requests, Begun(q) PROVE Effects
  BY <1>5 DEF Begun, Await, SessEffect, Commits, GoesOn, Arrives, QueueEffect,
     SameQueued, Queued
<1>6. ASSUME NEW q \in Requests, NEW s \in Subjects, Callback(q, s) PROVE Effects
  BY <1>6 DEF Callback, Await, SessEffect, Commits, GoesOn, Arrives, QueueEffect,
     SameQueued, Queued
<1>7. ASSUME NEW q \in Requests, NEW b \in Browsers, NEW s \in Subjects, Directory(q, b, s) PROVE Effects
  BY <1>7 DEF Directory, Begins, Arrived, SessEffect, Commits, GoesOn, Arrives,
     QueueEffect, SameQueued, Queued
<1>8. ASSUME NEW q \in Requests, ExternalKnown(q) PROVE Effects
  BY <1>8 DEF ExternalKnown, Ends, SessEffect, Commits, GoesOn, Arrives,
     QueueEffect, SameQueued, Queued
<1>9. ASSUME NEW q \in Requests, ExternalNew(q) PROVE Effects
  BY <1>9 DEF ExternalNew, Enqueue, SessEffect, Commits, GoesOn, Arrives,
     QueueEffect, SameQueued, Queued
<1>10. ASSUME NEW q \in Requests, NEW b \in Browsers, Post(q, b) PROVE Effects
  <2>1. PICK r : pc[q] = "idle" /\ Begins(q, "body", r)
    BY <1>10, PostCaptures DEF Begins
  <2>2. DataEffect /\ SessEffect /\ FlagEffect /\ QueueEffect
    BY <2>1 DEF Begins, SessEffect, QueueEffect, SameQueued, Queued
  <2>3. pc' = [pc EXCEPT ![q] = "body"] /\ req' = [req EXCEPT ![q] = r]
    BY <2>1 DEF Begins
  <2>4. Arrives(q)
    BY <1>10 DEF Arrives
  <2>5. ASSUME NEW p \in Requests, p # q PROVE (pc'[p] = "idle" /\ req'[p] = None) \/ GoesOn(p)
    BY <2>3, <2>5 DEF GoesOn
  <2> QED
    BY <2>2, <2>3, <2>4, <2>5
<1>11. ASSUME NEW q \in Requests, EditBody(q) PROVE Effects
  <2>1. DataEffect /\ SessEffect /\ FlagEffect /\ ReqEffect
    BY <1>11 DEF EditBody, BodyRead, Await, Enqueue, SessEffect, Commits, GoesOn, Arrives
  <2>2. QueueEffect
    BY <1>11 DEF EditBody, BodyRead, Await, Enqueue, QueueEffect, SameQueued, Queued
  <2> QED
    BY <2>1, <2>2
<1>12. ASSUME NEW q \in Requests, InfrastructureBody(q) PROVE Effects
  BY <1>12 DEF InfrastructureBody, BodyRead, Enqueue, SessEffect, Commits, GoesOn,
     Arrives, QueueEffect, SameQueued, Queued
<1>13. ASSUME NEW q \in Requests, PolicyBody(q) PROVE Effects
  BY <1>13 DEF PolicyBody, BodyRead, Await, SessEffect, Commits, GoesOn, Arrives,
     QueueEffect, SameQueued, Queued
<1>14. ASSUME NEW q \in Requests, PasswordBody(q) PROVE Effects
  BY <1>14 DEF PasswordBody, BodyRead, Await, SessEffect, Commits, GoesOn, Arrives,
     QueueEffect, SameQueued, Queued
<1>15. ASSUME NEW q \in Requests, JobBody(q) PROVE Effects
  BY <1>15 DEF JobBody, BodyRead, Await, SessEffect, Commits, GoesOn, Arrives,
     QueueEffect, SameQueued, Queued
<1>16. ASSUME NEW q \in Requests, JobEnd(q) PROVE Effects
  BY <1>16 DEF JobEnd, Ends, SessEffect, Commits, GoesOn, Arrives, QueueEffect,
     SameQueued, Queued
<1>17. ASSUME NEW q \in Requests, NEW b \in Browsers, Unlock(q, b) PROVE Effects
  BY <1>17 DEF Unlock, Begins, Arrived, SessEffect, Commits, GoesOn, Arrives,
     QueueEffect, SameQueued, Queued
<1>18. ASSUME NEW q \in Requests, NEW b \in Browsers, Complete(q, b) PROVE Effects
  BY <1>18 DEF Complete, Begins, Arrived, SessEffect, Commits, GoesOn, Arrives,
     QueueEffect, SameQueued, Queued
<1>19. ASSUME NEW q \in Requests, Unlocked(q) PROVE Effects
  BY <1>19 DEF Unlocked, Ends, SessEffect, Commits, GoesOn, Arrives, QueueEffect,
     SameQueued, Queued
<1>20. ASSUME NEW q \in Requests, CompleteHashed(q) PROVE Effects
  BY <1>20 DEF CompleteHashed, Await, SessEffect, Commits, GoesOn, Arrives,
     QueueEffect, SameQueued, Queued
<1>21. ASSUME NEW q \in Requests, NEW u \in Local, Reset(q, u) PROVE Effects
  BY <1>21 DEF Reset, Begins, Arrived, SessEffect, Commits, GoesOn, Arrives,
     QueueEffect, SameQueued, Queued
<1>22. ASSUME NEW q \in Requests, Hashed(q) PROVE Effects
  BY <1>22 DEF Hashed, Enqueue, Flows, GoesOn, SessEffect, QueueEffect, SameQueued,
     Queued
<1>23. ASSUME NEW q \in Requests, Refuse(q) PROVE Effects
  BY <1>23 DEF Refuse, Ends, SessEffect, Commits, GoesOn, Arrives, QueueEffect,
     SameQueued, Queued
<1>24. ASSUME NEW q \in Requests, UpdateStart(q) PROVE Effects
  BY <1>24 DEF UpdateStart, Await, SessEffect, Commits, GoesOn, Arrives,
     QueueEffect, SameQueued, Queued
<1>25. ASSUME NEW q \in Requests, UpdateRejected(q) PROVE Effects
  <2>1. DataEffect /\ SessEffect /\ FlagEffect /\ ReqEffect
    BY <1>25 DEF UpdateRejected, Ends, SessEffect, Commits, GoesOn, Arrives
  <2>2. QueueEffect
    BY <1>25, Dequeues DEF UpdateRejected
  <2> QED
    BY <2>1, <2>2
<1>26. ASSUME NEW q \in Requests, SavedUser(q) PROVE Effects
  <2>1. DataEffect /\ SessEffect /\ FlagEffect /\ ReqEffect
    BY <1>26 DEF SavedUser, Saved, Ends, SessEffect, Commits, GoesOn, Arrives
  <2>2. QueueEffect
    BY <1>26, Dequeues DEF SavedUser, Saved
  <2> QED
    BY <2>1, <2>2
<1>27. ASSUME NEW q \in Requests, SavedPassword(q) PROVE Effects
  <2>1. DataEffect /\ SessEffect /\ FlagEffect /\ ReqEffect
    BY <1>27 DEF SavedPassword, Saved, Ends, SessEffect, Commits, GoesOn, Arrives
  <2>2. QueueEffect
    BY <1>27, Dequeues DEF SavedPassword, Saved
  <2> QED
    BY <2>1, <2>2
<1>28. ASSUME NEW q \in Requests, SavedProvider(q) PROVE Effects
  <2>1. DataEffect /\ SessEffect /\ FlagEffect /\ ReqEffect
    BY <1>28 DEF SavedProvider, Saved, Ends, SessEffect, Commits, GoesOn, Arrives
  <2>2. QueueEffect
    BY <1>28, Dequeues DEF SavedProvider, Saved
  <2> QED
    BY <2>1, <2>2
<1>29. ASSUME NEW q \in Requests, SavedInfrastructure(q) PROVE Effects
  <2>1. DataEffect /\ SessEffect /\ FlagEffect /\ ReqEffect
    BY <1>29 DEF SavedInfrastructure, Saved, Ends, SessEffect, Commits, GoesOn, Arrives
  <2>2. QueueEffect
    BY <1>29, Dequeues DEF SavedInfrastructure, Saved
  <2> QED
    BY <2>1, <2>2
<1>30. ASSUME NEW q \in Requests, SavedPolicy(q) PROVE Effects
  <2>1. DataEffect /\ SessEffect /\ FlagEffect /\ ReqEffect
    BY <1>30 DEF SavedPolicy, Saved, Ends, SessEffect, Commits, GoesOn, Arrives
  <2>2. QueueEffect
    BY <1>30, Dequeues DEF SavedPolicy, Saved
  <2> QED
    BY <2>1, <2>2
<1>31. ASSUME NEW q \in Requests, SavedSetup(q) PROVE Effects
  <2>1. DataEffect /\ SessEffect /\ FlagEffect /\ ReqEffect
    BY <1>31 DEF SavedSetup, Saved, Ends, SessEffect, Commits, GoesOn, Arrives
  <2>2. QueueEffect
    BY <1>31, Dequeues DEF SavedSetup, Saved
  <2> QED
    BY <2>1, <2>2
<1>32. ASSUME NEW q \in Requests, SavedReset(q) PROVE Effects
  <2>1. DataEffect /\ SessEffect /\ FlagEffect /\ ReqEffect
    BY <1>32 DEF SavedReset, Saved, Ends, SessEffect, Commits, GoesOn, Arrives
  <2>2. QueueEffect
    BY <1>32, Dequeues DEF SavedReset, Saved
  <2> QED
    BY <2>1, <2>2
<1>33. ASSUME NEW q \in Requests, SavedExternal(q) PROVE Effects
  <2>1. DataEffect /\ SessEffect /\ FlagEffect /\ ReqEffect
    BY <1>33 DEF SavedExternal, Saved, Ends, SessEffect, Commits, GoesOn, Arrives
  <2>2. QueueEffect
    BY <1>33, Dequeues DEF SavedExternal, Saved
  <2> QED
    BY <2>1, <2>2
<1>34. ASSUME NEW q \in Requests, SaveFails(q) PROVE Effects
  <2>1. DataEffect /\ SessEffect /\ FlagEffect /\ ReqEffect
    BY <1>34 DEF SaveFails, Shut, SessEffect, GoesOn
  <2>2. ~Queued(q)'
    BY <1>34 DEF SaveFails, Shut, Queued
  <2>3. SameQueued(Requests \ {q})
    BY <1>34 DEF SaveFails, Shut, Queued, SameQueued
  <2>4. QueueEffect
    BY <1>34, <2>2, <2>3 DEF SaveFails, QueueEffect
  <2> QED
    BY <2>1, <2>4
<1>35. ASSUME NEW b \in Browsers, Logout(b) PROVE Effects
  <2>1. SessEffect
    BY <1>35 DEF Logout, Usable, SessEffect
  <2> QED
    BY <1>35, <2>1 DEF Logout, GoesOn, QueueEffect, SameQueued, Queued
<1>36. ASSUME NEW t \in Tokens, Expire(t) PROVE Effects
  BY <1>36 DEF Expire, GoesOn, SessEffect, QueueEffect, SameQueued, Queued
<1>37. CASE IssueToken
  BY <1>37 DEF IssueToken, SessEffect, Commits, GoesOn, Arrives, QueueEffect,
     SameQueued, Queued
<1>38. CASE ExpireToken
  BY <1>38 DEF ExpireToken, SessEffect, Commits, GoesOn, Arrives, QueueEffect,
     SameQueued, Queued
<1>39. CASE Close
  BY <1>39 DEF Close, Shut, Without, SessEffect, Commits, GoesOn, Arrives,
     QueueEffect, SameQueued, Queued
<1> QED
  BY <1>1, <1>2, <1>3, <1>4, <1>5, <1>6, <1>7, <1>8, <1>9, <1>10, <1>11, <1>12,
     <1>13, <1>14, <1>15, <1>16, <1>17, <1>18, <1>19, <1>20, <1>21, <1>22, <1>23,
     <1>24, <1>25, <1>26, <1>27, <1>28, <1>29, <1>30, <1>31, <1>32, <1>33, <1>34,
     <1>35, <1>36, <1>37, <1>38, <1>39 DEF Next, SignIns, Handlers, Updates
-----------------------------------------------------------------------------
\* The types.
LEMMA DataTyped ==
  ASSUME DataTypes, ReqTypes, Flows, Effects
  PROVE  DataTypes'
<1> USE ConstantsAssumption DEF ConstantsAssumption, DataTypes
<1>1. failed' \in BOOLEAN
  BY DEF Effects, FlagEffect
<1>2. CASE UNCHANGED dataVars
  BY <1>1, <1>2 DEF dataVars, userVars, provVars
<1>3. ASSUME NEW q \in Requests, Commits(q) PROVE DataTypes'
  <2>1. req[q] \in Request /\ rev' = rev + 1
    BY <1>3, InFlight DEF Commits, Saved, SavedUser, SavedPassword, SavedProvider,
       SavedInfrastructure, SavedPolicy, SavedSetup, SavedReset, SavedExternal
  <2>2. rev + 1 \in Nat /\ \A u \in Accounts : epoch[u] + 1 \in Nat
    OBVIOUS
  <2>3. CASE SavedUser(q)
    <3>1. req[q].profile \in Profiles /\ req[q].target \in Accounts
      BY <2>1, <2>3 DEF SavedUser, Saved, Flows, Request
    <3> QED
      BY <1>1, <2>1, <2>2, <2>3, <3>1 DEF SavedUser, NextEpoch, Roles, provVars
  <2>4. CASE SavedPassword(q)
    <3>1. req[q].user \in Accounts
      BY <2>1 DEF Request
    <3> QED
      BY <1>1, <2>1, <2>2, <2>4, <3>1 DEF SavedPassword, NextEpoch, provVars
  <2>5. CASE SavedProvider(q)
    <3>1. req[q].flag \in BOOLEAN
      BY <2>1 DEF Request
    <3> QED
      BY <1>1, <2>1, <2>2, <2>5, <3>1 DEF SavedProvider, NextProviderEpoch, userVars
  <2>6. CASE SavedInfrastructure(q)
    BY <1>1, <2>1, <2>2, <2>6 DEF SavedInfrastructure, userVars, provVars
  <2>7. CASE SavedPolicy(q)
    BY <1>1, <2>1, <2>2, <2>7 DEF SavedPolicy, userVars, provVars
  <2>8. CASE SavedSetup(q)
    BY <1>1, <2>1, <2>2, <2>8 DEF SavedSetup, NextEpoch, provVars
  <2>9. CASE SavedReset(q)
    <3>1. req[q].target \in Accounts
      BY <2>1 DEF Request
    <3> QED
      BY <1>1, <2>1, <2>2, <2>9, <3>1 DEF SavedReset, NextEpoch, provVars, Roles
  <2>10. CASE SavedExternal(q)
    <3> DEFINE s == req[q].subject
    <3>1. s \in Subjects \cup {None} /\ MayEnrol(s) \subseteq Accounts
      BY <2>1 DEF Request, MayEnrol
    <3>2. /\ rev' = rev + 1
          /\ UNCHANGED <<epoch, pw, pon, pepoch, infra, done>>
      BY <2>1, <2>10 DEF SavedExternal, userVars, provVars
    <3>3. CASE MayEnrol(s) = {}
      BY <1>1, <2>2, <2>10, <3>2, <3>3 DEF SavedExternal, userVars
    <3>4. CASE MayEnrol(s) # {}
      <4>1. PICK u \in Accounts :
              /\ exists' = exists \cup {u} /\ ident' = [ident EXCEPT ![u] = s]
              /\ role' = [role EXCEPT ![u] = "viewer"] /\ off' = [off EXCEPT ![u] = TRUE]
              /\ grants' = [grants EXCEPT ![u] = {}] /\ must' = [must EXCEPT ![u] = FALSE]
        BY <2>10, <3>1, <3>4 DEF SavedExternal
      <4> QED
        BY <1>1, <2>2, <3>1, <3>2, <4>1 DEF Roles
    <3> QED
      BY <3>3, <3>4
  <2> QED
    BY <1>3, <2>3, <2>4, <2>5, <2>6, <2>7, <2>8, <2>9, <2>10 DEF Commits
<1> QED
  BY <1>2, <1>3 DEF Effects, DataEffect

LEMMA SignInTyped ==
  ASSUME WebTypes, DataTypes, DataTypes', NEW q \in Requests, req[q] \in Request,
         req[q].browser # None, NEW u \in Accounts, NEW ext \in BOOLEAN, NEW v \in Nat,
         SignIn(q, u, ext, v)
  PROVE  /\ sess' \in [Tokens -> Session \cup {None}]
         /\ cookie' \in [Browsers -> Tokens \cup {None}]
<1> DEFINE made == [user |-> u, epoch |-> epoch'[u], ext |-> ext, pepoch |-> pepoch,
                    verified |-> v]
<1>1. made \in Session
  BY DEF Session, DataTypes
<1>2. req[q].browser \in Browsers
  BY DEF Request
<1> DEFINE kept == [t \in Tokens |-> IF t = req[q].tok THEN None ELSE sess[t]]
           left == [c \in Browsers |-> IF c = req[q].browser \/ cookie[c] = req[q].tok
                                       THEN None ELSE cookie[c]]
<1>3. kept \in [Tokens -> Session \cup {None}] /\ left \in [Browsers -> Tokens \cup {None}]
  BY DEF WebTypes
<1>4. \/ sess' = kept /\ cookie' = left
      \/ \E t \in Tokens : /\ sess' = [kept EXCEPT ![t] = made]
                           /\ cookie' = [left EXCEPT ![req[q].browser] = t]
  BY DEF SignIn
<1> HIDE DEF kept, left, made
<1> QED
  BY <1>1, <1>2, <1>3, <1>4

LEMMA WebTyped ==
  ASSUME DataTypes, WebTypes, ReqTypes, Flows, Effects
  PROVE  WebTypes'
<1>0. DataTypes'
  BY DataTyped
<1>1. token' \in BOOLEAN /\ closed' \in BOOLEAN
  BY DEF Effects, FlagEffect
<1>2. setup' \in Browsers \cup {None}
  <2>1. ASSUME NEW q \in Requests, pc[q] # "idle", req[q].kind = "unlock"
        PROVE  req[q].browser \in Browsers
    BY <2>1, InFlight DEF Flows, Request
  <2> QED
    BY <2>1 DEF Effects, FlagEffect, WebTypes
<1> DEFINE Typed == /\ sess' \in [Tokens -> Session \cup {None}]
                    /\ cookie' \in [Browsers -> Tokens \cup {None}]
<1>3. Typed
  <2>1. CASE UNCHANGED <<sess, cookie>>
    BY <2>1 DEF WebTypes
  <2>2. ASSUME NEW T \in SUBSET Tokens, Without(T) PROVE Typed
    BY <2>2 DEF WebTypes, Without
  <2>3. ASSUME NEW q \in Requests, LoginEnd(q) PROVE Typed
    <3>1. req[q] \in Request
      BY <2>3, InFlight DEF LoginEnd
    <3>2. req[q].browser # None /\ req[q].user \in Accounts /\ req[q].pw \in Nat
      BY <2>3, <3>1 DEF LoginEnd, Flows, Request
    <3> QED
      BY <1>0, <2>3, <3>1, <3>2, SignInTyped DEF LoginEnd
  <2>4. ASSUME NEW q \in Requests, ExternalKnown(q) PROVE Typed
    <3>1. req[q] \in Request
      BY <2>4, InFlight DEF ExternalKnown
    <3>2. req[q].browser # None /\ req[q].epoch \in Nat
      BY <2>4, <3>1 DEF ExternalKnown, Flows, Request
    <3>3. PICK u \in Accounts : SignIn(q, u, TRUE, req[q].epoch)
      BY <2>4 DEF ExternalKnown, Enrolled, DataTypes
    <3> QED
      BY <1>0, <3>1, <3>2, <3>3, SignInTyped
  <2>5. ASSUME NEW q \in Requests, SavedPassword(q) \/ SavedSetup(q) PROVE Typed
    <3>1. pc[q] = "saving" /\ req[q].kind \in {"password", "complete"}
      BY <2>5 DEF SavedPassword, SavedSetup, Saved
    <3>2. req[q] \in Request /\ req[q].browser # None /\ rev + 1 \in Nat
      BY <3>1, InFlight DEF Flows, DataTypes
    <3>3. req[q].user \in Accounts /\ Admin \in Accounts
      BY <3>2, ConstantsAssumption DEF Request, ConstantsAssumption
    <3>4. SignIn(q, req[q].user, FALSE, rev + 1) \/ SignIn(q, Admin, FALSE, rev + 1)
      BY <2>5 DEF SavedPassword, SavedSetup
    <3> QED
      BY <1>0, <3>2, <3>3, <3>4, SignInTyped
  <2> QED
    BY <2>1, <2>2, <2>3, <2>4, <2>5 DEF Effects, SessEffect
<1> QED
  BY <1>1, <1>2, <1>3 DEF WebTypes

LEMMA ArrivesTyped ==
  ASSUME DataTypes, WebTypes, ReqTypes, NEW q \in Requests, Arrives(q)
  PROVE  pc'[q] \in PCs \ {"idle"} /\ req'[q] \in Request
<1> DEFINE Typed == pc'[q] \in PCs \ {"idle"} /\ req'[q] \in Request
<1>1. ASSUME NEW s \in PCs \ {"idle"}, NEW r \in Request, Begins(q, s, r) PROVE Typed
  BY <1>1 DEF Begins, ReqTypes
<1>2. ASSUME NEW b \in Browsers, NEW u \in Accounts, NEW k \in Kinds
      PROVE  Arrived(k, b, u) \in Request /\ Arrived(k, None, u) \in Request
  BY <1>2 DEF Arrived, Request, WebTypes
<1> USE ConstantsAssumption DEF ConstantsAssumption
<1>3. ASSUME NEW b \in Browsers, NEW u \in Local, Login(q, b, u) PROVE Typed
  <2>1. [Arrived("login", b, u) EXCEPT !.epoch = epoch[u], !.pw = pw[u]] \in Request
    BY DEF Arrived, Request, DataTypes, WebTypes, Kinds
  <2> QED
    BY <1>1, <1>3, <2>1 DEF Login, Arrived, PCs
<1>4. ASSUME NEW b \in Browsers, Begin(q, b) PROVE Typed
  <2>1. [Arrived("external", b, Admin) EXCEPT !.epoch = pepoch, !.tok = None] \in Request
    BY DEF Arrived, Request, DataTypes, WebTypes, Kinds
  <2> QED
    BY <1>1, <1>4, <2>1 DEF Begin, PCs
<1>5. ASSUME NEW b \in Browsers, NEW s \in Subjects, Directory(q, b, s) PROVE Typed
  <2>1. [Arrived("external", b, Admin) EXCEPT !.epoch = pepoch, !.subject = s] \in Request
    BY DEF Arrived, Request, DataTypes, WebTypes, Kinds
  <2> QED
    BY <1>1, <1>5, <2>1 DEF Directory, PCs
<1>6. ASSUME NEW b \in Browsers, Unlock(q, b) PROVE Typed
  <2>1. [Arrived("unlock", b, Admin) EXCEPT !.tok = None] \in Request
    BY <1>2 DEF Request, Kinds
  <2> QED
    BY <1>1, <1>6, <2>1 DEF Unlock, PCs
<1>7. ASSUME NEW b \in Browsers, Complete(q, b) PROVE Typed
  <2>1. [Arrived("complete", b, Admin) EXCEPT !.seen = rev] \in Request
    BY DEF Arrived, Request, DataTypes, WebTypes, Kinds
  <2> QED
    BY <1>1, <1>7, <2>1 DEF Complete, PCs
<1>8. ASSUME NEW u \in Local, Reset(q, u) PROVE Typed
  <2>1. Arrived("reset", None, u) \in Request
    BY DEF Arrived, Request, Kinds
  <2> QED
    BY <1>1, <1>8, <2>1 DEF Reset, PCs
<1>9. ASSUME NEW b \in Browsers, Post(q, b) PROVE Typed
  BY <1>1, <1>9, PostCaptures DEF PCs
<1> QED
  BY <1>3, <1>4, <1>5, <1>6, <1>7, <1>8, <1>9 DEF Arrives

LEMMA ReqTyped ==
  ASSUME DataTypes, WebTypes, ReqTypes, Flows, Effects
  PROVE  ReqTypes'
<1>1. ASSUME NEW q \in Requests
      PROVE  /\ pc'[q] \in PCs /\ req'[q] \in Request \cup {None}
             /\ req'[q] = None <=> pc'[q] = "idle"
  <2> USE NoneApart
  <2>1. CASE pc'[q] = "idle" /\ req'[q] = None
    BY <2>1 DEF PCs
  <2>2. CASE GoesOn(q)
    BY <2>2, InFlight DEF GoesOn
  <2>3. CASE Arrives(q)
    BY <2>3, ArrivesTyped
  <2>4. ASSUME NEW s \in Subjects, Callback(q, s)
        PROVE  pc'[q] \in PCs \ {"idle"} /\ req'[q] \in Request
    <3>1. req[q] \in Request /\ req[q].browser \in Browsers
      BY <2>4, InFlight DEF Callback, Flows, Request
    <3>2. [req[q] EXCEPT !.tok = cookie[req[q].browser], !.subject = s] \in Request
      BY <3>1 DEF Request, WebTypes
    <3> QED
      BY <2>4, <3>2 DEF Callback, Await, ReqTypes, PCs
  <2>5. CASE InfrastructureBody(q)
    <3>1. pc[q] = "body"
      BY <2>5 DEF InfrastructureBody, BodyRead
    <3>2. req[q] \in Request
      BY <3>1, InFlight
    <3>3. [req[q] EXCEPT !.base = infra] \in Request
      BY <3>2 DEF Request, DataTypes
    <3> QED
      BY <2>5, <3>3 DEF InfrastructureBody, Enqueue, ReqTypes, PCs
  <2> QED
    BY <2>1, <2>2, <2>3, <2>4, <2>5 DEF Effects, ReqEffect
<1> QED
  BY <1>1 DEF Effects, ReqEffect, ReqTypes

LEMMA FlowsStep ==
  ASSUME DataTypes, WebTypes, ReqTypes, Flows, Effects
  PROVE  Flows'
<1>0. exists \subseteq exists'
  <2>1. CASE UNCHANGED dataVars
    BY <2>1 DEF dataVars, userVars
  <2>2. ASSUME NEW q \in Requests, Commits(q) PROVE exists \subseteq exists'
    BY <2>2 DEF Commits, SavedUser, SavedPassword, SavedProvider, SavedInfrastructure,
       SavedPolicy, SavedSetup, SavedReset, SavedExternal, userVars
  <2> QED
    BY <2>1, <2>2 DEF Effects, DataEffect
<1> SUFFICES ASSUME NEW q \in Requests, pc'[q] # "idle"
             PROVE  /\ pc'[q] \in {"discovery", "begun", "identity"} =>
                         req'[q].kind = "external"
                    /\ pc'[q] = "applying" => req'[q].kind \in {"policy", "complete"}
                    /\ req'[q].kind # "reset" => req'[q].browser # None
                    /\ req'[q].kind = "user" => /\ req'[q].profile \in Profiles
                                                /\ req'[q].target \in exists' \cup Local
  BY DEF Flows
<1> DEFINE Flow == /\ pc'[q] \in {"discovery", "begun", "identity"} =>
                         req'[q].kind = "external"
                   /\ pc'[q] = "applying" => req'[q].kind \in {"policy", "complete"}
                   /\ req'[q].kind # "reset" => req'[q].browser # None
                   /\ req'[q].kind = "user" => /\ req'[q].profile \in Profiles
                                               /\ req'[q].target \in exists' \cup Local
<1>1. CASE GoesOn(q)
  BY <1>0, <1>1 DEF GoesOn, Flows
<1>2. CASE Arrives(q)
  <2> USE ConstantsAssumption DEF ConstantsAssumption, ReqTypes
  <2>1. ASSUME NEW b \in Browsers, NEW u \in Local, Login(q, b, u) PROVE Flow
    BY <2>1 DEF Login, Begins, Arrived
  <2>2. ASSUME NEW b \in Browsers, Begin(q, b) PROVE Flow
    BY <2>2 DEF Begin, Begins, Arrived
  <2>3. ASSUME NEW b \in Browsers, NEW s \in Subjects, Directory(q, b, s) PROVE Flow
    BY <2>3 DEF Directory, Begins, Arrived
  <2>4. ASSUME NEW b \in Browsers, Unlock(q, b) \/ Complete(q, b) PROVE Flow
    BY <2>4 DEF Unlock, Complete, Begins, Arrived
  <2>5. ASSUME NEW u \in Local, Reset(q, u) PROVE Flow
    BY <2>5 DEF Reset, Begins, Arrived
  <2>6. ASSUME NEW b \in Browsers, Post(q, b) PROVE Flow
    <3>1. PICK k \in SignedIn, flag \in BOOLEAN, target \in Accounts,
               profile \in Profiles \cup {None}, tunnel \in Tunnels \cup {None} :
            /\ Begins(q, "body", Asked(b, k, target, profile, flag, tunnel))
            /\ k = "user" => profile \in Profiles /\ target \in exists \cup Local
      BY <2>6, PostCaptures
    <3> QED
      BY <1>0, <3>1 DEF Begins, Asked
  <2> QED
    BY <1>2, <2>1, <2>2, <2>3, <2>4, <2>5, <2>6 DEF Arrives
<1>3. ASSUME NEW s \in Subjects, Callback(q, s) PROVE Flow
  <2>1. req[q] \in Request
    BY <1>3, InFlight DEF Callback
  <2> QED
    BY <1>3, <2>1 DEF Callback, Await, Flows, ReqTypes, Request
<1>4. CASE InfrastructureBody(q)
  <2>1. pc[q] = "body" /\ req[q].kind = "infra"
    BY <1>4 DEF InfrastructureBody, BodyRead
  <2>2. req[q] \in Request
    BY <2>1, InFlight
  <2> QED
    BY <1>4, <2>1, <2>2 DEF InfrastructureBody, Enqueue, Flows, ReqTypes, Request
<1> QED
  BY <1>1, <1>2, <1>3, <1>4 DEF Effects, ReqEffect

\* The queue keeps its shape.
LEMMA QueueStep ==
  ASSUME ReqTypes, QueueOK, Effects
  PROVE  QueueOK'
<1> USE DEF QueueOK
<1>1. CASE queue' = queue /\ SameQueued(Requests)
  BY <1>1 DEF SameQueued, Queued
<1>2. ASSUME NEW q \in Requests, ~Queued(q), queue' = Append(queue, q),
             pc' = [pc EXCEPT ![q] = "queued"]
      PROVE  QueueOK'
  <2>1. queue' \in Seq(Requests) /\ Len(queue') = Len(queue) + 1
    BY <1>2
  <2>2. \A i \in 1..Len(queue) : queue'[i] = queue[i] /\ queue[i] \in Requests /\ queue[i] # q
    BY <1>2 DEF Queued
  <2>3. queue'[Len(queue) + 1] = q /\ Len(queue) \in Nat
    BY <1>2
  <2>4. \A p \in Requests : p # q => pc'[p] = pc[p]
    BY <1>2 DEF ReqTypes
  <2>5. pc'[q] = "queued"
    BY <1>2 DEF ReqTypes
  <2> QED
    BY <2>1, <2>2, <2>3, <2>4, <2>5 DEF Queued
<1>3. CASE /\ queue # <<>> /\ pc[Head(queue)] = "queued" /\ queue' = queue
           /\ pc' = [pc EXCEPT ![Head(queue)] = "saving"]
  <2>1. Head(queue) = queue[1] /\ queue[1] \in Requests /\ Len(queue) \in Nat \ {0}
    BY <1>3
  <2>2. \A i \in 1..Len(queue) : i # 1 => queue[i] # queue[1]
    BY <2>1
  <2> QED
    BY <1>3, <2>1, <2>2 DEF Queued, ReqTypes
<1>4. ASSUME NEW q \in Requests, queue # <<>>, q = Head(queue), queue' = Tail(queue),
             ~Queued(q)', SameQueued(Requests \ {q})
      PROVE  QueueOK'
  <2>1. /\ q = queue[1] /\ Len(queue) \in Nat \ {0} /\ queue' \in Seq(Requests)
        /\ Len(queue') = Len(queue) - 1
    BY <1>4
  <2>2. \A i \in 1..Len(queue') : queue'[i] = queue[i + 1] /\ i + 1 \in 1..Len(queue)
    BY <1>4, <2>1
  <2>3. \A i \in 1..Len(queue) : i # 1 => queue[i] # q /\ queue[i] \in Requests
    BY <2>1
  <2>4. \A i \in 1..Len(queue') : pc'[queue'[i]] = "queued"
    BY <1>4, <2>1, <2>2, <2>3 DEF SameQueued, Queued
  <2>5. \A i, j \in 1..Len(queue') : queue'[i] = queue'[j] => i = j
    BY <2>2
  <2>6. ASSUME NEW p \in Requests, Queued(p)' PROVE \E i \in 1..Len(queue') : queue'[i] = p
    <3>1. p # q /\ Queued(p)
      BY <1>4, <2>6 DEF SameQueued, Queued
    <3>2. PICK i \in 1..Len(queue) : queue[i] = p
      BY <3>1
    <3>3. i - 1 \in 1..Len(queue') /\ queue'[i - 1] = p
      BY <2>1, <2>2, <3>1, <3>2
    <3> QED
      BY <3>3
  <2> QED
    BY <2>1, <2>4, <2>5, <2>6
<1> QED
  BY <1>1, <1>2, <1>3, <1>4 DEF Effects, QueueEffect
-----------------------------------------------------------------------------
\* What a commit may do to the data: an account keeps its rights and password unless
\* its epoch grows, a provider its state, and a new account is disabled.
Grows ==
  /\ exists \subseteq exists' /\ pepoch <= pepoch'
  /\ rev <= rev' /\ (rev' = rev => UNCHANGED dataVars)
  /\ \A u \in Accounts :
       /\ epoch[u] <= epoch'[u]
       /\ epoch'[u] = epoch[u] =>
            /\ pw'[u] = pw[u] /\ (u \in exists' \ exists => off'[u])
            /\ u \in exists => /\ role'[u] = role[u] /\ must'[u] = must[u]
                               /\ grants'[u] = grants[u] /\ off'[u] = off[u]
  /\ pepoch' = pepoch => pon' = pon

\* Everything that is changed belongs to one account, whose epoch grows.
Touches(w) ==
  /\ rev' = rev + 1 /\ UNCHANGED provVars
  /\ epoch' = [epoch EXCEPT ![w] = epoch[w] + 1] /\ exists \subseteq exists'
  /\ \A u \in Accounts \ {w} :
       /\ u \in exists' => u \in exists
       /\ pw'[u] = pw[u] /\ role'[u] = role[u] /\ must'[u] = must[u]
       /\ grants'[u] = grants[u] /\ off'[u] = off[u]

LEMMA TouchGrows ==
  ASSUME DataTypes, NEW w \in Accounts, Touches(w)
  PROVE  Grows
<1>1. \A u \in Accounts : epoch[u] \in Nat /\ epoch'[u] = IF u = w THEN epoch[w] + 1 ELSE epoch[u]
  BY DEF DataTypes, Touches
<1> QED
  BY <1>1 DEF DataTypes, Touches, Grows, provVars

LEMMA DataGrows ==
  ASSUME DataTypes, ReqTypes, Flows, Effects
  PROVE  Grows
<1>1. CASE UNCHANGED dataVars
  BY <1>1 DEF DataTypes, Grows, dataVars, userVars, provVars
<1>2. ASSUME NEW q \in Requests, Commits(q) PROVE Grows
  <2>1. req[q] \in Request /\ rev' = rev + 1
    BY <1>2, InFlight DEF Commits, Saved, SavedUser, SavedPassword, SavedProvider,
       SavedInfrastructure, SavedPolicy, SavedSetup, SavedReset, SavedExternal
  <2>2. req[q].user \in Accounts /\ req[q].target \in Accounts /\ Admin \in Accounts
    BY <2>1, ConstantsAssumption DEF ConstantsAssumption, Request
  <2>3. CASE SavedUser(q)
    <3>1. Touches(req[q].target)
      BY <2>1, <2>2, <2>3 DEF DataTypes, SavedUser, NextEpoch, Touches
    <3> QED
      BY <2>2, <3>1, TouchGrows
  <2>4. CASE SavedPassword(q)
    <3>1. Touches(req[q].user)
      BY <2>1, <2>2, <2>4 DEF DataTypes, SavedPassword, NextEpoch, Touches
    <3> QED
      BY <2>2, <3>1, TouchGrows
  <2>5. CASE SavedProvider(q)
    BY <2>1, <2>5 DEF DataTypes, Grows, SavedProvider, NextProviderEpoch, userVars
  <2>6. CASE SavedInfrastructure(q)
    BY <2>1, <2>6 DEF DataTypes, Grows, SavedInfrastructure, userVars, provVars
  <2>7. CASE SavedPolicy(q)
    BY <2>1, <2>7 DEF DataTypes, Grows, SavedPolicy, userVars, provVars
  <2>8. CASE SavedSetup(q)
    <3>1. Touches(Admin)
      BY <2>1, <2>2, <2>8 DEF DataTypes, SavedSetup, NextEpoch, Touches
    <3> QED
      BY <2>2, <3>1, TouchGrows
  <2>9. CASE SavedReset(q)
    <3>1. Touches(req[q].target)
      BY <2>1, <2>2, <2>9 DEF DataTypes, SavedReset, NextEpoch, Touches
    <3> QED
      BY <2>2, <3>1, TouchGrows
  <2>10. CASE SavedExternal(q)
    <3>1. CASE UNCHANGED userVars
      BY <2>1, <2>10, <3>1 DEF DataTypes, Grows, SavedExternal, userVars, provVars
    <3>2. CASE \E u \in Accounts \ exists :
                  /\ exists' = exists \cup {u}
                  /\ role' = [role EXCEPT ![u] = "viewer"] /\ off' = [off EXCEPT ![u] = TRUE]
                  /\ grants' = [grants EXCEPT ![u] = {}] /\ must' = [must EXCEPT ![u] = FALSE]
                  /\ UNCHANGED <<epoch, pw>>
      <4>1. PICK u \in Accounts \ exists :
                  /\ exists' = exists \cup {u}
                  /\ role' = [role EXCEPT ![u] = "viewer"] /\ off' = [off EXCEPT ![u] = TRUE]
                  /\ grants' = [grants EXCEPT ![u] = {}] /\ must' = [must EXCEPT ![u] = FALSE]
                  /\ UNCHANGED <<epoch, pw>>
        BY <3>2
      <4>2. UNCHANGED provVars
        BY <2>10 DEF SavedExternal
      <4>3. \A w \in Accounts :
              /\ epoch[w] \in Nat /\ epoch'[w] = epoch[w] /\ pw'[w] = pw[w]
              /\ w \in exists' \ exists => off'[w]
              /\ w \in exists => /\ role'[w] = role[w] /\ must'[w] = must[w]
                                 /\ grants'[w] = grants[w] /\ off'[w] = off[w]
        BY <4>1 DEF DataTypes
      <4>4. /\ rev <= rev' /\ rev' # rev /\ pepoch' = pepoch /\ pon' = pon
            /\ pepoch <= pepoch' /\ exists \subseteq exists'
        BY <2>1, <4>1, <4>2 DEF DataTypes, provVars
      <4>5. \A w \in Accounts : epoch[w] <= epoch'[w]
        BY <4>3
      <4> QED
        BY <4>3, <4>4, <4>5 DEF Grows
    <3> QED
      BY <2>10, <3>1, <3>2 DEF SavedExternal, MayEnrol
  <2> QED
    BY <1>2, <2>3, <2>4, <2>5, <2>6, <2>7, <2>8, <2>9, <2>10 DEF Commits
<1> QED
  BY <1>1, <1>2 DEF Effects, DataEffect

\* A session is kept, ended, or made for a token nobody holds by a check that the
\* account's present secret has passed.
Verified(t) ==
  LET s == sess'[t] IN
  /\ s.epoch = epoch'[s.user] /\ s.pepoch = pepoch'
  /\ s.verified = IF s.ext THEN pepoch' ELSE pw'[s.user]

\* What a request rests on: the session and account it captured and, as long as that
\* account has the same epoch, its rights and password.
Rests(q) ==
  LET r == req[q]  k == r.kind IN
  /\ k \in SignedIn \cup {"login"} => r.user \in exists /\ r.epoch <= epoch[r.user]
  /\ k \in SignedIn => r.tok # None
  /\ k \in SignedIn /\ sess[r.tok] # None =>
       sess[r.tok].user = r.user /\ sess[r.tok].epoch = r.epoch
  /\ k \in Edits /\ epoch[r.user] = r.epoch => role[r.user] = "admin"
  /\ k \in {"login", "password"} /\ epoch[r.user] = r.epoch => pw[r.user] = r.pw
  /\ k = "job" /\ epoch[r.user] = r.epoch =>
       role[r.user] # "viewer" /\ ~must[r.user] /\ Visible(r.user, r.tunnel)
  /\ r.seen <= rev
  /\ k = "infra" /\ Queued(q) /\ r.seen = rev => r.base = infra
Evidence == \A q \in Requests : pc[q] # "idle" => Rests(q)

LEMMA SessionSteps ==
  ASSUME DataTypes, WebTypes, ReqTypes, Flows, Evidence, Effects, NEW t \in Tokens
  PROVE  \/ sess'[t] \in {sess[t], None}
         \/ sess'[t] # None /\ Fresh(t) /\ Verified(t)
<1> DEFINE Steps == \/ sess'[t] \in {sess[t], None}
                    \/ sess'[t] # None /\ Fresh(t) /\ Verified(t)
<1>0. WebTypes' /\ DataTypes'
  BY WebTyped, DataTyped
<1>1. CASE UNCHANGED <<sess, cookie>>
  BY <1>1
<1>2. ASSUME NEW T \in SUBSET Tokens, Without(T) PROVE Steps
  BY <1>2 DEF Without
<1>3. ASSUME NEW q \in Requests, NEW u \in Accounts, NEW ext \in BOOLEAN, NEW v \in Nat,
             SignIn(q, u, ext, v), v = (IF ext THEN pepoch' ELSE pw'[u]), pepoch' = pepoch
      PROVE  Steps
  <2> DEFINE made == [user |-> u, epoch |-> epoch'[u], ext |-> ext, pepoch |-> pepoch,
                      verified |-> v]
  <2>1. made \in Session
    BY <1>0 DEF Session, DataTypes
  <2>2. sess'[t] \in {sess[t], None} \/ (Fresh(t) /\ sess'[t] = made)
    BY <1>3 DEF SignIn, WebTypes
  <2>3. sess'[t] = made => Verified(t)
    BY <1>3 DEF Verified
  <2> QED
    BY <2>1, <2>2, <2>3, NoneApart
<1>4. ASSUME NEW q \in Requests, LoginEnd(q) PROVE Steps
  <2>1. req[q] \in Request
    BY <1>4, InFlight DEF LoginEnd
  <2>2. /\ req[q].user \in Accounts /\ req[q].pw \in Nat
        /\ pw' = pw /\ pepoch' = pepoch /\ pw[req[q].user] = req[q].pw
    BY <1>4, <2>1 DEF LoginEnd, Request, Evidence, Rests, SameEpoch, provVars
  <2> QED
    BY <1>3, <1>4, <2>2 DEF LoginEnd
<1>5. ASSUME NEW q \in Requests, ExternalKnown(q) PROVE Steps
  <2>1. req[q].epoch = pepoch /\ pepoch \in Nat /\ pepoch' = pepoch
    BY <1>5 DEF ExternalKnown, SameProvider, DataTypes, provVars
  <2>2. PICK u \in Accounts : SignIn(q, u, TRUE, req[q].epoch)
    BY <1>5 DEF ExternalKnown, Enrolled, DataTypes
  <2> QED
    BY <1>3, <2>1, <2>2
<1>6. ASSUME NEW q \in Requests, SavedPassword(q) PROVE Steps
  <2>1. req[q] \in Request
    BY <1>6, InFlight DEF SavedPassword, Saved
  <2>2. /\ req[q].user \in Accounts /\ rev + 1 \in Nat
        /\ pw'[req[q].user] = rev + 1 /\ pepoch' = pepoch
    BY <1>6, <2>1 DEF SavedPassword, Request, DataTypes, provVars
  <2> QED
    BY <1>3, <1>6, <2>2 DEF SavedPassword
<1>7. ASSUME NEW q \in Requests, SavedSetup(q) PROVE Steps
  <2>1. Admin \in Accounts /\ rev + 1 \in Nat /\ pw'[Admin] = rev + 1 /\ pepoch' = pepoch
    BY <1>7, ConstantsAssumption DEF ConstantsAssumption, SavedSetup, DataTypes, provVars
  <2> QED
    BY <1>3, <1>7, <2>1 DEF SavedSetup
<1> QED
  BY <1>1, <1>2, <1>4, <1>5, <1>6, <1>7 DEF Effects, SessEffect

\* What a request rests on stays so until its account's epoch grows.
LEMMA EvidenceStep ==
  ASSUME DataTypes, WebTypes, ReqTypes, Flows, Evidence, Effects
  PROVE  Evidence'
<1>0. Grows /\ DataTypes'
  BY DataGrows, DataTyped
<1> SUFFICES ASSUME NEW q \in Requests, pc'[q] # "idle" PROVE Rests(q)'
  BY DEF Evidence
<1>1. CASE GoesOn(q)
  <2> DEFINE r == req[q]
  <2>1. r \in Request /\ req'[q] = r /\ Rests(q)
    BY <1>1, InFlight DEF GoesOn, Evidence
  <2>2. /\ r.user \in Accounts /\ r.epoch \in Nat /\ r.seen \in Nat /\ r.base \in Nat
        /\ r.tok \in Tokens \cup {None} /\ r.kind \in Kinds
    BY <2>1 DEF Request
  <2>3. r.tok # None => sess'[r.tok] \in {sess[r.tok], None}
    BY <1>1, <2>2, SessionSteps DEF Fresh, GoesOn
  <2>4. /\ epoch[r.user] \in Nat /\ epoch'[r.user] \in Nat /\ epoch[r.user] <= epoch'[r.user]
        /\ rev \in Nat /\ rev' \in Nat /\ rev <= rev'
    BY <1>0, <2>2 DEF DataTypes, Grows
  <2>5. r.user \in exists /\ epoch'[r.user] = epoch[r.user] =>
          /\ pw'[r.user] = pw[r.user] /\ role'[r.user] = role[r.user]
          /\ must'[r.user] = must[r.user] /\ grants'[r.user] = grants[r.user]
    BY <1>0, <2>2 DEF Grows
  <2>6. r.kind \in SignedIn \cup {"login"} /\ epoch'[r.user] = r.epoch =>
          r.user \in exists /\ epoch'[r.user] = epoch[r.user] /\ epoch[r.user] = r.epoch
    BY <2>1, <2>2, <2>4 DEF Rests
  <2>7. r.kind = "infra" /\ Queued(q)' /\ r.seen = rev' => r.base = infra'
    <3>1. r.kind = "infra" /\ Queued(q)' => Queued(q)
      BY <1>1 DEF GoesOn, Queued, UpdateStart
    <3>2. r.seen = rev' => r.seen = rev /\ infra' = infra
      BY <1>0, <2>1, <2>2, <2>4 DEF Rests, Grows, dataVars
    <3> QED
      BY <2>1, <3>1, <3>2 DEF Rests
  <2>8. r.kind = "job" /\ epoch'[r.user] = r.epoch =>
          role'[r.user] # "viewer" /\ ~must'[r.user] /\ Visible(r.user, r.tunnel)'
    BY <2>1, <2>5, <2>6 DEF Rests, Visible, SignedIn
  <2>9. /\ r.kind \in SignedIn \cup {"login"} =>
             r.user \in exists' /\ r.epoch <= epoch'[r.user]
        /\ r.seen <= rev'
    BY <1>0, <2>1, <2>2, <2>4 DEF Rests, Grows
  <2>10. /\ r.kind \in SignedIn => r.tok # None
         /\ r.kind \in SignedIn /\ sess'[r.tok] # None =>
              sess'[r.tok].user = r.user /\ sess'[r.tok].epoch = r.epoch
    BY <2>1, <2>3 DEF Rests
  <2>11. /\ r.kind \in Edits /\ epoch'[r.user] = r.epoch => role'[r.user] = "admin"
         /\ r.kind \in {"login", "password"} /\ epoch'[r.user] = r.epoch =>
              pw'[r.user] = r.pw
    BY <2>1, <2>5, <2>6 DEF Rests, Edits, SignedIn
  <2> QED
    BY <2>1, <2>7, <2>8, <2>9, <2>10, <2>11 DEF Rests
<1>2. ASSUME UNCHANGED <<dataVars, sess>>, req'[q].kind \notin SignedIn \cup {"login"},
             req'[q].seen \in Nat, req'[q].seen <= rev
      PROVE  Rests(q)'
  BY <1>2 DEF Rests, SignedIn, Edits, dataVars
<1>3. CASE Arrives(q)
  <2> USE ConstantsAssumption DEF ConstantsAssumption, ReqTypes, DataTypes
  <2>1. ASSUME NEW b \in Browsers, NEW u \in Local, Login(q, b, u) PROVE Rests(q)'
    <3>1. /\ req'[q].kind = "login" /\ req'[q].user = u /\ req'[q].epoch = epoch[u]
          /\ req'[q].pw = pw[u] /\ req'[q].seen = 0 /\ u \in exists
          /\ UNCHANGED <<dataVars, sess>>
      BY <2>1 DEF Login, Begins, Arrived
    <3> QED
      BY <3>1 DEF Rests, SignedIn, Edits, dataVars, userVars
  <2>2. ASSUME NEW b \in Browsers, Begin(q, b) PROVE Rests(q)'
    BY <1>2, <2>2 DEF Begin, Begins, Arrived, SignedIn
  <2>3. ASSUME NEW b \in Browsers, NEW s \in Subjects, Directory(q, b, s) PROVE Rests(q)'
    BY <1>2, <2>3 DEF Directory, Begins, Arrived, SignedIn
  <2>4. ASSUME NEW b \in Browsers, Unlock(q, b) \/ Complete(q, b) PROVE Rests(q)'
    BY <1>2, <2>4 DEF Unlock, Complete, Begins, Arrived, SignedIn
  <2>5. ASSUME NEW u \in Local, Reset(q, u) PROVE Rests(q)'
    BY <1>2, <2>5 DEF Reset, Begins, Arrived, SignedIn
  <2>6. ASSUME NEW b \in Browsers, Post(q, b) PROVE Rests(q)'
    <3>1. PICK k \in SignedIn, flag \in BOOLEAN, target \in Accounts,
               profile \in Profiles \cup {None}, tunnel \in Tunnels \cup {None} :
            LET r == Asked(b, k, target, profile, flag, tunnel) IN
            Permitted(r.user, k, tunnel) /\ Begins(q, "body", r)
      BY <2>6, PostCaptures
    <3> DEFINE u == sess[cookie[b]].user
    <3>2. /\ pc'[q] = "body" /\ UNCHANGED <<dataVars, sess>>
          /\ req'[q] = Asked(b, k, target, profile, flag, tunnel)
      BY <3>1 DEF Begins
    <3>3. /\ req'[q].kind = k /\ req'[q].user = u /\ req'[q].epoch = epoch[u]
          /\ req'[q].tok = cookie[b] /\ req'[q].tunnel = tunnel
          /\ req'[q].pw = IF k = "password" THEN pw[u] ELSE 0
          /\ req'[q].seen = IF k \in Edits THEN rev ELSE 0
      BY <3>2 DEF Asked
    <3>4. /\ Permitted(u, k, tunnel) /\ cookie[b] # None
          /\ u \in exists /\ sess[cookie[b]].epoch = epoch[u]
      BY <2>6, <3>1, <3>3, <3>2 DEF Post, Usable, Known, Asked
    <3> QED
      BY <3>2, <3>3, <3>4
      DEF Rests, Permitted, SignedIn, Edits, Queued, dataVars, userVars, Visible
  <2> QED
    BY <1>3, <2>1, <2>2, <2>3, <2>4, <2>5, <2>6 DEF Arrives
<1>4. ASSUME NEW s \in Subjects, Callback(q, s) PROVE Rests(q)'
  <2>1. req[q] \in Request /\ Rests(q) /\ req[q].kind = "external"
    BY <1>4, InFlight DEF Callback, Flows, Evidence
  <2>2. req'[q].kind = "external" /\ req'[q].seen = req[q].seen /\ UNCHANGED <<dataVars, sess>>
    BY <1>4, <2>1 DEF Callback, ReqTypes, Request, webVars
  <2> QED
    BY <1>2, <2>1, <2>2 DEF Rests, SignedIn, Request
<1>5. CASE InfrastructureBody(q)
  <2>1. pc[q] = "body" /\ req[q].kind = "infra"
    BY <1>5 DEF InfrastructureBody, BodyRead
  <2>2. req[q] \in Request /\ Rests(q)
    BY <2>1, InFlight DEF Evidence
  <2>3. UNCHANGED <<dataVars, sess>> /\ req'[q] = [req[q] EXCEPT !.base = infra]
    BY <1>5 DEF InfrastructureBody, webVars, ReqTypes
  <2> QED
    BY <2>1, <2>2, <2>3 DEF Rests, SignedIn, Edits, Request, dataVars, userVars
<1> QED
  BY <1>1, <1>3, <1>4, <1>5 DEF Effects, ReqEffect

\* What a session was verified against is what its epochs stand for.
Sound ==
  \A t \in Tokens : sess[t] # None =>
    LET s == sess[t] IN
    /\ s.epoch <= epoch[s.user] /\ s.pepoch <= pepoch
    /\ ~s.ext /\ s.epoch = epoch[s.user] => s.verified = pw[s.user]
    /\ s.ext => s.verified = s.pepoch

LEMMA SoundStep ==
  ASSUME DataTypes, WebTypes, ReqTypes, Flows, Evidence, Sound, Effects
  PROVE  Sound'
<1>0. Grows /\ DataTypes' /\ WebTypes'
  BY DataGrows, DataTyped, WebTyped
<1> SUFFICES ASSUME NEW t \in Tokens, sess'[t] # None
             PROVE  LET s == sess'[t] IN
                    /\ s.epoch <= epoch'[s.user] /\ s.pepoch <= pepoch'
                    /\ ~s.ext /\ s.epoch = epoch'[s.user] => s.verified = pw'[s.user]
                    /\ s.ext => s.verified = s.pepoch
  BY DEF Sound
<1> DEFINE s == sess'[t]
<1>1. /\ s.user \in Accounts /\ s.epoch \in Nat /\ s.pepoch \in Nat /\ s.ext \in BOOLEAN
      /\ epoch'[s.user] \in Nat /\ pepoch' \in Nat
  BY <1>0 DEF WebTypes, DataTypes, Session
<1>2. CASE sess'[t] = sess[t]
  <2>1. /\ epoch[s.user] \in Nat /\ pepoch \in Nat /\ epoch[s.user] <= epoch'[s.user]
        /\ pepoch <= pepoch'
        /\ epoch'[s.user] = epoch[s.user] => pw'[s.user] = pw[s.user]
    BY <1>0, <1>1 DEF Grows, DataTypes
  <2>2. /\ s.epoch <= epoch[s.user] /\ s.pepoch <= pepoch
        /\ ~s.ext /\ s.epoch = epoch[s.user] => s.verified = pw[s.user]
        /\ s.ext => s.verified = s.pepoch
    BY <1>2 DEF Sound
  <2> QED
    BY <1>1, <2>1, <2>2
<1>3. CASE Verified(t)
  BY <1>1, <1>3 DEF Verified
<1> QED
  BY <1>2, <1>3, SessionSteps

\* What an update was accepted on holds until it is committed: nothing else is
\* committed meanwhile.
Decided ==
  \A q \in Requests : pc[q] = "saving" =>
    LET r == req[q] IN
    /\ r.kind \in SignedIn => Known(r.user) /\ epoch[r.user] = r.epoch
    /\ r.kind \in Edits => r.seen = rev
    /\ r.kind = "complete" => ~done /\ pw[Admin] = 0

LEMMA ArrivesSteps ==
  ASSUME DataTypes, WebTypes, ReqTypes, NEW q \in Requests, Arrives(q)
  PROVE  pc'[q] \in {"body", "scrypt", "discovery", "identity"}
<1> DEFINE Early == pc'[q] \in {"body", "scrypt", "discovery", "identity"}
<1>1. ASSUME NEW s \in {"body", "scrypt", "discovery", "identity"}, NEW r, Begins(q, s, r)
      PROVE  Early
  BY <1>1 DEF Begins, ReqTypes
<1>2. ASSUME NEW b \in Browsers, Post(q, b) PROVE Early
  BY <1>1, <1>2, PostCaptures
<1>3. ASSUME NEW b \in Browsers, NEW u \in Local, Login(q, b, u) PROVE Early
  BY <1>1, <1>3 DEF Login
<1>4. ASSUME NEW b \in Browsers, Begin(q, b) \/ Unlock(q, b) \/ Complete(q, b) PROVE Early
  BY <1>1, <1>4 DEF Begin, Unlock, Complete
<1>5. ASSUME NEW b \in Browsers, NEW s \in Subjects, Directory(q, b, s) PROVE Early
  BY <1>1, <1>5 DEF Directory
<1>6. ASSUME NEW u \in Local, Reset(q, u) PROVE Early
  BY <1>1, <1>6 DEF Reset
<1> QED
  BY <1>2, <1>3, <1>4, <1>5, <1>6 DEF Arrives

LEMMA DecidedStep ==
  ASSUME DataTypes, WebTypes, ReqTypes, QueueOK, Flows, Decided, Effects
  PROVE  Decided'
<1> SUFFICES ASSUME NEW q \in Requests, pc'[q] = "saving"
             PROVE  /\ req'[q].kind \in SignedIn =>
                         /\ req'[q].user \in exists' /\ ~off'[req'[q].user]
                         /\ epoch'[req'[q].user] = req'[q].epoch
                    /\ req'[q].kind \in Edits => req'[q].seen = rev'
                    /\ req'[q].kind = "complete" => ~done' /\ pw'[Admin] = 0
  BY DEF Decided, Known
<1>1. GoesOn(q)
  <2>1. ~Arrives(q)
    BY ArrivesSteps
  <2>2. ~InfrastructureBody(q) /\ \A s \in Subjects : ~Callback(q, s)
    BY DEF InfrastructureBody, Enqueue, Callback, Await, ReqTypes
  <2> QED
    BY <2>1, <2>2 DEF Effects, ReqEffect
<1>2. /\ req'[q] = req[q]
      /\ req[q].kind \in SignedIn => Known(req[q].user) /\ epoch[req[q].user] = req[q].epoch
      /\ req[q].kind \in Edits => req[q].seen = rev
      /\ req[q].kind = "complete" => ~done /\ pw[Admin] = 0
  BY <1>1 DEF GoesOn, Decided, UpdateStart, Accepted, SessionHolds, SameRevision,
     SetupAllowed, SetupRequired
<1>3. CASE UNCHANGED dataVars
  BY <1>2, <1>3 DEF dataVars, userVars, Known
<1>4. ASSUME NEW p \in Requests, Commits(p) PROVE FALSE
  <2>1. /\ pc[p] = "saving" /\ queue # <<>> /\ p = Head(queue) /\ Ends(p) /\ rev' = rev + 1
    BY <1>4 DEF Commits, Saved, SavedUser, SavedPassword, SavedProvider,
       SavedInfrastructure, SavedPolicy, SavedSetup, SavedReset, SavedExternal
  <2>2. pc[q] = "saving"
    BY <1>1, <2>1 DEF GoesOn, UpdateStart, dataVars, DataTypes
  <2>3. q = queue[1] /\ p = queue[1]
    BY <2>1, <2>2 DEF QueueOK, Queued
  <2> QED
    BY <2>1, <2>3 DEF Ends, ReqTypes
<1> QED
  BY <1>3, <1>4 DEF Effects, DataEffect

\* Only identities are registered, each for one account.
Identities == (\A u \in Local : ident[u] = None) /\ UniqueIdentity

LEMMA IdentitiesStep ==
  ASSUME DataTypes, ReqTypes, Flows, Identities, Effects
  PROVE  Identities'
<1> USE DEF Identities, UniqueIdentity
<1>1. CASE UNCHANGED dataVars
  BY <1>1 DEF dataVars, userVars
<1>2. ASSUME NEW q \in Requests, Commits(q) PROVE Identities'
  <2>1. CASE UNCHANGED <<exists, ident>>
    BY <2>1
  <2>2. CASE SavedUser(q)
    <3>1. req[q].target \in exists \cup Local
      BY <2>2 DEF SavedUser, Saved, Flows
    <3>2. exists' = exists \cup {req[q].target} /\ ident' = ident
      BY <2>2 DEF SavedUser
    <3> QED
      BY <3>1, <3>2
  <2>3. CASE SavedExternal(q)
    <3> DEFINE s == req[q].subject
    <3>1. CASE UNCHANGED userVars
      BY <2>1, <3>1 DEF userVars
    <3>2. CASE \E u \in MayEnrol(s) : exists' = exists \cup {u} /\ ident' = [ident EXCEPT ![u] = s]
      <4>1. PICK u \in Accounts \ (exists \cup Local) :
              exists' = exists \cup {u} /\ ident' = [ident EXCEPT ![u] = s]
        BY <3>2 DEF MayEnrol
      <4>2. \A v \in exists : ident[v] # s
        BY <3>2 DEF MayEnrol, Enrolled
      <4>3. \A v \in Accounts : ident'[v] = IF v = u THEN s ELSE ident[v]
        BY <4>1 DEF DataTypes
      <4> QED
        BY <4>1, <4>2, <4>3, ConstantsAssumption DEF ConstantsAssumption, DataTypes
    <3> QED
      BY <2>3, <3>1, <3>2 DEF SavedExternal
  <2> QED
    BY <1>2, <2>1, <2>2, <2>3 DEF Commits, SavedPassword, SavedProvider,
       SavedInfrastructure, SavedPolicy, SavedSetup, SavedReset, userVars
<1> QED
  BY <1>1, <1>2 DEF Effects, DataEffect
-----------------------------------------------------------------------------
ConsoleInv == Flows /\ Evidence /\ Sound /\ Decided /\ Identities

LEMMA InitInv ==
  ASSUME Init
  PROVE  TypeOK /\ ConsoleInv
<1> USE ConstantsAssumption DEF ConstantsAssumption
<1>1. PICK loaded \in BOOLEAN :
        /\ exists = IF loaded THEN Local \cup DOMAIN Bindings ELSE {Admin}
        /\ pw = [u \in Accounts |-> IF loaded /\ u \in Local THEN 1 ELSE 0]
        /\ must = [u \in Accounts |-> ~loaded]
        /\ ident = [u \in Accounts |-> IF loaded /\ u \in DOMAIN Bindings
                                       THEN Bindings[u] ELSE None]
        /\ pon = loaded /\ done = loaded
  BY DEF Init
<1>2. DataTypes
  <2>1. /\ exists \subseteq Accounts /\ pw \in [Accounts -> Nat]
        /\ must \in [Accounts -> BOOLEAN] /\ pon \in BOOLEAN /\ done \in BOOLEAN
    BY <1>1
  <2>2. ident \in [Accounts -> Subjects \cup {None}]
    BY <1>1
  <2>3. /\ role \in [Accounts -> Roles] /\ off \in [Accounts -> BOOLEAN]
        /\ grants \in [Accounts -> SUBSET Tunnels] /\ epoch \in [Accounts -> Nat]
    BY DEF Init, Roles
  <2>4. rev = 1 /\ pepoch = 0 /\ infra = 0 /\ failed = FALSE
    BY DEF Init
  <2> QED
    BY <2>1, <2>2, <2>3, <2>4 DEF DataTypes
<1>3. WebTypes /\ ReqTypes
  BY DEF Init, WebTypes, ReqTypes, PCs
<1>4. QueueOK
  BY DEF Init, QueueOK, Queued
<1>5. Flows /\ Evidence /\ Decided
  BY DEF Init, Flows, Evidence, Decided
<1>6. Sound
  BY DEF Init, Sound
<1>7. Identities
  <2>1. \A u \in Accounts : ident[u] = IF loaded /\ u \in DOMAIN Bindings
                                       THEN Bindings[u] ELSE None
    BY <1>1
  <2>2. \A u \in Local : ident[u] = None
    BY <2>1
  <2>3. \A u \in Accounts : ident[u] # None => u \in DOMAIN Bindings /\ ident[u] = Bindings[u]
    BY <2>1
  <2>4. UniqueIdentity
    BY <1>2, <2>3 DEF UniqueIdentity, DataTypes
  <2> QED
    BY <2>2, <2>4 DEF Identities
<1> QED
  BY <1>2, <1>3, <1>4, <1>5, <1>6, <1>7, TypeParts DEF ConsoleInv

LEMMA InvStep ==
  ASSUME TypeOK, ConsoleInv, [Next]_vars
  PROVE  TypeOK' /\ ConsoleInv'
<1>1. DataTypes /\ WebTypes /\ ReqTypes /\ QueueOK
  BY TypeParts
<1>2. Effects
  BY <1>1, StepEffects DEF ConsoleInv
<1>3. DataTypes' /\ WebTypes' /\ ReqTypes' /\ QueueOK'
  BY <1>1, <1>2, DataTyped, WebTyped, ReqTyped, QueueStep DEF ConsoleInv
<1>4. TypeOK'
  BY <1>3 DEF TypeOK, DataTypes, WebTypes, ReqTypes, QueueOK, Queued
<1>5. Flows' /\ Evidence' /\ Sound' /\ Decided' /\ Identities'
  BY <1>1, <1>2, FlowsStep, EvidenceStep, SoundStep, DecidedStep, IdentitiesStep
  DEF ConsoleInv
<1> QED
  BY <1>4, <1>5 DEF ConsoleInv

\* What every step may do, in the terms of the properties.
CommitsAct ==
  \A q \in Requests :
    pc[q] = "saving" /\ rev' # rev /\ q = Head(queue) =>
      LET r == req[q] IN
      /\ r.kind \in SignedIn => Known(r.user)
      /\ r.kind \in Edits => role[r.user] = "admin"
      /\ r.kind = "password" => r.pw = pw[r.user]
      /\ r.kind = "complete" => pw[Admin] = 0 /\ ~done
      /\ r.kind = "infra" => r.base = infra
JobsAct ==
  \A q \in Requests : pc[q] # "running" /\ pc'[q] = "running" =>
    LET u == req[q].user IN
    /\ Known(u) /\ ~failed /\ ~closed /\ role[u] # "viewer" /\ ~must[u]
    /\ Visible(u, req[q].tunnel)
RevocationAct ==
  \A t \in Tokens :
    sess[t] # None /\ ~Usable(t) /\ sess'[t] = sess[t] => ~Usable(t)'

LEMMA CommitsHold ==
  ASSUME TypeOK, ConsoleInv
  PROVE  CommitsAct
<1> SUFFICES ASSUME NEW q \in Requests, pc[q] = "saving"
             PROVE  LET r == req[q] IN
                    /\ r.kind \in SignedIn => Known(r.user)
                    /\ r.kind \in Edits => role[r.user] = "admin"
                    /\ r.kind = "password" => r.pw = pw[r.user]
                    /\ r.kind = "complete" => pw[Admin] = 0 /\ ~done
                    /\ r.kind = "infra" => r.base = infra
  BY DEF CommitsAct
<1>1. Rests(q)
  BY DEF ConsoleInv, Evidence
<1> QED
  BY <1>1 DEF ConsoleInv, Decided, Rests, Queued, SignedIn, Edits

LEMMA JobsHold ==
  ASSUME TypeOK, ConsoleInv, Effects
  PROVE  JobsAct
<1>0. DataTypes /\ WebTypes /\ ReqTypes
  BY TypeParts
<1> SUFFICES ASSUME NEW q \in Requests, pc[q] # "running", pc'[q] = "running"
             PROVE  LET u == req[q].user IN
                    /\ Known(u) /\ ~failed /\ ~closed /\ role[u] # "viewer" /\ ~must[u]
                    /\ Visible(u, req[q].tunnel)
  BY DEF JobsAct
<1>1. JobBody(q)
  <2>1. ~Arrives(q)
    BY <1>0, ArrivesSteps
  <2>2. ~InfrastructureBody(q) /\ \A s \in Subjects : ~Callback(q, s)
    BY <1>0 DEF InfrastructureBody, Enqueue, Callback, Await, ReqTypes
  <2> QED
    BY <2>1, <2>2 DEF Effects, ReqEffect, GoesOn
<1>2. /\ pc[q] = "body" /\ req[q].kind = "job" /\ ~closed /\ Usable(req[q].tok)
  BY <1>1 DEF JobBody, BodyRead, StillUsable
<1>3. Rests(q)
  BY <1>2 DEF ConsoleInv, Evidence
<1> QED
  BY <1>2, <1>3 DEF Rests, Usable, SignedIn

LEMMA RevocationHolds ==
  ASSUME TypeOK, ConsoleInv, Effects
  PROVE  RevocationAct
<1>0. DataTypes /\ WebTypes /\ ReqTypes /\ Sound /\ Flows
  BY TypeParts DEF ConsoleInv
<1>1. Grows /\ DataTypes'
  BY <1>0, DataGrows, DataTyped
<1> SUFFICES ASSUME NEW t \in Tokens, sess[t] # None, ~Usable(t), sess'[t] = sess[t],
                    Usable(t)'
             PROVE  FALSE
  BY DEF RevocationAct
<1> DEFINE s == sess[t]  u == s.user
<1>2. /\ ~failed' /\ u \in exists' /\ ~off'[u] /\ epoch'[u] = s.epoch
      /\ s.ext => pon' /\ pepoch' = s.pepoch
  BY DEF Usable, Known
<1>3. ~failed
  BY <1>2 DEF Effects, FlagEffect
<1>4. u \in Accounts /\ s.epoch \in Nat /\ s.pepoch \in Nat
  BY <1>0 DEF WebTypes, Session
<1>5. /\ epoch[u] \in Nat /\ epoch'[u] \in Nat /\ epoch[u] <= epoch'[u]
      /\ s.epoch <= epoch[u] /\ s.pepoch <= pepoch /\ pepoch <= pepoch'
      /\ pepoch \in Nat /\ pepoch' \in Nat
  BY <1>0, <1>1, <1>4 DEF DataTypes, Sound, Grows
<1>6. epoch'[u] = epoch[u] /\ epoch[u] = s.epoch
  BY <1>2, <1>4, <1>5
<1>7. Known(u)
  BY <1>1, <1>2, <1>4, <1>6 DEF Grows, Known
<1>8. s.ext => pon /\ pepoch = s.pepoch
  <2>1. s.ext => pepoch' = pepoch /\ pepoch = s.pepoch
    BY <1>2, <1>4, <1>5
  <2> QED
    BY <1>1, <1>2, <2>1 DEF Grows
<1>9. t # None
  BY ConstantsAssumption DEF ConstantsAssumption
<1> QED
  BY <1>3, <1>6, <1>7, <1>8, <1>9 DEF Usable
-----------------------------------------------------------------------------
\* Every variable keeps its type, and the queue holds exactly the requests whose
\* update waits or is saved (ControlStore.update).
THEOREM Typing == Spec => []TypeOK
<1>1. Init => TypeOK /\ ConsoleInv
  BY InitInv
<1>2. TypeOK /\ ConsoleInv /\ [Next]_vars => TypeOK' /\ ConsoleInv'
  BY InvStep
<1> QED
  BY <1>1, <1>2, PTL DEF Spec

\* The inductive invariant: requests rest on what they captured until an epoch
\* grows, sessions on a check of the present secret, and the update being saved on
\* what it was accepted on.
THEOREM Captures == Spec => []ConsoleInv
<1>1. Init => TypeOK /\ ConsoleInv
  BY InitInv
<1>2. TypeOK /\ ConsoleInv /\ [Next]_vars => TypeOK' /\ ConsoleInv'
  BY InvStep
<1> QED
  BY <1>1, <1>2, PTL DEF Spec

\* Whatever the order of sign-ins and updates, a usable session rests on the
\* present password of its account or configuration of the provider.
THEOREM SessionsVerified == Spec => []UsableIsVerified
<1>1. TypeOK /\ ConsoleInv => UsableIsVerified
  BY DEF ConsoleInv, Sound, UsableIsVerified, Usable
<1> QED
  BY <1>1, Typing, Captures, PTL

\* However many callbacks of an identity race, it gets one account.
THEOREM OneAccount == Spec => []UniqueIdentity
<1>1. ConsoleInv => UniqueIdentity
  BY DEF ConsoleInv, Identities
<1> QED
  BY <1>1, Captures, PTL

\* What an update was decided on holds when it takes effect, for any number of
\* requests and updates between its checks and its commit.
THEOREM CommitsStayCurrent == Spec => CommitsCurrent
<1>1. TypeOK /\ ConsoleInv /\ [Next]_vars => [CommitsAct]_vars
  BY CommitsHold
<1> QED
  BY <1>1, Typing, Captures, PTL DEF Spec, CommitsCurrent, CommitsAct

\* No operation starts on rights that its account has lost while the body of the
\* request was awaited.
THEOREM JobsStayAuthorized == Spec => JobsAuthorized
<1>1. TypeOK /\ ConsoleInv /\ [Next]_vars => [JobsAct]_vars
  BY JobsHold, StepEffects, TypeParts DEF ConsoleInv
<1> QED
  BY <1>1, Typing, Captures, PTL DEF Spec, JobsAuthorized, JobsAct

\* A session that was revoked is never usable again.
THEOREM RevocationsFinal == Spec => RevocationFinal
<1>1. TypeOK /\ ConsoleInv /\ [Next]_vars => [RevocationAct]_vars
  BY RevocationHolds, StepEffects, TypeParts DEF ConsoleInv
<1> QED
  BY <1>1, Typing, Captures, PTL DEF Spec, RevocationFinal, RevocationAct
=============================================================================
