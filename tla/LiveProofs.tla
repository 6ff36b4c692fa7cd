----------------------------- MODULE LiveProofs -----------------------------
(***************************************************************************)
(* One tab of the console for any number of logins, changes, records,      *)
(* restarts of the manager and faults of the network: whose data it shows, *)
(* and that no log record is shown twice or out of order.                  *)
(*                                                                         *)
(* A callback of the tab is an operator from record to record, and most    *)
(* call another.  Kept(t, u, n) says that what holds of t holds of u; one  *)
(* lemma per operator then composes as the code does.                      *)
(***************************************************************************)
EXTENDS LiveView, SequenceTheorems, TLAPS

Fields == {"me", "page", "hidden", "view", "live", "es", "seen", "link", "pipe", "print",
           "pend", "timer", "reset", "overview", "catalog", "catalogOf", "logs", "logsOf",
           "cursor", "op", "boot", "nav", "navStale"}

\* What a chain was told while its generation lasts comes from login n.
FreshOk(o, n) == o.fresh /\ o.ans.is = "ok" => o.ans.login = n
Shape(t) ==
  /\ DOMAIN t = Fields /\ DOMAIN t.op = Kinds
  /\ \A k \in Kinds : DOMAIN t.op[k] = DOMAIN NoOp
  /\ DOMAIN t.nav = DOMAIN Idle

Pcs == {"idle", "overview", "catalog", "logs", "failing"}

\* n is the last login.  A tab that is signed out holds nothing and awaits nothing that
\* it would show; one that is signed in as an earlier login shows the login page.
Good(t, n) ==
  /\ Shape(t)
  /\ t.nav.pc \in {"idle", "catalog"} /\ \A k \in Kinds : t.op[k].pc \in Pcs
  /\ t.me = 0 => /\ t.logsOf = 0 /\ t.catalogOf = 0 /\ ~t.nav.fresh
                 /\ \A k \in Kinds : ~t.op[k].fresh
  /\ t.me \notin {0, n} => t.page = "login"
  /\ FreshOk(t.nav, n) /\ \A k \in Kinds : FreshOk(t.op[k], n)

\* The tab is signed in as the last login and shows nothing of another.
Best(t, n) ==
  /\ Good(t, n) /\ t.me \in {0, n}
  /\ t.logsOf \in {0, t.me} /\ t.catalogOf \in {0, t.me}

Kept(t, u, n) == (Good(t, n) => Good(u, n)) /\ (Best(t, n) => Best(u, n))

LEMMA KeptTwice ==
  ASSUME NEW t, NEW u, NEW v, NEW n, Kept(t, u, n), Kept(u, v, n)
  PROVE  Kept(t, v, n)
BY DEF Kept

LEMMA StopKept ==
  ASSUME NEW t, NEW n
  PROVE  Kept(t, stopLive(t), n)
BY DEF Kept, Good, Best, Shape, Fields, FreshOk, stopLive

LEMMA StartKept ==
  ASSUME NEW t, NEW n
  PROVE  Kept(t, startLive(t), n)
BY DEF Kept, Good, Best, Shape, Fields, FreshOk, startLive

LEMMA QueueKept ==
  ASSUME NEW t, NEW n, NEW topics, NEW reset
  PROVE  Kept(t, queueLive(t, topics, reset), n)
BY DEF Kept, Good, Best, Shape, Fields, FreshOk, queueLive

LEMMA NextKept ==
  ASSUME NEW t, NEW n
  PROVE  Kept(t, NextGeneration(t), n)
BY DEF Kept, Good, Best, Shape, Fields, FreshOk, NextGeneration, Idle, NoOp

LEMMA BootKept ==
  ASSUME NEW t, NEW n, NEW b, NEW pc
  PROVE  Kept(t, [t EXCEPT !.boot[b] = pc], n)
BY DEF Kept, Good, Best, Shape, Fields, FreshOk

LEMMA LoginPageKept ==
  ASSUME NEW t, NEW n, NEW b, NEW pc
  PROVE  Kept(t, loginPage(t, b, pc), n)
<1> DEFINE u == NextGeneration(stopLive(t))
<1>1. Kept(t, stopLive(t), n) /\ Kept(stopLive(t), u, n)
  BY StopKept, NextKept
<1>2. Good(u, n) => \A k \in Kinds : ~u.op[k].fresh
  BY DEF Good, Shape, Fields, NextGeneration, NoOp
<1>3. Good(u, n) => ~u.nav.fresh
  BY DEF Good, Shape, Fields, NextGeneration, Idle
<1> HIDE DEF u
<1>4. Kept(u, [u EXCEPT !.me = 0, !.catalog = 0, !.catalogOf = 0, !.logs = <<>>,
                        !.logsOf = 0, !.cursor = 0, !.boot[b] = pc], n)
  BY <1>2, <1>3 DEF Kept, Good, Best, Shape, Fields, FreshOk
<1> QED
  BY <1>1, <1>4, KeptTwice DEF loginPage, u

LEMMA BootstrapKept ==
  ASSUME NEW t, NEW n, NEW b
  PROVE  Kept(t, bootstrap(t, b), n)
<1> DEFINE u == NextGeneration(stopLive(t))
<1>1. Kept(t, stopLive(t), n) /\ Kept(stopLive(t), u, n)
  BY StopKept, NextKept
<1>2. Kept(u, [u EXCEPT !.boot[b] = "me"], n)
  BY BootKept
<1> HIDE DEF u
<1> QED
  BY <1>1, <1>2, KeptTwice DEF bootstrap, u

LEMMA EndedKept ==
  ASSUME NEW t, NEW n, NEW k
  PROVE  Kept(t, [t EXCEPT !.op[k] = NoOp], n)
BY DEF Kept, Good, Best, Shape, Fields, FreshOk, NoOp, NoAnswer, Pcs

LEMMA FailedKept ==
  ASSUME NEW t, NEW n, NEW topics
  PROVE  Kept(t, Failed(t, topics), n)
BY DEF Kept, Good, Best, Shape, Fields, FreshOk, Failed

LEMMA PcKept ==
  ASSUME NEW t, NEW n, NEW k, NEW pc \in Pcs
  PROVE  Kept(t, [t EXCEPT !.op[k].pc = pc], n)
BY DEF Kept, Good, Best, Shape, Fields, FreshOk, NoOp

LEMMA AskedKept ==
  ASSUME NEW t, NEW n, NEW k, NEW pc \in Pcs
  PROVE  Kept(t, [t EXCEPT !.op[k].pc = pc, !.op[k].ans = NoAnswer], n)
BY DEF Kept, Good, Best, Shape, Fields, FreshOk, NoOp, NoAnswer, Pcs

LEMMA BegunKept ==
  ASSUME NEW t, NEW n, t.me # 0, NEW k, NEW topics, NEW owner
  PROVE  Kept(t, [t EXCEPT !.op[k] = [NoOp EXCEPT !.topics = topics, !.fresh = TRUE,
                                                 !.owner = owner]], n)
BY DEF Kept, Good, Best, Shape, Fields, FreshOk, NoOp, NoAnswer, Pcs

LEMMA ShownKept ==
  ASSUME NEW t, NEW n, t.me # 0, NEW what, NEW a, a.login = n
  PROVE  Kept(t, Shown(t, what, a), n)
BY DEF Kept, Good, Best, Shape, Fields, FreshOk, Shown

LEMMA FinishKept ==
  ASSUME NEW t, NEW n, NEW k, NEW ok
  PROVE  Kept(t, Finish(t, k, ok), n)
<1> DEFINE o == t.op[k]
           u == [t EXCEPT !.op[k] = NoOp]
<1>1. Kept(t, u, n)
  BY EndedKept
<1>2. Kept(u, Failed(u, o.topics), n)
  BY FailedKept
<1>3. Kept(u, [u EXCEPT !.live = TRUE], n)
  BY DEF Kept, Good, Best, Shape, Fields, FreshOk
<1>4. Kept(u, startLive(u), n)
  BY StartKept
<1>5. Kept(startLive(u), [startLive(u) EXCEPT !.boot[o.owner] = "idle"], n)
  BY BootKept
<1>6. Finish(t, k, ok) \in {u, Failed(u, o.topics), [u EXCEPT !.live = TRUE],
                            [startLive(u) EXCEPT !.boot[o.owner] = "idle"]}
  BY DEF Finish
<1> HIDE DEF u, o
<1> QED
  BY <1>1, <1>2, <1>3, <1>4, <1>5, <1>6 DEF Kept

LEMMA ThrowKept ==
  ASSUME NEW t, NEW n, NEW k
  PROVE  Kept(t, Throw(t, k), n)
<1> DEFINE u == [t EXCEPT !.op[k] = NoOp]
<1>1. Kept(t, u, n)
  BY EndedKept
<1>2. Kept(u, loginPage(u, "event", "again"), n) /\ Kept(u, [u EXCEPT !.boot["form"] = "idle"], n)
  BY LoginPageKept, BootKept
<1>3. Throw(t, k) \in {u, loginPage(u, "event", "again"), [u EXCEPT !.boot["form"] = "idle"]}
  BY DEF Throw
<1> HIDE DEF u
<1> QED
  BY <1>1, <1>2, <1>3 DEF Kept

LEMMA FirstPc ==
  ASSUME NEW todo \in SUBSET {1, 2, 3}, todo # {}
  PROVE  Order[First(todo)] \in Pcs
<1>1. PICK j \in todo : \A l \in todo : j <= l
  <2>1. CASE 1 \in todo
    BY <2>1
  <2>2. CASE 1 \notin todo /\ 2 \in todo
    BY <2>2
  <2>3. CASE 1 \notin todo /\ 2 \notin todo
    <3>1. 3 \in todo
      BY <2>3
    <3> QED
      BY <2>3, <3>1
  <2> QED
    BY <2>1, <2>2, <2>3
<1>2. First(todo) \in todo
  BY <1>1 DEF First
<1>3. First(todo) \in {1, 2, 3}
  BY <1>2
<1> QED
  BY <1>3 DEF Order, Pcs

LEMMA GoOnKept ==
  ASSUME NEW t, NEW n, NEW k, NEW i \in 1..4
  PROVE  Kept(t, GoOn(t, k, i), n)
<1>1. Kept(t, Finish(t, k, TRUE), n)
  BY FinishKept
<1>2. Todo(t, k, i) \in SUBSET {1, 2, 3}
  BY DEF Todo
<1>3. CASE Todo(t, k, i) = {}
  BY <1>1, <1>3 DEF GoOn
<1>4. CASE Todo(t, k, i) # {}
  <2>1. Order[First(Todo(t, k, i))] \in Pcs
    BY <1>2, <1>4, FirstPc
  <2> QED
    BY <1>4, <2>1, AskedKept DEF GoOn
<1> QED
  BY <1>3, <1>4

LEMMA RefreshKept ==
  ASSUME NEW t, NEW n, t.me # 0, NEW k, NEW topics, NEW owner
  PROVE  Kept(t, refresh(t, k, topics, owner), n)
<1> DEFINE u == [t EXCEPT !.op[k] = [NoOp EXCEPT !.topics = topics, !.fresh = TRUE,
                                                !.owner = owner]]
<1>1. Kept(t, u, n)
  BY BegunKept
<1>2. Kept(u, GoOn(u, k, 1), n)
  BY GoOnKept
<1> HIDE DEF u
<1> QED
  BY <1>1, <1>2, KeptTwice DEF refresh, u

LEMMA ArrivedKept ==
  ASSUME NEW t, NEW n, NEW k \in Kinds, t.op[k].pc \in {"overview", "catalog", "logs"}
  PROVE  Kept(t, Arrived(t, k), n)
<1> DEFINE o == t.op[k]
           i == CHOOSE j \in 1..3 : Order[j] = o.pc
           u == bootstrap(t, "failure")
           v == Shown(t, o.pc, o.ans)
<1>1. Kept(t, [u EXCEPT !.op[k].pc = "failing"], n)
  <2>1. Kept(t, u, n) /\ Kept(u, [u EXCEPT !.op[k].pc = "failing"], n)
    BY BootstrapKept, PcKept DEF Pcs
  <2> HIDE DEF u
  <2> QED
    BY <2>1, KeptTwice
<1>2. Kept(t, Finish(t, k, FALSE), n)
  BY FinishKept
<1>0. i + 1 \in 1..4
  <2>1. \E j \in 1..3 : Order[j] = o.pc
    BY DEF Order
  <2> QED
    BY <2>1
<1>3. ASSUME o.ans.is = "ok", o.fresh, Good(t, n)
      PROVE  Kept(t, GoOn(v, k, i + 1), n)
  <2>1. t.me # 0 /\ o.ans.login = n
    BY <1>3 DEF Good, FreshOk
  <2>2. Kept(t, v, n) /\ Kept(v, GoOn(v, k, i + 1), n)
    BY <1>0, <2>1, ShownKept, GoOnKept
  <2> HIDE DEF v, i
  <2> QED
    BY <2>2, KeptTwice
<1>4. \/ Arrived(t, k) \in {[u EXCEPT !.op[k].pc = "failing"], Finish(t, k, FALSE)}
      \/ o.ans.is = "ok" /\ o.fresh /\ Arrived(t, k) = GoOn(v, k, i + 1)
  BY DEF Arrived
<1> HIDE DEF u, v, i, o
<1> QED
  BY <1>1, <1>2, <1>3, <1>4 DEF Kept, Best

LEMMA EndBootKept ==
  ASSUME NEW t, NEW n, NEW b
  PROVE  Kept(t, EndBoot(t, b), n)
<1> DEFINE u == [t EXCEPT !.boot[b] = "idle"]
           k == CHOOSE k \in Kinds : t.op[k].pc = "failing"
<1>1. Kept(t, u, n) /\ Kept(u, Finish(u, k, FALSE), n)
  BY BootKept, FinishKept
<1>2. EndBoot(t, b) \in {u, Finish(u, k, FALSE)}
  BY DEF EndBoot
<1> HIDE DEF u, k
<1> QED
  BY <1>1, <1>2, KeptTwice

LEMMA ThrowBootKept ==
  ASSUME NEW t, NEW n, NEW b
  PROVE  Kept(t, ThrowBoot(t, b), n)
<1> DEFINE u == [t EXCEPT !.boot[b] = "idle"]
           k == CHOOSE k \in Kinds : t.op[k].pc = "failing"
<1>1. Kept(t, u, n) /\ Kept(u, Throw(u, k), n) /\ Kept(u, loginPage(u, b, "again"), n)
  BY BootKept, ThrowKept, LoginPageKept
<1>2. \/ ThrowBoot(t, b) = u
      \/ ThrowBoot(t, b) = Throw(u, k)
      \/ ThrowBoot(t, b) = loginPage(u, b, "again")
  BY DEF ThrowBoot
<1> HIDE DEF u, k
<1> QED
  BY <1>1, <1>2, KeptTwice

LEMMA EnteredKept ==
  ASSUME NEW t, NEW n, n # 0
  PROVE  Kept(t, [t EXCEPT !.me = n, !.page = "shell"], n)
BY DEF Kept, Good, Best, Shape, Fields, FreshOk

LEMMA LeftKept ==
  ASSUME NEW t, NEW n
  PROVE  Kept(t, [t EXCEPT !.page = "login"], n)
BY DEF Kept, Good, Best, Shape, Fields, FreshOk

LEMMA BootArrivedKept ==
  ASSUME NEW t, NEW n, NEW b, NEW a,
         a.is \notin {"error", "login"} /\ t.boot[b] = "me" => a.n = n /\ n # 0
  PROVE  Kept(t, BootArrived(t, b, a), n)
<1>1. CASE a.is = "error"
  BY <1>1, ThrowBootKept DEF BootArrived
<1>2. CASE a.is = "login"
  BY <1>2, LoginPageKept DEF BootArrived
<1>3. CASE a.is \notin {"error", "login"} /\ t.boot[b] # "me"
  <2> DEFINE u == [t EXCEPT !.page = "login"]
  <2>1. Kept(t, u, n) /\ Kept(u, EndBoot(u, b), n)
    BY LeftKept, EndBootKept
  <2>2. BootArrived(t, b, a) = EndBoot(u, b)
    BY <1>3 DEF BootArrived
  <2> HIDE DEF u
  <2> QED
    BY <2>1, <2>2, KeptTwice
<1>4. CASE a.is \notin {"error", "login"} /\ t.boot[b] = "me"
  <2> DEFINE in == [t EXCEPT !.me = a.n, !.page = "shell"]
             u == startLive(in)
             v == [in EXCEPT !.boot[b] = "refresh"]
  <2>1. Kept(t, in, n)
    BY <1>4, EnteredKept
  <2>2. Kept(in, EndBoot(u, b), n)
    BY StartKept, EndBootKept, KeptTwice
  <2>3. Good(t, n) => v.me # 0
    BY <1>4 DEF Good, Shape, Fields
  <2>4. Kept(in, v, n)
    BY BootKept
  <2>5. BootArrived(t, b, a) \in {EndBoot(u, b), refresh(v, "user", Topics, b)}
    BY <1>4 DEF BootArrived
  <2> HIDE DEF in, u, v
  <2>6. Good(t, n) => Kept(v, refresh(v, "user", Topics, b), n)
    BY <2>3, RefreshKept
  <2> QED
    BY <2>1, <2>2, <2>4, <2>5, <2>6 DEF Kept, Best
<1> QED
  BY <1>1, <1>2, <1>3, <1>4

LEMMA TimerKept ==
  ASSUME NEW t, NEW n
  PROVE  Kept(t, TimerCallback(t), n)
<1> DEFINE u == [t EXCEPT !.timer = FALSE]
           v == IF t.reset THEN Emptied(u) ELSE u
           w == [v EXCEPT !.pend = {}]
<1>1. Kept(t, u, n)
  BY DEF Kept, Good, Best, Shape, Fields, FreshOk
<1>2. Kept(u, v, n)
  BY DEF Kept, Good, Best, Shape, Fields, FreshOk, Emptied
<1>3. Kept(v, w, n)
  BY DEF Kept, Good, Best, Shape, Fields, FreshOk
<1>4. Good(t, n) => w.me = t.me
  BY DEF Good, Shape, Fields, Emptied
<1>5. \/ TimerCallback(t) \in {t, u}
      \/ t.me # 0 /\ TimerCallback(t) = refresh(w, "live", t.pend, "timer")
  BY DEF TimerCallback
<1> HIDE DEF u, v, w
<1>6. w.me # 0 => Kept(w, refresh(w, "live", t.pend, "timer"), n)
  BY RefreshKept
<1> QED
  BY <1>1, <1>2, <1>3, <1>4, <1>5, <1>6 DEF Kept, Best

LEMMA IntervalKept ==
  ASSUME NEW t, NEW n
  PROVE  Kept(t, IntervalCallback(t), n)
<1> DEFINE u == IF Silent(t) THEN startLive(stopLive(t)) ELSE t
<1>1. Kept(t, u, n)
  <2>1. Kept(t, startLive(stopLive(t)), n)
    BY StopKept, StartKept, KeptTwice
  <2>2. Kept(t, t, n)
    BY DEF Kept
  <2> QED
    BY <2>1, <2>2
<1>2. Kept(u, queueLive(u, Topics, FALSE), n)
  BY QueueKept
<1>3. IntervalCallback(t) \in {t, u, queueLive(u, Topics, FALSE)}
  BY DEF IntervalCallback
<1> HIDE DEF u
<1> QED
  BY <1>1, <1>2, <1>3 DEF Kept

\* What the invariant does not speak about may change in any way.
SameView(t, u) ==
  /\ DOMAIN u = DOMAIN t
  /\ u.me = t.me /\ u.page = t.page /\ u.logsOf = t.logsOf /\ u.catalogOf = t.catalogOf
  /\ u.op = t.op /\ u.nav = t.nav

LEMMA SameKept ==
  ASSUME NEW t, NEW u, NEW n, SameView(t, u)
  PROVE  Kept(t, u, n)
BY DEF SameView, Kept, Good, Best, Shape

\* The inductive invariant of the logins: the cookie stands for the last one or none.
LoginInv ==
  /\ logins \in Nat /\ sess \in {0, logins}
  /\ Good(tab, logins)

\* Every step but a login.
Moves == Kept(tab, tab', logins) /\ logins' = logins /\ sess' \in {0, sess}

LEMMA ManagerMoves ==
  ASSUME LoginInv,
         \/ Change("overview") \/ Change("catalog") \/ Record \/ Revoke \/ Restart
         \/ Tick
  PROVE  Moves
<1>1. SameView(tab, tab') => Kept(tab, tab', logins)
  BY SameKept
<1>2. DOMAIN tab = Fields
  BY DEF LoginInv, Good, Shape
<1>3. CASE Change("overview") \/ Change("catalog") \/ Record \/ Revoke
  BY <1>1, <1>3 DEF Change, Record, Revoke, Moves, SameView
<1>4. CASE Restart
  BY <1>1, <1>2, <1>4 DEF Restart, Moves, SameView, Fields
<1>5. CASE Tick
  BY <1>1, <1>2, <1>5 DEF Tick, Moves, SameView, Fields
<1> QED
  BY <1>3, <1>4, <1>5

LEMMA ServeMoves ==
  ASSUME LoginInv, Served
  PROVE  Moves
<1>1. ASSUME NEW what \in Pcs, NEW a \in api(what), a.is = "ok"
      PROVE  a.login = logins
  BY <1>1 DEF LoginInv, api, Answer, Failure, NoAnswer, Pcs
<1>2. ASSUME NEW k \in Kinds, ServeOp(k)
      PROVE  Moves
  <2>1. PICK a \in api(tab.op[k].pc) : /\ Replies(tab.op[k].pc, a)
                                       /\ tab' = [tab EXCEPT !.op[k].ans = a]
    BY <1>2 DEF ServeOp
  <2>2. tab.op[k].pc \in Pcs
    BY DEF LoginInv, Good
  <2>3. a.is = "ok" => a.login = logins
    BY <1>1, <2>1, <2>2
  <2>4. Kept(tab, tab', logins)
    BY <2>1, <2>3 DEF LoginInv, Kept, Good, Best, Shape, Fields, FreshOk, NoOp
  <2> QED
    BY <2>1, <2>4 DEF Moves, Replies, ServerIdle
<1>3. ASSUME ServeNav
      PROVE  Moves
  <2>1. PICK a \in api(tab.nav.pc) : /\ Replies(tab.nav.pc, a)
                                     /\ tab' = [tab EXCEPT !.nav.ans = a]
    BY <1>3 DEF ServeNav
  <2>2. tab.nav.pc \in Pcs
    BY DEF LoginInv, Good, Pcs
  <2>3. a.is = "ok" => a.login = logins
    BY <1>1, <2>1, <2>2
  <2>4. Kept(tab, tab', logins)
    BY <2>1, <2>3 DEF LoginInv, Kept, Good, Best, Shape, Fields, FreshOk, Idle
  <2> QED
    BY <2>1, <2>4 DEF Moves, Replies, ServerIdle
<1> QED
  BY <1>2, <1>3 DEF Served

LEMMA AnswerMoves ==
  ASSUME LoginInv, Answered
  PROVE  Moves
<1>1. ASSUME NEW k \in Kinds, OpAnswer(k)
      PROVE  Moves
  <2>1. tab.op[k].pc \in {"overview", "catalog", "logs"}
    BY <1>1 DEF LoginInv, Good, OpAnswer, Pending, Pcs
  <2> QED
    BY <1>1, <2>1, ArrivedKept DEF OpAnswer, Runs, ServerIdle, Moves
<1>2. ASSUME NEW b \in Boots, BootAnswer(b)
      PROVE  Moves
  <2>1. PICK a \in api(tab.boot[b]) : Replies(tab.boot[b], a) /\ tab' = BootArrived(tab, b, a)
    BY <1>2 DEF BootAnswer
  <2>2. a.is \notin {"error", "login"} /\ tab.boot[b] = "me" => a.n = logins /\ logins # 0
    BY <2>1 DEF LoginInv, api, Answer, Failure, NoAnswer
  <2>3. Kept(tab, tab', logins)
    BY <2>1, <2>2, BootArrivedKept
  <2> QED
    BY <2>1, <2>3 DEF Moves, Replies, ServerIdle
<1>3. ASSUME NavAnswer
      PROVE  Moves
  <2> DEFINE a == tab.nav.ans
             u == [tab EXCEPT !.nav = Idle]
             v == Shown(u, "catalog", a)
  <2>1. Kept(tab, u, logins)
    BY DEF LoginInv, Kept, Good, Best, Shape, Fields, FreshOk, Idle, NoAnswer
  <2>2. a.is = "ok" /\ tab.nav.fresh => u.me # 0 /\ a.login = logins
    BY DEF LoginInv, Good, FreshOk, Shape, Fields
  <2>3. DOMAIN u = Fields
    BY DEF LoginInv, Good, Shape
  <2>4. tab' = IF a.is = "ok" /\ tab.nav.fresh
               THEN [v EXCEPT !.navStale = a.n < tab.catalog]
               ELSE [u EXCEPT !.navStale = TRUE]
    BY <1>3 DEF NavAnswer, Runs
  <2>5. Moves \/ ~Kept(tab, tab', logins)
    BY <1>3 DEF NavAnswer, Runs, ServerIdle, Moves
  <2> HIDE DEF a, u, v
  <2>6. SameView(u, [u EXCEPT !.navStale = TRUE])
    BY <2>3 DEF SameView, Fields
  <2>7. Kept(u, [u EXCEPT !.navStale = TRUE], logins)
    BY <2>6, SameKept
  <2>8. CASE a.is = "ok" /\ tab.nav.fresh
    <3>1. Kept(u, v, logins)
      BY <2>2, <2>8, ShownKept DEF v
    <3>2. DOMAIN v = Fields
      BY <2>3 DEF v, Shown
    <3>3. SameView(v, [v EXCEPT !.navStale = a.n < tab.catalog])
      BY <3>2 DEF SameView, Fields
    <3>4. Kept(v, [v EXCEPT !.navStale = a.n < tab.catalog], logins)
      BY <3>3, SameKept
    <3> QED
      BY <2>1, <2>4, <2>5, <2>8, <3>1, <3>4, KeptTwice
  <2> QED
    BY <2>1, <2>4, <2>5, <2>7, <2>8, KeptTwice
<1> QED
  BY <1>1, <1>2, <1>3 DEF Answered

LEMMA StreamMoves ==
  ASSUME LoginInv, Stream \/ ConnectFails \/ Breaks \/ Hide \/ Show
  PROVE  Moves
<1>0. DOMAIN tab = Fields
  BY DEF LoginInv, Good, Shape
<1>1. CASE Opens
  <2>1. SameView(tab, tab')
    BY <1>0, <1>1 DEF Opens, Sync, SameView, Fields
  <2> QED
    BY <1>1, <2>1, SameKept DEF Opens, Moves
<1>2. \A t : Kept(t, OnError(t), logins)
  <2>1. ASSUME NEW t
        PROVE  Kept(t, OnError(t), logins)
    <3> DEFINE u == [t EXCEPT !.live = FALSE, !.seen = FALSE]
    <3>1. Kept(t, u, logins)
      BY DEF Kept, Good, Best, Shape, Fields, FreshOk
    <3>2. Kept(u, queueLive(u, Topics, FALSE), logins)
      BY QueueKept
    <3> HIDE DEF u
    <3> QED
      BY <3>1, <3>2, KeptTwice DEF OnError, u
  <2> QED
    BY <2>1
<1>3. CASE Refused
  <2> DEFINE u == [tab EXCEPT !.es = "closed"]
  <2>1. SameView(tab, u)
    BY <1>0 DEF SameView, Fields
  <2>2. tab' = OnError(u) /\ logins' = logins /\ sess' = sess
    BY <1>3 DEF Refused, ServerIdle
  <2> HIDE DEF u
  <2> QED
    BY <1>2, <2>1, <2>2, SameKept, KeptTwice DEF Moves
<1>4. CASE ConnectFails
  BY <1>2, <1>4 DEF ConnectFails, ServerIdle, Moves
<1>5. CASE Ends
  <2> DEFINE u == [tab EXCEPT !.es = "connecting", !.link = "none"]
  <2>1. SameView(tab, u)
    BY <1>0 DEF SameView, Fields
  <2>2. tab' = OnError(u) /\ logins' = logins /\ sess' = sess
    BY <1>5 DEF Ends, Runs, ServerIdle
  <2> HIDE DEF u
  <2> QED
    BY <1>2, <2>1, <2>2, SameKept, KeptTwice DEF Moves
<1>6. CASE Ages \/ Breaks
  <2>1. SameView(tab, tab')
    BY <1>0, <1>6 DEF Ages, Breaks, Runs, SameView, Fields
  <2> QED
    BY <1>6, <2>1, SameKept DEF Ages, Breaks, Runs, ServerIdle, Moves
<1>7. CASE Deliver
  <2> DEFINE e == Head(tab.pipe)
             u == [tab EXCEPT !.pipe = Tail(@)]
             v == [u EXCEPT !.seen = TRUE]
  <2>1. SameView(tab, u)
    BY <1>0 DEF SameView, Fields
  <2>2. SameView(tab, v)
    BY <1>0 DEF SameView, Fields
  <2>3. \/ tab' = bootstrap(stopLive(u), "event")
        \/ tab' = queueLive(v, e.topics, e.reset)
    <3>1. CASE e.event = "auth"
      <4>1. Runs(bootstrap(stopLive(u), "event"))
        BY <1>7, <3>1 DEF Deliver
      <4> QED
        BY <4>1 DEF Runs
    <3>2. CASE e.event # "auth"
      <4>1. Runs(queueLive(v, e.topics, e.reset))
        BY <1>7, <3>2 DEF Deliver
      <4> QED
        BY <4>1 DEF Runs
    <3> QED
      BY <3>1, <3>2
  <2>4. logins' = logins /\ sess' = sess
    BY <1>7 DEF Deliver, Runs, ServerIdle
  <2> HIDE DEF u, v, e
  <2>6. Kept(tab, bootstrap(stopLive(u), "event"), logins)
    BY <2>1, SameKept, StopKept, BootstrapKept, KeptTwice
  <2>5. Kept(tab, queueLive(v, e.topics, e.reset), logins)
    BY <2>2, SameKept, QueueKept, KeptTwice
  <2> QED
    BY <2>3, <2>4, <2>5, <2>6 DEF Moves
<1>8. CASE Hide
  <2> DEFINE u == stopLive(tab)
             v == [u EXCEPT !.hidden = TRUE, !.live = FALSE]
  <2>1. Kept(tab, u, logins) /\ DOMAIN u = Fields
    BY <1>0, StopKept DEF stopLive
  <2>2. tab' = v /\ logins' = logins /\ sess' = sess
    BY <1>8 DEF Hide, ServerIdle
  <2> HIDE DEF u
  <2>3. SameView(u, v)
    BY <2>1 DEF SameView, Fields
  <2> HIDE DEF v
  <2> QED
    BY <2>1, <2>2, <2>3, SameKept, KeptTwice DEF Moves
<1>9. CASE Show
  <2> DEFINE u == [tab EXCEPT !.hidden = FALSE]
  <2>1. SameView(tab, u)
    BY <1>0 DEF SameView, Fields
  <2>2. tab' = startLive(u) /\ logins' = logins /\ sess' = sess
    BY <1>9 DEF Show, Runs, ServerIdle
  <2> HIDE DEF u
  <2> QED
    BY <2>1, <2>2, SameKept, StartKept, KeptTwice DEF Moves
<1> QED
  BY <1>1, <1>3, <1>4, <1>5, <1>6, <1>7, <1>8, <1>9 DEF Stream

LEMMA UserMoves ==
  ASSUME LoginInv, TimerFires \/ Interval \/ Logout \/ Refresh \/ Navigate
  PROVE  Moves
<1>1. CASE TimerFires
  BY <1>1, TimerKept DEF TimerFires, Runs, ServerIdle, Moves
<1>2. CASE Interval
  BY <1>2, IntervalKept DEF Interval, Runs, ServerIdle, Moves
<1>3. CASE Logout
  BY <1>3, LoginPageKept DEF Logout, Moves
<1>4. CASE Refresh
  BY <1>4, RefreshKept DEF Refresh, Runs, ServerIdle, Moves
<1>5. CASE Navigate
  <2> DEFINE v == [tab EXCEPT !.view = "sessions"]
             w == [tab EXCEPT !.view = "users",
                              !.nav = [Idle EXCEPT !.pc = "catalog", !.fresh = TRUE]]
  <2>0. tab.me # 0 /\ tab' \in {v, w}
    BY <1>5 DEF Navigate, Runs
  <2>1. Kept(tab, v, logins)
    BY DEF Kept, Good, Best, Shape, Fields, FreshOk
  <2>2. Kept(tab, w, logins)
    BY <2>0 DEF Kept, Good, Best, Shape, Fields, FreshOk, Idle, NoAnswer
  <2> QED
    BY <1>5, <2>0, <2>1, <2>2 DEF Navigate, Runs, ServerIdle, Moves
<1> QED
  BY <1>1, <1>2, <1>3, <1>4, <1>5

LEMMA LoginStarts ==
  ASSUME LoginInv, Login
  PROVE  LoginInv' /\ tab'.me = tab.me
<1> DEFINE u == NextGeneration(stopLive(tab))
           n == logins + 1
<1>1. Good(u, logins) /\ u.me = tab.me /\ u.page = tab.page
  <2>1. Good(u, logins)
    BY StopKept, NextKept DEF LoginInv, Kept
  <2>2. u.me = tab.me /\ u.page = tab.page
    BY DEF NextGeneration, stopLive, LoginInv, Good, Shape, Fields
  <2> QED
    BY <2>1, <2>2
<1>2. \A k \in Kinds : ~u.op[k].fresh
  BY DEF LoginInv, Good, Shape, Fields, NextGeneration, stopLive, NoOp
<1>3. ~u.nav.fresh
  BY DEF LoginInv, Good, Shape, Fields, NextGeneration, stopLive, Idle
<1>4. tab' = [u EXCEPT !.boot["form"] = "me"] /\ tab.page = "login"
  BY <1>1 DEF Login, bootstrap
<1>5. logins' = n /\ sess' = n /\ n \in Nat
  BY DEF Login, LoginInv
<1> HIDE DEF u, n
<1>6. Good(tab', n) /\ tab'.me = u.me
  BY <1>1, <1>2, <1>3, <1>4 DEF Good, Shape, Fields, FreshOk
<1> QED
  BY <1>1, <1>5, <1>6 DEF LoginInv

LEMMA LoginInit ==
  ASSUME Init
  PROVE  LoginInv
BY DEF Init, LoginInv, Good, Shape, Fields, FreshOk, Kinds, NoOp, Idle, NoAnswer, Pcs

LEMMA NextMoves ==
  ASSUME LoginInv, [Next]_vars
  PROVE  Moves \/ Login
<1>1. CASE UNCHANGED vars
  BY <1>1 DEF vars, Moves, Kept
<1> QED
  BY <1>1, ManagerMoves, ServeMoves, AnswerMoves, StreamMoves, UserMoves DEF Next

LEMMA LoginStep ==
  ASSUME LoginInv, [Next]_vars
  PROVE  LoginInv'
BY NextMoves, LoginStarts DEF LoginInv, Moves, Kept

\* The inductive invariant of the logins (authGeneration and what loginPage() clears).
THEOREM LoginHolds == Spec => []LoginInv
<1> QED
  BY LoginInit, LoginStep, PTL DEF Spec

\* A step brings nothing of another login into the view, unless it starts from a login
\* page over the console of somebody who is signed in (bootstrap, loginPage, refresh).
THEOREM OwnView == Spec => LoginOwnsView
<1>1. LoginInv /\ [Next]_vars => [Own /\ ~Covered => Own']_vars
  <2> SUFFICES ASSUME LoginInv, [Next]_vars, Own, ~Covered
               PROVE  Own'
    OBVIOUS
  <2>1. Best(tab, logins)
    BY DEF LoginInv, Good, Best, Own, Covered
  <2>2. CASE Moves
    BY <2>1, <2>2 DEF Moves, Kept, Best, Own
  <2>3. CASE Login
    <3>1. tab.me = 0
      BY <2>3 DEF Login, Covered
    <3> QED
      BY <2>3, <3>1, LoginStarts DEF Own
  <2> QED
    BY <2>2, <2>3, NextMoves
<1> QED
  BY <1>1, LoginHolds, PTL DEF Spec, LoginOwnsView

\* A tab that is signed out has nothing of the console left: no log, no catalog, and no
\* answer under way that it would show (loginPage).
SignedOutEmpty ==
  tab.me = 0 => /\ tab.logsOf = 0 /\ tab.catalogOf = 0 /\ ~tab.nav.fresh
                /\ \A k \in Kinds : ~tab.op[k].fresh
THEOREM LeavesNothing == Spec => []SignedOutEmpty
<1>1. LoginInv => SignedOutEmpty
  BY DEF LoginInv, Good, SignedOutEmpty
<1> QED
  BY <1>1, LoginHolds, PTL

\* As long as no login page covers the console of somebody who is signed in, log and
\* catalog are always those of the login (loginPage's late answer is the only way out).
THEOREM OwnViewUncovered == Spec /\ []~Covered => []Own
<1>1. Init => Own
  BY DEF Init, Own
<1>2. [Own /\ ~Covered => Own']_vars /\ Own /\ ~Covered => Own'
  BY DEF vars, Own
<1> QED
  BY <1>1, <1>2, OwnView, PTL DEF Spec, LoginOwnsView
-----------------------------------------------------------------------------
(* The log: each record at most once and in the manager's order.             *)

\* A record is its manager's incarnation and its number there.
Before(r, q) == r[1] < q[1] \/ (r[1] = q[1] /\ r[2] < q[2])
Once(log) == \A i, j \in 1..Len(log) : i < j => Before(log[i], log[j])
Upto(log, e, c) ==
  \A i \in 1..Len(log) : log[i][1] < e \/ (log[i][1] = e /\ log[i][2] <= c)

Run(e, c, n) == [i \in 1..(IF n > c THEN n - c ELSE 0) |-> <<e, c + i>>]

\* Answer a continues log and cursor: it was asked for with this cursor, of the manager
\* that now runs or of one before (e, s is the present incarnation and its records).
AskedFor(t, a, e, s) ==
  /\ a.n \in Nat
  /\ \E f \in 1..e : /\ a.records = Run(f, t.cursor, a.n)
                     /\ f = e => a.n <= s
                     /\ Upto(t.logs, f, t.cursor) /\ Upto(t.logs, f, a.n)
Awaited(o) == o.fresh /\ o.pc = "logs" /\ o.ans.is = "ok"

LogOk(log, c, e, s) ==
  /\ log \in Seq(Nat \X Nat) /\ c \in Nat
  /\ Once(log) /\ Upto(log, e, c) /\ Upto(log, e, s)

OpShape(t) ==
  /\ DOMAIN t = Fields /\ DOMAIN t.op = Kinds
  /\ \A k \in Kinds : DOMAIN t.op[k] = DOMAIN NoOp
  /\ t.op["live"].pc = "idle" \/ t.op["user"].pc = "idle"

\* Chain x has just shown what it awaited.
LoggedBut(t, e, s, x) ==
  /\ OpShape(t) /\ LogOk(t.logs, t.cursor, e, s)
  /\ \A k \in Kinds \ {x} : Awaited(t.op[k]) => AskedFor(t, t.op[k].ans, e, s)
Logged(t, e, s) ==
  /\ OpShape(t) /\ LogOk(t.logs, t.cursor, e, s)
  /\ \A k \in Kinds : Awaited(t.op[k]) => AskedFor(t, t.op[k].ans, e, s)

SameLog(t, u) ==
  /\ DOMAIN u = DOMAIN t
  /\ u.op = t.op /\ u.logs = t.logs /\ u.cursor = t.cursor

LEMMA SameLogged ==
  ASSUME NEW t, NEW u, NEW e, NEW s, SameLog(t, u)
  PROVE  /\ Logged(t, e, s) => Logged(u, e, s)
         /\ \A x : LoggedBut(t, e, s, x) => LoggedBut(u, e, s, x)
BY DEF SameLog, Logged, LoggedBut, OpShape, AskedFor

\* What refreshLogs() appends and the cursor it takes over.
LEMMA ReadLog ==
  ASSUME NEW log \in Seq(Nat \X Nat), NEW c \in Nat, NEW e \in Nat, NEW s \in Nat,
         NEW n \in Nat, NEW f \in 1..e, Once(log),
         Upto(log, f, c), Upto(log, f, n), f = e => n <= s
  PROVE  LogOk(log \o Run(f, c, n), n, e, s)
<1> DEFINE m == IF n > c THEN n - c ELSE 0
           run == Run(f, c, n)
           new == log \o run
<1>1. m \in Nat
  OBVIOUS
<1>2. /\ run \in Seq(Nat \X Nat) /\ Len(run) = m
      /\ \A i \in 1..m : run[i] = <<f, c + i>>
  BY <1>1 DEF Run
<1> HIDE DEF run
<1>0. Len(log) \in Nat /\ \A i \in 1..Len(log) : log[i] \in Nat \X Nat
  OBVIOUS
<1>3. /\ new \in Seq(Nat \X Nat) /\ Len(new) = Len(log) + m
      /\ \A i \in 1..Len(new) : new[i] = IF i <= Len(log) THEN log[i] ELSE run[i - Len(log)]
  BY <1>2, ConcatProperties
<1>4. \A i \in 1..Len(log) : i \in 1..Len(new) /\ new[i] = log[i]
  BY <1>0, <1>1, <1>3
<1>5. ASSUME NEW i \in 1..Len(new), i > Len(log)
      PROVE  new[i][1] = f /\ new[i][2] = c + (i - Len(log)) /\ c + (i - Len(log)) <= n
  <2>1. i - Len(log) \in 1..m /\ ~(i <= Len(log))
    BY <1>0, <1>1, <1>3, <1>5
  <2>2. new[i] = <<f, c + (i - Len(log))>>
    BY <1>2, <1>3, <2>1
  <2>3. c + (i - Len(log)) <= n
    BY <2>1
  <2> QED
    BY <2>2, <2>3
<1>6. \A i \in 1..Len(new) : i <= Len(log) \/ i > Len(log)
  BY <1>0, <1>1, <1>3
<1>10. Len(new) \in Nat
  BY <1>0, <1>1, <1>3
<1> HIDE DEF new, m
<1>7. Once(new)
  <2> SUFFICES ASSUME NEW i \in 1..Len(new), NEW j \in 1..Len(new), i < j
               PROVE  Before(new[i], new[j])
    BY DEF Once
  <2>1. CASE j <= Len(log)
    <3>1. i \in 1..Len(log) /\ j \in 1..Len(log)
      BY <1>0, <1>10, <2>1
    <3> QED
      BY <1>4, <3>1 DEF Once
  <2>2. CASE j > Len(log) /\ i <= Len(log)
    <3>1. i \in 1..Len(log) /\ new[i] = log[i]
      BY <1>0, <1>4, <1>10, <2>2
    <3>2. new[j][1] = f /\ new[j][2] = c + (j - Len(log)) /\ c + (j - Len(log)) > c
      BY <1>0, <1>5, <1>10, <2>2
    <3>3. log[i][1] < f \/ (log[i][1] = f /\ log[i][2] <= c)
      BY <3>1 DEF Upto
    <3>4. log[i][2] \in Nat
      BY <1>0, <3>1
    <3> QED
      BY <1>0, <1>10, <2>2, <3>1, <3>2, <3>3, <3>4 DEF Before
  <2>3. CASE i > Len(log)
    <3>1. i > Len(log) /\ j > Len(log)
      BY <1>0, <1>10, <2>3
    <3>2. new[i][1] = new[j][1] /\ new[i][2] < new[j][2]
      BY <1>0, <1>5, <1>10, <3>1
    <3> QED
      BY <3>2 DEF Before
  <2> QED
    BY <1>6, <2>1, <2>2, <2>3
<1>8. Upto(new, e, n)
  <2> SUFFICES ASSUME NEW i \in 1..Len(new)
               PROVE  new[i][1] < e \/ (new[i][1] = e /\ new[i][2] <= n)
    BY DEF Upto
  <2>1. CASE i <= Len(log)
    <3>1. i \in 1..Len(log)
      BY <1>0, <1>10, <2>1
    <3>2. new[i] = log[i] /\ log[i][1] \in Nat /\ log[i][2] \in Nat
      BY <1>0, <1>4, <3>1
    <3>3. log[i][1] < f \/ (log[i][1] = f /\ log[i][2] <= n)
      BY <3>1 DEF Upto
    <3> QED
      BY <3>2, <3>3
  <2>2. CASE i > Len(log)
    BY <1>5, <2>2
  <2> QED
    BY <1>6, <2>1, <2>2
<1>9. Upto(new, e, s)
  <2> SUFFICES ASSUME NEW i \in 1..Len(new)
               PROVE  new[i][1] < e \/ (new[i][1] = e /\ new[i][2] <= s)
    BY DEF Upto
  <2>1. CASE i <= Len(log)
    <3>1. i \in 1..Len(log)
      BY <1>0, <1>10, <2>1
    <3>2. new[i] = log[i] /\ log[i][1] \in Nat /\ log[i][2] \in Nat
      BY <1>0, <1>4, <3>1
    <3>3. log[i][1] < f \/ (log[i][1] = f /\ log[i][2] <= n)
      BY <3>1 DEF Upto
    <3> QED
      BY <3>2, <3>3
  <2>2. CASE i > Len(log)
    BY <1>5, <2>2
  <2> QED
    BY <1>6, <2>1, <2>2
<1> QED
  BY <1>3, <1>7, <1>8, <1>9 DEF LogOk, new, run

LEMMA LogEmpty ==
  ASSUME NEW e, NEW s
  PROVE  LogOk(<<>>, 0, e, s)
BY DEF LogOk, Once, Upto

LEMMA StopLogged ==
  ASSUME NEW t, NEW e, NEW s, Logged(t, e, s)
  PROVE  Logged(stopLive(t), e, s)
<1>1. SameLog(t, stopLive(t))
  BY DEF Logged, OpShape, Fields, SameLog, stopLive
<1> QED
  BY <1>1, SameLogged

LEMMA StartLogged ==
  ASSUME NEW t, NEW e, NEW s, Logged(t, e, s)
  PROVE  Logged(startLive(t), e, s)
<1>1. SameLog(t, startLive(t))
  BY DEF Logged, OpShape, Fields, SameLog, startLive
<1> QED
  BY <1>1, SameLogged

LEMMA QueueLogged ==
  ASSUME NEW t, NEW e, NEW s, NEW topics, NEW reset, Logged(t, e, s)
  PROVE  Logged(queueLive(t, topics, reset), e, s)
<1>1. SameLog(t, queueLive(t, topics, reset))
  BY DEF Logged, OpShape, Fields, SameLog, queueLive
<1> QED
  BY <1>1, SameLogged

LEMMA FailedLogged ==
  ASSUME NEW t, NEW e, NEW s, NEW topics, Logged(t, e, s)
  PROVE  Logged(Failed(t, topics), e, s)
<1>1. SameLog(t, Failed(t, topics))
  BY DEF Logged, OpShape, Fields, SameLog, Failed
<1> QED
  BY <1>1, SameLogged

LEMMA BootLogged ==
  ASSUME NEW t, NEW e, NEW s, NEW b, NEW pc, Logged(t, e, s)
  PROVE  Logged([t EXCEPT !.boot[b] = pc], e, s)
<1>1. SameLog(t, [t EXCEPT !.boot[b] = pc])
  BY DEF Logged, OpShape, Fields, SameLog
<1> QED
  BY <1>1, SameLogged

\* After NextGeneration nothing is awaited.
LEMMA NextLogged ==
  ASSUME NEW t, NEW e, NEW s, Logged(t, e, s)
  PROVE  /\ Logged(NextGeneration(t), e, s)
         /\ \A k \in Kinds : ~Awaited(NextGeneration(t).op[k])
<1>1. /\ OpShape(NextGeneration(t))
      /\ NextGeneration(t).logs = t.logs /\ NextGeneration(t).cursor = t.cursor
  BY DEF Logged, OpShape, Fields, NextGeneration, NoOp, Kinds
<1>2. \A k \in Kinds : ~Awaited(NextGeneration(t).op[k])
  BY DEF Logged, OpShape, Fields, NextGeneration, NoOp, Awaited
<1> QED
  BY <1>1, <1>2 DEF Logged

LEMMA LoginPageLogged ==
  ASSUME NEW t, NEW e, NEW s, NEW b, NEW pc, Logged(t, e, s)
  PROVE  Logged(loginPage(t, b, pc), e, s)
<1> DEFINE u == NextGeneration(stopLive(t))
           v == [u EXCEPT !.me = 0, !.catalog = 0, !.catalogOf = 0, !.logs = <<>>,
                          !.logsOf = 0, !.cursor = 0, !.boot[b] = pc]
<1>1. Logged(u, e, s) /\ \A k \in Kinds : ~Awaited(u.op[k])
  BY StopLogged, NextLogged
<1> HIDE DEF u
<1>2. OpShape(v) /\ v.op = u.op /\ v.logs = <<>> /\ v.cursor = 0
  BY <1>1 DEF Logged, OpShape, Fields
<1>3. loginPage(t, b, pc) = v
  BY DEF loginPage, u
<1> HIDE DEF v
<1> QED
  BY <1>1, <1>2, <1>3, LogEmpty DEF Logged

LEMMA BootstrapLogged ==
  ASSUME NEW t, NEW e, NEW s, NEW b, Logged(t, e, s)
  PROVE  /\ Logged(bootstrap(t, b), e, s)
         /\ \A k \in Kinds : ~Awaited(bootstrap(t, b).op[k])
         /\ \A k \in Kinds : bootstrap(t, b).op[k].pc = t.op[k].pc
<1> DEFINE u == NextGeneration(stopLive(t))
<1>1. Logged(u, e, s) /\ \A k \in Kinds : ~Awaited(u.op[k])
  BY StopLogged, NextLogged
<1>2. \A k \in Kinds : u.op[k].pc = t.op[k].pc
  BY DEF Logged, OpShape, Fields, NextGeneration, stopLive, NoOp
<1> HIDE DEF u
<1>3. [u EXCEPT !.boot[b] = "me"].op = u.op
  BY <1>1 DEF Logged, OpShape, Fields
<1>4. bootstrap(t, b) = [u EXCEPT !.boot[b] = "me"]
  BY DEF bootstrap, u
<1> QED
  BY <1>1, <1>2, <1>3, <1>4, BootLogged

\* The operation that ends may have just shown what it was given.
LEMMA EndedLogged ==
  ASSUME NEW t, NEW e, NEW s, NEW k, Logged(t, e, s) \/ (k \in Kinds /\ LoggedBut(t, e, s, k))
  PROVE  Logged([t EXCEPT !.op[k] = NoOp], e, s)
<1> DEFINE u == [t EXCEPT !.op[k] = NoOp]
<1>1. OpShape(u) /\ u.logs = t.logs /\ u.cursor = t.cursor
  BY DEF Logged, LoggedBut, OpShape, Fields, Kinds, NoOp
<1>2. \A j \in Kinds : u.op[j] = IF j = k THEN NoOp ELSE t.op[j]
  BY DEF Logged, LoggedBut, OpShape, Fields
<1>3. ~Awaited(NoOp)
  BY DEF NoOp, Awaited
<1> HIDE DEF u
<1>4. ASSUME NEW j \in Kinds, Awaited(u.op[j])
      PROVE  AskedFor(u, u.op[j].ans, e, s)
  <2>1. j # k /\ u.op[j] = t.op[j] /\ Awaited(t.op[j])
    BY <1>2, <1>3, <1>4
  <2>3. AskedFor(t, t.op[j].ans, e, s)
    BY <2>1 DEF Logged, LoggedBut
  <2> QED
    BY <1>1, <2>1, <2>3 DEF AskedFor
<1> QED
  BY <1>1, <1>4 DEF Logged, LoggedBut, u

LEMMA FinishLogged ==
  ASSUME NEW t, NEW e, NEW s, NEW k, NEW ok,
         Logged(t, e, s) \/ (k \in Kinds /\ LoggedBut(t, e, s, k))
  PROVE  Logged(Finish(t, k, ok), e, s)
<1> DEFINE o == t.op[k]
           u == [t EXCEPT !.op[k] = NoOp]
<1>1. Logged(u, e, s)
  <2>1. CASE Logged(t, e, s)
    BY <2>1, EndedLogged
  <2>2. CASE k \in Kinds /\ LoggedBut(t, e, s, k)
    BY <2>2, EndedLogged
  <2> QED
    BY <2>1, <2>2
<1>2. SameLog(u, [u EXCEPT !.live = TRUE])
  BY <1>1 DEF Logged, OpShape, SameLog, Fields
<1>3. Finish(t, k, ok) \in {u, Failed(u, o.topics), [u EXCEPT !.live = TRUE],
                            [startLive(u) EXCEPT !.boot[o.owner] = "idle"]}
  BY DEF Finish
<1> HIDE DEF u, o
<1>4. Logged(Failed(u, o.topics), e, s)
  BY <1>1, FailedLogged
<1>5. Logged([u EXCEPT !.live = TRUE], e, s)
  BY <1>1, <1>2, SameLogged
<1>6. Logged([startLive(u) EXCEPT !.boot[o.owner] = "idle"], e, s)
  BY <1>1, StartLogged, BootLogged
<1> QED
  BY <1>1, <1>3, <1>4, <1>5, <1>6

LEMMA ThrowLogged ==
  ASSUME NEW t, NEW e, NEW s, NEW k, Logged(t, e, s)
  PROVE  Logged(Throw(t, k), e, s)
<1> DEFINE u == [t EXCEPT !.op[k] = NoOp]
<1>1. Logged(u, e, s)
  BY EndedLogged
<1>2. Throw(t, k) \in {u, loginPage(u, "event", "again"), [u EXCEPT !.boot["form"] = "idle"]}
  BY DEF Throw
<1> HIDE DEF u
<1> QED
  BY <1>1, <1>2, LoginPageLogged, BootLogged

LEMMA GoOnLogged ==
  ASSUME NEW t, NEW e, NEW s, NEW k \in Kinds, NEW i,
         \A j \in Kinds \ {k} : t.op[j].pc = "idle", LoggedBut(t, e, s, k)
  PROVE  Logged(GoOn(t, k, i), e, s)
<1>1. ASSUME NEW pc
      PROVE  Logged([t EXCEPT !.op[k].pc = pc, !.op[k].ans = NoAnswer], e, s)
  <2> DEFINE u == [t EXCEPT !.op[k].pc = pc, !.op[k].ans = NoAnswer]
  <2>1. OpShape(u) /\ u.logs = t.logs /\ u.cursor = t.cursor
    BY DEF LoggedBut, OpShape, Fields, Kinds, NoOp
  <2>2. \A j \in Kinds : j # k => u.op[j] = t.op[j]
    BY DEF LoggedBut, OpShape, Fields
  <2>3. ~Awaited(u.op[k])
    BY DEF LoggedBut, OpShape, Fields, NoOp, NoAnswer, Awaited
  <2> HIDE DEF u
  <2>4. ASSUME NEW j \in Kinds, Awaited(u.op[j])
        PROVE  AskedFor(u, u.op[j].ans, e, s)
    <3>1. j # k /\ u.op[j] = t.op[j] /\ Awaited(t.op[j])
      BY <2>2, <2>3, <2>4
    <3>2. AskedFor(t, t.op[j].ans, e, s)
      BY <3>1 DEF LoggedBut
    <3> QED
      BY <2>1, <3>1, <3>2 DEF AskedFor
  <2> QED
    BY <2>1, <2>4 DEF Logged, LoggedBut, u
<1>2. CASE Todo(t, k, i) = {}
  BY <1>2, FinishLogged DEF GoOn
<1>3. CASE Todo(t, k, i) # {}
  BY <1>1, <1>3 DEF GoOn
<1> QED
  BY <1>2, <1>3

LEMMA RefreshLogged ==
  ASSUME NEW t, NEW e, NEW s, NEW k \in Kinds, NEW topics, NEW owner, ~Refreshing(t),
         Logged(t, e, s)
  PROVE  Logged(refresh(t, k, topics, owner), e, s)
<1> DEFINE u == [t EXCEPT !.op[k] = [NoOp EXCEPT !.topics = topics, !.fresh = TRUE,
                                                !.owner = owner]]
           v == GoOn(u, k, 1)
<1>1. /\ u.logs = t.logs /\ u.cursor = t.cursor
      /\ \A j \in Kinds : j # k => u.op[j] = t.op[j] /\ u.op[j].pc = "idle"
  BY DEF Logged, OpShape, Fields, Refreshing
<1>2. OpShape(u)
  BY DEF Logged, OpShape, Fields, Kinds, NoOp, Refreshing
<1>3. refresh(t, k, topics, owner) = v
  BY DEF refresh
<1> HIDE DEF u
<1>4. LoggedBut(u, e, s, k)
  <2> SUFFICES ASSUME NEW j \in Kinds \ {k}, Awaited(u.op[j])
               PROVE  AskedFor(u, u.op[j].ans, e, s)
    BY <1>1, <1>2 DEF Logged, LoggedBut
  <2> QED
    BY <1>1 DEF Awaited
<1>5. Logged(v, e, s)
  BY <1>1, <1>4, GoOnLogged
<1> QED
  BY <1>3, <1>5

LEMMA ShownLogged ==
  ASSUME NEW t, NEW e \in Nat, NEW s \in Nat, NEW k \in Kinds, Awaited(t.op[k]),
         Logged(t, e, s)
  PROVE  LoggedBut(Shown(t, "logs", t.op[k].ans), e, s, k)
<1> DEFINE a == t.op[k].ans
           u == Shown(t, "logs", a)
<1>1. u.op = t.op /\ u.cursor = a.n /\ u.logs = t.logs \o a.records /\ DOMAIN u = Fields
  BY DEF Logged, OpShape, Fields, Shown
<1>2. PICK f \in 1..e : /\ a.records = Run(f, t.cursor, a.n)
                        /\ f = e => a.n <= s
                        /\ Upto(t.logs, f, t.cursor) /\ Upto(t.logs, f, a.n)
  BY DEF Logged, AskedFor
<1>3. a.n \in Nat
  BY DEF Logged, AskedFor
<1>4. t.logs \in Seq(Nat \X Nat) /\ t.cursor \in Nat /\ Once(t.logs)
  BY DEF Logged, LogOk
<1>5. OpShape(u)
  BY <1>1 DEF Logged, OpShape
<1>6. \A j \in Kinds \ {k} : u.op[j].pc = "idle"
  BY <1>1 DEF Logged, OpShape, Awaited, Kinds
<1> HIDE DEF a, u
<1>7. LogOk(u.logs, u.cursor, e, s)
  BY <1>1, <1>2, <1>3, <1>4, ReadLog
<1>8. LoggedBut(u, e, s, k)
  BY <1>5, <1>6, <1>7 DEF LoggedBut, Awaited
<1> QED
  BY <1>8 DEF u, a

LEMMA ArrivedLogged ==
  ASSUME NEW t, NEW e \in Nat, NEW s \in Nat, NEW k \in Kinds,
         t.op[k].pc \in {"overview", "catalog", "logs"}, Logged(t, e, s)
  PROVE  Logged(Arrived(t, k), e, s)
<1> DEFINE o == t.op[k]
           i == CHOOSE j \in 1..3 : Order[j] = o.pc
           u == bootstrap(t, "failure")
           v == Shown(t, o.pc, o.ans)
<1>0. \A j \in Kinds \ {k} : t.op[j].pc = "idle"
  BY DEF Logged, OpShape, Kinds
<1>1. Logged([u EXCEPT !.op[k].pc = "failing"], e, s)
  <2> DEFINE w == [u EXCEPT !.op[k].pc = "failing"]
  <2>1. /\ Logged(u, e, s) /\ \A j \in Kinds : ~Awaited(u.op[j])
        /\ \A j \in Kinds \ {k} : u.op[j].pc = "idle"
    BY <1>0, BootstrapLogged
  <2> HIDE DEF u
  <2>2. OpShape(w) /\ w.logs = u.logs /\ w.cursor = u.cursor
    BY <2>1 DEF Logged, OpShape, Fields, Kinds, NoOp
  <2>3. \A j \in Kinds : ~Awaited(w.op[j])
    BY <2>1 DEF Logged, OpShape, Fields, Awaited, NoOp
  <2> QED
    BY <2>1, <2>2, <2>3 DEF Logged
<1>2. Logged(Finish(t, k, FALSE), e, s)
  BY FinishLogged
<1>3. ASSUME o.ans.is = "ok", o.fresh
      PROVE  Logged(GoOn(v, k, i + 1), e, s)
  <2>1. v.op = t.op
    BY DEF Shown, Logged, OpShape, Fields
  <2>2. LoggedBut(v, e, s, k)
    <3>1. CASE o.pc = "logs"
      BY <1>3, <3>1, ShownLogged DEF Awaited
    <3>2. CASE o.pc = "overview" \/ o.pc = "catalog"
      <4>1. SameLog(t, v)
        BY <3>2 DEF Shown, Logged, OpShape, Fields, SameLog
      <4>2. LoggedBut(t, e, s, k)
        BY DEF Logged, LoggedBut
      <4> QED
        BY <4>1, <4>2, SameLogged
    <3> QED
      BY <3>1, <3>2
  <2> HIDE DEF v, i
  <2> QED
    BY <1>0, <2>1, <2>2, GoOnLogged
<1>4. \/ Arrived(t, k) \in {[u EXCEPT !.op[k].pc = "failing"], Finish(t, k, FALSE)}
      \/ (o.ans.is = "ok" /\ o.fresh /\ Arrived(t, k) = GoOn(v, k, i + 1))
  BY DEF Arrived
<1> HIDE DEF u, v, i, o
<1> QED
  BY <1>1, <1>2, <1>3, <1>4

LEMMA EndBootLogged ==
  ASSUME NEW t, NEW e, NEW s, NEW b, Logged(t, e, s)
  PROVE  Logged(EndBoot(t, b), e, s)
<1> DEFINE u == [t EXCEPT !.boot[b] = "idle"]
           k == CHOOSE k \in Kinds : t.op[k].pc = "failing"
<1>1. Logged(u, e, s)
  BY BootLogged
<1>2. EndBoot(t, b) \in {u, Finish(u, k, FALSE)}
  BY DEF EndBoot
<1> HIDE DEF u, k
<1> QED
  BY <1>1, <1>2, FinishLogged

LEMMA ThrowBootLogged ==
  ASSUME NEW t, NEW e, NEW s, NEW b, Logged(t, e, s)
  PROVE  Logged(ThrowBoot(t, b), e, s)
<1> DEFINE u == [t EXCEPT !.boot[b] = "idle"]
           k == CHOOSE k \in Kinds : t.op[k].pc = "failing"
<1>1. Logged(u, e, s)
  BY BootLogged
<1>2. \/ ThrowBoot(t, b) = u
      \/ ThrowBoot(t, b) = Throw(u, k)
      \/ ThrowBoot(t, b) = loginPage(u, b, "again")
  BY DEF ThrowBoot
<1> HIDE DEF u, k
<1> QED
  BY <1>1, <1>2, ThrowLogged, LoginPageLogged

LEMMA BootArrivedLogged ==
  ASSUME NEW t, NEW e, NEW s, NEW b, NEW a, Logged(t, e, s)
  PROVE  Logged(BootArrived(t, b, a), e, s)
<1> DEFINE l == [t EXCEPT !.page = "login"]
           in == [t EXCEPT !.me = a.n, !.page = "shell"]
           u == startLive(in)
           v == [in EXCEPT !.boot[b] = "refresh"]
<1>1. SameLog(t, l) /\ SameLog(t, in)
  BY DEF Logged, OpShape, Fields, SameLog
<1>2. SameLog(in, v)
  BY <1>1 DEF Logged, OpShape, Fields, SameLog
<1>3. \/ BootArrived(t, b, a) \in {ThrowBoot(t, b), loginPage(t, b, "options"),
                                   EndBoot(l, b), EndBoot(u, b)}
      \/ ~Refreshing(t) /\ BootArrived(t, b, a) = refresh(v, "user", Topics, b)
  <2>1. CASE a.is = "error"
    BY <2>1 DEF BootArrived
  <2>2. CASE a.is = "login"
    BY <2>2 DEF BootArrived
  <2>3. CASE a.is \notin {"error", "login"}
    BY <2>3 DEF BootArrived
  <2> QED
    BY <2>1, <2>2, <2>3
<1> HIDE DEF l, in, u, v
<1>4. Logged(l, e, s) /\ Logged(in, e, s) /\ Logged(v, e, s)
  BY <1>1, <1>2, SameLogged
<1>5. Logged(u, e, s)
  BY <1>4, StartLogged DEF u
<1>6. ~Refreshing(t) => ~Refreshing(v)
  BY <1>1, <1>2 DEF SameLog, Refreshing
<1> QED
  BY <1>3, <1>4, <1>5, <1>6, ThrowBootLogged, LoginPageLogged, EndBootLogged, RefreshLogged
     DEF Kinds

LEMMA TimerLogged ==
  ASSUME NEW t, NEW e, NEW s, Logged(t, e, s)
  PROVE  Logged(TimerCallback(t), e, s)
<1> DEFINE u == [t EXCEPT !.timer = FALSE]
           x == Emptied(u)
           v == IF t.reset THEN x ELSE u
           w == [v EXCEPT !.pend = {}]
<1>1. SameLog(t, u)
  BY DEF Logged, OpShape, Fields, SameLog
<1>2. \/ TimerCallback(t) \in {t, u}
      \/ ~Refreshing(t) /\ TimerCallback(t) = refresh(w, "live", t.pend, "timer")
  BY DEF TimerCallback
<1>3. DOMAIN x = Fields /\ x.op = t.op /\ x.logs = <<>> /\ x.cursor = 0
  BY DEF Logged, OpShape, Fields, Emptied
<1>4. DOMAIN u = Fields
  BY DEF Logged, OpShape, Fields
<1> HIDE DEF u, x
<1>5. Logged(u, e, s)
  BY <1>1, SameLogged
<1>6. ~Refreshing(t) => Logged(x, e, s)
  BY <1>3, LogEmpty DEF Logged, OpShape, Refreshing, Awaited
<1>7. ~Refreshing(t) => Logged(v, e, s) /\ v.op = t.op /\ DOMAIN v = Fields
  BY <1>1, <1>3, <1>4, <1>5, <1>6 DEF SameLog
<1> HIDE DEF v
<1>8. DOMAIN v = Fields => SameLog(v, w)
  BY DEF SameLog, Fields
<1> HIDE DEF w
<1>9. ~Refreshing(t) => Logged(w, e, s) /\ ~Refreshing(w)
  BY <1>7, <1>8, SameLogged DEF SameLog, Refreshing
<1> QED
  BY <1>2, <1>5, <1>9, RefreshLogged DEF Kinds

LEMMA IntervalLogged ==
  ASSUME NEW t, NEW e, NEW s, Logged(t, e, s)
  PROVE  Logged(IntervalCallback(t), e, s)
<1> DEFINE u == IF Silent(t) THEN startLive(stopLive(t)) ELSE t
<1>1. Logged(u, e, s)
  BY StopLogged, StartLogged
<1>2. IntervalCallback(t) \in {t, u, queueLive(u, Topics, FALSE)}
  BY DEF IntervalCallback
<1> HIDE DEF u
<1> QED
  BY <1>1, <1>2, QueueLogged

\* The inductive invariant of the log.
LogInv == epoch \in Nat /\ epoch # 0 /\ seq \in Nat /\ Logged(tab, epoch, seq)

LEMMA ManagerLogged ==
  ASSUME LogInv,
         \/ Change("overview") \/ Change("catalog") \/ Record \/ Revoke \/ Restart
         \/ Tick
  PROVE  LogInv'
<1>1. CASE Change("overview") \/ Change("catalog") \/ Revoke
  BY <1>1 DEF Change, Revoke, LogInv
<1>2. CASE Record
  <2>1. tab' = tab /\ epoch' = epoch /\ seq' = seq + 1
    BY <1>2 DEF Record
  <2>2. Logged(tab, epoch, seq + 1)
    BY DEF LogInv, Logged, LogOk, Upto, AskedFor
  <2> QED
    BY <2>1, <2>2 DEF LogInv
<1>3. CASE Restart
  <2>1. epoch' = epoch + 1 /\ seq' = 0
    BY <1>3 DEF Restart
  <2>2. SameLog(tab, tab')
    BY <1>3 DEF Restart, LogInv, Logged, OpShape, Fields, SameLog
  <2>3. Logged(tab, epoch + 1, 0)
    <3>1. ASSUME NEW c
          PROVE  Upto(tab.logs, epoch + 1, c)
      <4>1. \A i \in 1..Len(tab.logs) : tab.logs[i][1] \in Nat
        BY DEF LogInv, Logged, LogOk
      <4>2. \A i \in 1..Len(tab.logs) : tab.logs[i][1] < epoch \/ tab.logs[i][1] = epoch
        BY DEF LogInv, Logged, LogOk, Upto
      <4>3. epoch \in Nat
        BY DEF LogInv
      <4> QED
        BY <4>1, <4>2, <4>3 DEF Upto
    <3>2. LogOk(tab.logs, tab.cursor, epoch + 1, 0)
      BY <3>1 DEF LogInv, Logged, LogOk
    <3>3. ASSUME NEW a, AskedFor(tab, a, epoch, seq)
          PROVE  AskedFor(tab, a, epoch + 1, 0)
      <4>1. PICK f \in 1..epoch : /\ a.records = Run(f, tab.cursor, a.n)
                                  /\ Upto(tab.logs, f, tab.cursor) /\ Upto(tab.logs, f, a.n)
        BY <3>3 DEF AskedFor
      <4>2. f \in 1..(epoch + 1) /\ f # epoch + 1
        BY DEF LogInv
      <4> QED
        BY <3>3, <4>1, <4>2 DEF AskedFor
    <3> QED
      BY <3>2, <3>3 DEF LogInv, Logged
  <2> QED
    BY <2>1, <2>2, <2>3, SameLogged DEF LogInv
<1>4. CASE Tick
  <2>1. SameLog(tab, tab') /\ UNCHANGED <<epoch, seq>>
    BY <1>4 DEF Tick, LogInv, Logged, OpShape, Fields, SameLog
  <2> QED
    BY <2>1, SameLogged DEF LogInv
<1> QED
  BY <1>1, <1>2, <1>3, <1>4

LEMMA ServeLogged ==
  ASSUME LogInv, Served
  PROVE  LogInv'
<1>1. ASSUME NEW k \in Kinds, ServeOp(k)
      PROVE  LogInv'
  <2>1. PICK a \in api(tab.op[k].pc) : /\ Replies(tab.op[k].pc, a)
                                       /\ tab' = [tab EXCEPT !.op[k].ans = a]
    BY <1>1 DEF ServeOp
  <2>2. /\ OpShape(tab') /\ tab'.logs = tab.logs /\ tab'.cursor = tab.cursor
        /\ tab'.op[k].ans = a /\ tab'.op[k].pc = tab.op[k].pc
        /\ \A j \in Kinds : j # k => tab'.op[j] = tab.op[j]
    BY <2>1 DEF LogInv, Logged, OpShape, Fields, Kinds, NoOp
  <2>3. ASSUME tab.op[k].pc = "logs", a.is = "ok"
        PROVE  AskedFor(tab, a, epoch, seq)
    <3>1. a.n = seq /\ a.records = records(tab.cursor)
      BY <2>1, <2>3 DEF api, Answer, Failure, NoAnswer
    <3>2. a.records = Run(epoch, tab.cursor, a.n)
      BY <3>1 DEF records, Run
    <3> QED
      BY <3>1, <3>2 DEF LogInv, Logged, LogOk, AskedFor
  <2>4. ASSUME NEW j \in Kinds, Awaited(tab'.op[j])
        PROVE  AskedFor(tab', tab'.op[j].ans, epoch, seq)
    <3>1. CASE j = k
      <4>1. AskedFor(tab, a, epoch, seq)
        BY <2>2, <2>3, <2>4, <3>1 DEF Awaited
      <4> QED
        BY <2>2, <3>1, <4>1 DEF AskedFor
    <3>2. CASE j # k
      <4>1. tab'.op[j] = tab.op[j]
        BY <2>2, <3>2
      <4>2. AskedFor(tab, tab.op[j].ans, epoch, seq)
        BY <2>4, <4>1 DEF LogInv, Logged
      <4> QED
        BY <2>2, <4>1, <4>2 DEF AskedFor
    <3> QED
      BY <3>1, <3>2
  <2>5. epoch' = epoch /\ seq' = seq
    BY <2>1 DEF Replies, ServerIdle
  <2> QED
    BY <2>2, <2>4, <2>5 DEF LogInv, Logged
<1>2. ASSUME ServeNav
      PROVE  LogInv'
  <2>1. SameLog(tab, tab') /\ epoch' = epoch /\ seq' = seq
    BY <1>2 DEF ServeNav, Replies, ServerIdle, LogInv, Logged, OpShape, Fields, SameLog
  <2> QED
    BY <2>1, SameLogged DEF LogInv
<1> QED
  BY <1>1, <1>2 DEF Served

LEMMA AnswerLogged ==
  ASSUME LoginInv, LogInv, Answered
  PROVE  LogInv'
<1>1. ASSUME NEW k \in Kinds, OpAnswer(k)
      PROVE  LogInv'
  <2>1. tab.op[k].pc \in {"overview", "catalog", "logs"}
    BY <1>1 DEF LoginInv, Good, OpAnswer, Pending, Pcs
  <2> QED
    BY <1>1, <2>1, ArrivedLogged DEF OpAnswer, Runs, ServerIdle, LogInv
<1>2. ASSUME NEW b \in Boots, BootAnswer(b)
      PROVE  LogInv'
  BY <1>2, BootArrivedLogged DEF BootAnswer, Replies, ServerIdle, LogInv
<1>3. ASSUME NavAnswer
      PROVE  LogInv'
  <2>1. SameLog(tab, tab')
    <3> DEFINE u == [tab EXCEPT !.nav = Idle]
               v == Shown(u, "catalog", tab.nav.ans)
    <3>1. SameLog(tab, u) /\ SameLog(tab, v) /\ DOMAIN u = Fields /\ DOMAIN v = Fields
      BY DEF LogInv, Logged, OpShape, Fields, SameLog, Shown
    <3>2. \E x : tab' \in {[v EXCEPT !.navStale = x], [u EXCEPT !.navStale = x]}
      BY <1>3 DEF NavAnswer, Runs
    <3> HIDE DEF u, v
    <3> QED
      BY <3>1, <3>2 DEF SameLog, Fields
  <2>2. epoch' = epoch /\ seq' = seq
    BY <1>3 DEF NavAnswer, Runs, ServerIdle
  <2> QED
    BY <2>1, <2>2, SameLogged DEF LogInv
<1> QED
  BY <1>1, <1>2, <1>3 DEF Answered

LEMMA StreamLogged ==
  ASSUME LogInv, Stream \/ ConnectFails \/ Breaks \/ Hide \/ Show
  PROVE  LogInv'
<1>0. DOMAIN tab = Fields /\ Logged(tab, epoch, seq)
  BY DEF LogInv, Logged, OpShape
<1>a. epoch' = epoch /\ seq' = seq
  BY DEF Stream, Opens, Refused, Ends, Ages, Deliver, ConnectFails, Breaks, Hide, Show, Runs,
         ServerIdle
<1>b. ASSUME NEW t, Logged(t, epoch, seq)
      PROVE  Logged(OnError(t), epoch, seq)
  <2> DEFINE u == [t EXCEPT !.live = FALSE, !.seen = FALSE]
  <2>1. SameLog(t, u)
    BY <1>b DEF Logged, OpShape, Fields, SameLog
  <2> HIDE DEF u
  <2> QED
    BY <1>b, <2>1, SameLogged, QueueLogged DEF OnError, u
<1>1. CASE Opens
  <2>1. SameLog(tab, tab')
    BY <1>0, <1>1 DEF Opens, Sync, SameLog, Fields
  <2> QED
    BY <1>0, <1>a, <2>1, SameLogged DEF LogInv
<1>2. CASE Refused \/ ConnectFails \/ Ends
  <2>1. PICK t : tab' = OnError(t) /\ SameLog(tab, t)
    <3>1. CASE ConnectFails
      BY <3>1 DEF ConnectFails, SameLog
    <3>2. CASE Refused
      <4> DEFINE u == [tab EXCEPT !.es = "closed"]
      <4>1. SameLog(tab, u)
        BY <1>0 DEF SameLog, Fields
      <4> QED
        BY <3>2, <4>1 DEF Refused
    <3>3. CASE Ends
      <4> DEFINE u == [tab EXCEPT !.es = "connecting", !.link = "none"]
      <4>1. SameLog(tab, u)
        BY <1>0 DEF SameLog, Fields
      <4> QED
        BY <3>3, <4>1 DEF Ends, Runs
    <3> QED
      BY <1>2, <3>1, <3>2, <3>3
  <2> QED
    BY <1>0, <1>a, <1>b, <2>1, SameLogged DEF LogInv
<1>3. CASE Ages \/ Breaks
  <2>1. SameLog(tab, tab')
    BY <1>0, <1>3 DEF Ages, Breaks, Runs, SameLog, Fields
  <2> QED
    BY <1>0, <1>a, <2>1, SameLogged DEF LogInv
<1>4. CASE Deliver
  <2> DEFINE e == Head(tab.pipe)
             u == [tab EXCEPT !.pipe = Tail(@)]
             v == [u EXCEPT !.seen = TRUE]
  <2>1. SameLog(tab, u) /\ SameLog(tab, v)
    BY <1>0 DEF SameLog, Fields
  <2>2. \/ Runs(bootstrap(stopLive(u), "event"))
        \/ Runs(queueLive(v, e.topics, e.reset))
    BY <1>4 DEF Deliver
  <2>3. \/ tab' = bootstrap(stopLive(u), "event")
        \/ tab' = queueLive(v, e.topics, e.reset)
    BY <2>2 DEF Runs
  <2> HIDE DEF u, v, e
  <2>4. Logged(bootstrap(stopLive(u), "event"), epoch, seq)
    BY <1>0, <2>1, SameLogged, StopLogged, BootstrapLogged
  <2>5. Logged(queueLive(v, e.topics, e.reset), epoch, seq)
    BY <1>0, <2>1, SameLogged, QueueLogged
  <2> QED
    BY <1>a, <2>3, <2>4, <2>5 DEF LogInv
<1>5. CASE Hide
  <2> DEFINE u == stopLive(tab)
             v == [u EXCEPT !.hidden = TRUE, !.live = FALSE]
  <2>1. Logged(u, epoch, seq) /\ DOMAIN u = Fields
    BY <1>0, StopLogged DEF stopLive
  <2>2. tab' = v
    BY <1>5 DEF Hide
  <2> HIDE DEF u
  <2>3. SameLog(u, v)
    BY <2>1 DEF SameLog, Fields
  <2> HIDE DEF v
  <2> QED
    BY <1>a, <2>1, <2>2, <2>3, SameLogged DEF LogInv
<1>6. CASE Show
  <2> DEFINE u == [tab EXCEPT !.hidden = FALSE]
  <2>1. SameLog(tab, u)
    BY <1>0 DEF SameLog, Fields
  <2>2. tab' = startLive(u)
    BY <1>6 DEF Show, Runs
  <2> HIDE DEF u
  <2> QED
    BY <1>0, <1>a, <2>1, <2>2, SameLogged, StartLogged DEF LogInv
<1> QED
  BY <1>1, <1>2, <1>3, <1>4, <1>5, <1>6 DEF Stream

LEMMA UserLogged ==
  ASSUME LogInv, TimerFires \/ Interval \/ Login \/ Logout \/ Refresh \/ Navigate
  PROVE  LogInv'
<1>1. CASE TimerFires
  BY <1>1, TimerLogged DEF TimerFires, Runs, ServerIdle, LogInv
<1>2. CASE Interval
  BY <1>2, IntervalLogged DEF Interval, Runs, ServerIdle, LogInv
<1>3. CASE Login
  BY <1>3, BootstrapLogged DEF Login, LogInv
<1>4. CASE Logout
  BY <1>4, LoginPageLogged DEF Logout, LogInv
<1>5. CASE Refresh
  BY <1>5, RefreshLogged DEF Refresh, Runs, ServerIdle, LogInv, Kinds
<1>6. CASE Navigate
  <2>1. SameLog(tab, tab')
    BY <1>6 DEF Navigate, Runs, LogInv, Logged, OpShape, Fields, SameLog
  <2> QED
    BY <1>6, <2>1, SameLogged DEF Navigate, Runs, ServerIdle, LogInv
<1> QED
  BY <1>1, <1>2, <1>3, <1>4, <1>5, <1>6

LEMMA LogInit ==
  ASSUME Init
  PROVE  LogInv
<1>1. OpShape(tab) /\ \A k \in Kinds : ~Awaited(tab.op[k])
  BY DEF Init, OpShape, Fields, Kinds, NoOp, NoAnswer, Awaited
<1>2. tab.logs = <<>> /\ tab.cursor = 0 /\ epoch = 1 /\ seq = 0
  BY DEF Init
<1> QED
  BY <1>1, <1>2, LogEmpty DEF LogInv, Logged

LEMMA LogStep ==
  ASSUME LoginInv, LogInv, [Next]_vars
  PROVE  LogInv'
<1>1. CASE UNCHANGED vars
  BY <1>1 DEF vars, LogInv, Logged
<1> QED
  BY <1>1, ManagerLogged, ServeLogged, AnswerLogged, StreamLogged, UserLogged DEF Next

\* The log of a tab shows a record at most once, in the order of the manager, and none
\* that does not exist, whatever was lost, repeated or overtaken, and also when a new
\* manager counts from zero while the old cursor is in use (refreshLogs, liveReset).
LogsOnce == Once(tab.logs) /\ Upto(tab.logs, epoch, seq)
THEOREM LogOnce == Spec => []LogsOnce
<1>1. LogInv => LogsOnce
  BY DEF LogInv, Logged, LogOk, LogsOnce
<1> QED
  BY <1>1, LogInit, LogStep, LoginHolds, PTL DEF Spec
=============================================================================
