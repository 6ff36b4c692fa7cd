------------------------------ MODULE LiveView ------------------------------
(***************************************************************************)
(* The console in one tab of a browser (web/app.js: login, refresh, live   *)
(* updates) and the event stream of the manager (web/server.ts: events,    *)
(* checkStreams, serveOverview, serveLogs).                                *)
(*                                                                         *)
(* The tab runs one callback at a time, so its state is one record and a   *)
(* callback an operator on it.  What awaits an answer is a chain: a        *)
(* refresh started by the timer ("live") or by the user ("user"), a        *)
(* bootstrap() started by an auth event, by a refresh that was told        *)
(* LOGIN_REQUIRED ("failure") or by the login form, a navigation.  The     *)
(* manager answers in one step, the answer arrives in another; answers of  *)
(* different chains may overtake each other.  The account is an            *)
(* administrator's; what is rendered, paused logs, dialogs and the bounds  *)
(* on records are left out.  A page has one navigation and one bootstrap() *)
(* of each kind at a time.                                                 *)
(***************************************************************************)
EXTENDS Naturals, Sequences, FiniteSets

CONSTANTS
  MaxEvents,  \* bound on what happens to the tab from outside: changes, records,
              \* revocations, restarts, faults of the network, hiding
  MaxLogins, MaxPipe

ASSUME ConstantsAssumption == MaxEvents \in Nat /\ MaxLogins \in Nat /\ MaxPipe \in Nat

VARIABLES
  data,        \* of the manager: how often each topic's projection has changed
  epoch, seq,  \* its incarnation, the number of log records in it
  sess,        \* the login the browser's cookie stands for, or 0
  tab, logins, events
vars == <<data, epoch, seq, sess, tab, logins, events>>

Topics == {"overview", "logs", "catalog"}
Kinds == {"live", "user"}
Boots == {"event", "failure", "form"}
NoAnswer == [is |-> "none", login |-> 0, n |-> 0, records |-> <<>>]
NoOp == [pc |-> "idle", topics |-> {}, fresh |-> FALSE, owner |-> "none", ans |-> NoAnswer]
Idle == [pc |-> "idle", fresh |-> FALSE, ans |-> NoAnswer]

NoPrint == [overview |-> 0, catalog |-> 0, logs |-> 0]

Init ==
  /\ data = [t \in {"overview", "catalog"} |-> 1]
  /\ epoch = 1 /\ seq = 0 /\ sess = 0
  /\ logins = 0 /\ events = 0
  /\ tab = [me |-> 0, page |-> "login", hidden |-> FALSE, view |-> "sessions",
            live |-> FALSE, es |-> "none", seen |-> FALSE,
            link |-> "none", pipe |-> <<>>, print |-> NoPrint,  \* the stream, client.fingerprint
            pend |-> {}, timer |-> FALSE, reset |-> FALSE,
            overview |-> 0, catalog |-> 0, catalogOf |-> 0,
            logs |-> <<>>, logsOf |-> 0, cursor |-> 0,
            op |-> [k \in Kinds |-> NoOp], boot |-> [b \in Boots |-> "idle"],
            nav |-> Idle, navStale |-> FALSE]
-----------------------------------------------------------------------------
(* The manager.                                                              *)

Event == events < MaxEvents /\ events' = events + 1

Change(topic) ==
  /\ Event /\ data' = [data EXCEPT ![topic] = @ + 1]
  /\ UNCHANGED <<epoch, seq, sess, tab, logins>>
Record ==
  /\ Event /\ seq' = seq + 1
  /\ UNCHANGED <<data, epoch, sess, tab, logins>>
\* Expiry, logout elsewhere, a changed account.
Revoke ==
  /\ Event /\ sess # 0 /\ sess' = 0
  /\ UNCHANGED <<data, epoch, seq, tab, logins>>
\* Browser sessions and records are in memory.
Restart ==
  /\ Event /\ epoch' = epoch + 1 /\ seq' = 0 /\ sess' = 0
  /\ tab' = IF tab.link = "up" THEN [tab EXCEPT !.link = "ended", !.print = NoPrint]
             ELSE tab
  /\ UNCHANGED <<data, logins>>

fingerprint == [overview |-> data["overview"], catalog |-> data["catalog"], logs |-> seq]
\* events(): the stream begins with a sync of everything.
Sync(t) == [t EXCEPT !.link = "up", !.print = fingerprint,
                     !.pipe = <<[event |-> "sync", topics |-> Topics, reset |-> TRUE]>>]
\* checkStreams(), every second.
SessionEnded_Ignored == FALSE
SessionEnded == sess = 0
Tick ==
  LET topics == {t \in Topics : fingerprint[t] # tab.print[t]}
  IN /\ tab.link = "up" /\ Len(tab.pipe) < MaxPipe
     /\ \/ /\ SessionEnded
           /\ tab' = [tab EXCEPT !.link = "ended", !.print = NoPrint,
                        !.pipe = Append(@, [event |-> "auth", topics |-> {}, reset |-> FALSE])]
        \/ /\ ~SessionEnded /\ topics # {}
           /\ tab' = [tab EXCEPT !.print = fingerprint, !.pipe =
                        Append(@, [event |-> "change", topics |-> topics, reset |-> FALSE])]
     /\ UNCHANGED <<data, epoch, seq, sess, logins, events>>

\* The answer to a request of the tab.
records(after) == [i \in 1..(IF seq > after THEN seq - after ELSE 0) |-> <<epoch, after + i>>]
Answer(what) ==
  IF sess = 0 /\ what # "options" THEN [NoAnswer EXCEPT !.is = "login"]
  ELSE [is |-> "ok", login |-> sess,
        n |-> CASE what \in {"overview", "catalog"} -> data[what]
                [] what = "logs" -> seq
                [] what = "me" -> sess
                [] OTHER -> 0,
        records |-> IF what = "logs" THEN records(tab.cursor) ELSE <<>>]
-----------------------------------------------------------------------------
(* Callbacks of the tab, as operators on its state t.                        *)

Refreshing(t) == \E k \in Kinds : t.op[k].pc # "idle"

queueLive(t, topics, reset) ==
  [t EXCEPT !.pend = @ \cup topics, !.reset = @ \/ reset, !.timer = TRUE]
stopLive(t) ==
  [t EXCEPT !.es = "none", !.link = "none", !.pipe = <<>>, !.print = NoPrint,
            !.seen = FALSE,
            !.timer = FALSE, !.pend = {}, !.reset = FALSE]
startLive(t) ==
  IF t.me = 0 \/ t.hidden \/ t.es # "none" THEN t
  ELSE [t EXCEPT !.live = FALSE, !.es = "connecting"]

\* authGeneration++: whatever is under way must not show its result any more.
NextGeneration_Kept(t) == t
NextGeneration(t) ==
  [t EXCEPT !.op = [k \in Kinds |-> [@[k] EXCEPT !.fresh = FALSE]], !.nav.fresh = FALSE]
loginPage(t, b, pc) ==
  [NextGeneration(stopLive(t)) EXCEPT
     !.me = 0, !.catalog = 0, !.catalogOf = 0, !.logs = <<>>, !.logsOf = 0, !.cursor = 0,
     !.boot[b] = pc]
bootstrap(t, b) ==
  [NextGeneration(stopLive(t)) EXCEPT !.boot[b] = "me"]

\* refresh() returns.  The callback of the timer puts its topics back when it fails;
\* bootstrap() goes on to startLive().
Failed_Forgotten(t, topics) == t
Failed(t, topics) == [t EXCEPT !.pend = @ \cup topics, !.live = FALSE]
Finish(t, k, ok) ==
  LET o == t.op[k]
      u == [t EXCEPT !.op[k] = NoOp]
  IN CASE k = "live" /\ u.me # 0 /\ ~ok -> Failed(u, o.topics)
       [] k = "live" /\ u.me # 0 /\ ok /\ u.es = "open" /\ u.seen ->
            [u EXCEPT !.live = TRUE]
       [] k = "user" /\ o.owner # "click" ->
            [startLive(u) EXCEPT !.boot[o.owner] = "idle"]
       [] OTHER -> u
\* refresh() throws: the timer's callback ends, so does the bootstrap() that awaits it.
Throw(t, k) ==
  LET o == t.op[k]
      u == [t EXCEPT !.op[k] = NoOp]
  IN CASE o.owner = "event" -> loginPage(u, "event", "again")
       [] o.owner = "form" -> [u EXCEPT !.boot["form"] = "idle"]
       [] OTHER -> u

\* The next request of a refresh: overview, catalog, logs.
Order == <<"overview", "catalog", "logs">>
Todo(t, k, i) == {j \in i..3 : /\ Order[j] \in t.op[k].topics
                               /\ Order[j] = "catalog" => t.view = "users"}
First(todo) == CHOOSE j \in todo : \A l \in todo : j <= l
GoOn(t, k, i) ==
  IF Todo(t, k, i) = {} THEN Finish(t, k, TRUE)
  ELSE [t EXCEPT !.op[k].pc = Order[First(Todo(t, k, i))], !.op[k].ans = NoAnswer]
refresh(t, k, topics, owner) ==
  GoOn([t EXCEPT !.op[k] = [NoOp EXCEPT !.topics = topics, !.fresh = TRUE,
                                        !.owner = owner]], k, 1)

\* refreshOverview(), loadCatalog(), refreshLogs() with their answer.
Shown(t, what, a) ==
  CASE what = "overview" -> [t EXCEPT !.overview = a.n]
    [] what = "catalog" -> [t EXCEPT !.catalog = a.n, !.catalogOf = a.login,
                                     !.navStale = FALSE]
    [] OTHER -> [t EXCEPT !.cursor = a.n, !.logs = @ \o a.records,
                          !.logsOf = IF a.records = <<>> THEN @ ELSE a.login]
Arrived(t, k) ==
  LET o == t.op[k]
      i == CHOOSE j \in 1..3 : Order[j] = o.pc
  IN CASE o.ans.is = "ok" /\ o.fresh -> GoOn(Shown(t, o.pc, o.ans), k, i + 1)
       [] o.ans.is = "login" /\ o.fresh ->   \* refreshFailure()
            [bootstrap(t, "failure") EXCEPT !.op[k].pc = "failing"]
       [] OTHER -> Finish(t, k, FALSE)

\* bootstrap() and loginPage() with an answer.
EndBoot(t, b) ==
  LET u == [t EXCEPT !.boot[b] = "idle"]
  IN IF b # "failure" THEN u
     ELSE Finish(u, CHOOSE k \in Kinds : t.op[k].pc = "failing", FALSE)
ThrowBoot(t, b) ==
  LET u == [t EXCEPT !.boot[b] = "idle"]
  IN CASE b = "event" /\ t.boot[b] # "again" -> loginPage(u, b, "again")
       [] b = "failure" -> Throw(u, CHOOSE k \in Kinds : t.op[k].pc = "failing")
       [] OTHER -> u
BootArrived(t, b, a) ==
  LET in == [t EXCEPT !.me = a.n, !.page = "shell"]
  IN CASE a.is = "error" -> ThrowBoot(t, b)
       [] a.is = "login" -> loginPage(t, b, "options")
       [] OTHER ->
            IF t.boot[b] # "me" THEN EndBoot([t EXCEPT !.page = "login"], b)
            ELSE IF Refreshing(t) THEN EndBoot(startLive(in), b)
            ELSE refresh([in EXCEPT !.boot[b] = "refresh"], "user", Topics, b)

\* The callback of liveTimer.
Emptied_CursorOnly(t) == [t EXCEPT !.cursor = 0, !.reset = FALSE]
Emptied(t) == [t EXCEPT !.cursor = 0, !.logs = <<>>, !.logsOf = 0, !.reset = FALSE]
TimerCallback(t) ==
  LET u == [t EXCEPT !.timer = FALSE]
      v == IF t.reset THEN Emptied(u) ELSE u
  IN IF t.me = 0 \/ t.hidden THEN u
     ELSE IF Refreshing(t) THEN t
     ELSE refresh([v EXCEPT !.pend = {}], "live", t.pend, "timer")
\* The interval of ten seconds.
Silent(t) == (t.live /\ ~t.seen) \/ t.es = "closed"
IntervalCallback(t) ==
  LET u == IF Silent(t) THEN startLive(stopLive(t)) ELSE t
  IN IF t.me = 0 \/ t.hidden THEN t
     ELSE IF ~u.live THEN queueLive(u, Topics, FALSE) ELSE u
-----------------------------------------------------------------------------
ServerIdle == UNCHANGED <<data, epoch, seq, sess, logins>>
Runs(t) == tab' = t /\ ServerIdle /\ UNCHANGED events

\* The manager answers a request; the network may fail instead.
Pending(what) == what \notin {"idle", "refresh", "failing"}
Failure == [NoAnswer EXCEPT !.is = "error"]
api(what) == {Answer(IF what = "again" THEN "options" ELSE what), Failure}
Replies(what, a) ==
  Pending(what) /\ ServerIdle /\ ((a # Failure /\ UNCHANGED events) \/ (a = Failure /\ Event))
ServeOp(k) ==
  tab.op[k].ans = NoAnswer /\ \E a \in api(tab.op[k].pc) :
    Replies(tab.op[k].pc, a) /\ tab' = [tab EXCEPT !.op[k].ans = a]
ServeNav ==
  tab.nav.ans = NoAnswer /\ \E a \in api(tab.nav.pc) :
    Replies(tab.nav.pc, a) /\ tab' = [tab EXCEPT !.nav.ans = a]

OpAnswer(k) == tab.op[k].ans # NoAnswer /\ Pending(tab.op[k].pc) /\ Runs(Arrived(tab, k))
\* bootstrap() and loginPage() are told of the present login: their answer and what the
\* page does with it are one step.  Left out is an answer to `/me' that is late for a
\* login replaced meanwhile, which the page takes, as it does not compare authGeneration.
BootAnswer(b) ==
  \E a \in api(tab.boot[b]) : Replies(tab.boot[b], a) /\ tab' = BootArrived(tab, b, a)
NavAnswer ==
  LET a == tab.nav.ans
      u == [tab EXCEPT !.nav = Idle]
  IN /\ a # NoAnswer
     /\ Runs(IF a.is = "ok" /\ tab.nav.fresh
               THEN [Shown(u, "catalog", a) EXCEPT !.navStale = a.n < tab.catalog]
               ELSE [u EXCEPT !.navStale = TRUE])

TimerFires == tab.timer /\ Runs(TimerCallback(tab))
Interval == Runs(IntervalCallback(tab))

\* The EventSource: opened, refused for good, failed and to be tried again, ended.
Opens ==
  /\ tab.es = "connecting" /\ sess # 0
  /\ tab' = [Sync(tab) EXCEPT !.es = "open", !.live = TRUE, !.seen = TRUE]
  /\ UNCHANGED <<data, epoch, seq, sess, logins, events>>
OnError(t) == queueLive([t EXCEPT !.live = FALSE, !.seen = FALSE], Topics, FALSE)
Refused ==
  /\ tab.es = "connecting" /\ tab' = OnError([tab EXCEPT !.es = "closed"])
  /\ (sess = 0 /\ UNCHANGED events) \/ Event
  /\ ServerIdle
ConnectFails ==
  /\ tab.es = "connecting" /\ Event /\ tab' = OnError(tab) /\ ServerIdle
Ends ==
  /\ tab.es = "open" /\ tab.link = "ended" /\ tab.pipe = <<>>
  /\ Runs(OnError([tab EXCEPT !.es = "connecting", !.link = "none"]))
\* The connection breaks: noticed, or silent.
Breaks ==
  /\ tab.link = "up" /\ Event /\ ServerIdle
  /\ \E how \in {"ended", "silent"} : tab' = [tab EXCEPT !.link = how, !.pipe = <<>>,
                                                              !.print = NoPrint]
\* No event for 45 seconds.
Ages ==
  /\ tab.es = "open" /\ tab.link = "silent" /\ tab.seen
  /\ Runs([tab EXCEPT !.seen = FALSE])
Deliver ==
  LET e == Head(tab.pipe)
      t == [tab EXCEPT !.pipe = Tail(@)]
  IN /\ tab.es = "open" /\ tab.pipe # <<>>
     /\ IF e.event = "auth"
          THEN tab.boot["event"] = "idle" /\ Runs(bootstrap(stopLive(t), "event"))
          ELSE Runs(queueLive([t EXCEPT !.seen = TRUE], e.topics, e.reset))
-----------------------------------------------------------------------------
(* The user.                                                                 *)

Login ==
  /\ tab.page = "login" /\ tab.boot["form"] = "idle" /\ logins < MaxLogins
  /\ logins' = logins + 1 /\ sess' = logins + 1 /\ tab' = bootstrap(tab, "form")
  /\ (logins = 0 /\ UNCHANGED events) \/ Event  \* a second login is one event more
  /\ UNCHANGED <<data, epoch, seq>>
Logout ==
  /\ tab.me # 0 /\ tab.boot["form"] = "idle"
  /\ sess' = 0 /\ tab' = loginPage(tab, "form", "options")
  /\ UNCHANGED <<data, epoch, seq, logins, events>>
Refresh ==
  /\ tab.me # 0 /\ ~Refreshing(tab) /\ Runs(refresh(tab, "user", Topics, "click"))
Navigate ==
  /\ tab.me # 0 /\ tab.page = "shell" /\ tab.nav.pc = "idle"
  /\ \/ Runs([tab EXCEPT !.view = "sessions"])
     \/ Runs([tab EXCEPT !.view = "users",
                         !.nav = [Idle EXCEPT !.pc = "catalog", !.fresh = TRUE]])
Hide ==
  /\ ~tab.hidden /\ Event
  /\ tab' = [stopLive(tab) EXCEPT !.hidden = TRUE, !.live = FALSE]
  /\ ServerIdle
Show == tab.hidden /\ Runs(startLive([tab EXCEPT !.hidden = FALSE]))

Served == ServeNav \/ \E k \in Kinds : ServeOp(k)
Answered == \/ \E k \in Kinds : OpAnswer(k)
            \/ \E b \in Boots : BootAnswer(b)
            \/ NavAnswer
Stream == Opens \/ Refused \/ Ends \/ Ages \/ Deliver

Next ==
  \/ Change("overview") \/ Change("catalog") \/ Record \/ Revoke \/ Restart \/ Tick
  \/ Served \/ Answered \/ TimerFires \/ Interval \/ Stream \/ ConnectFails \/ Breaks
  \/ Login \/ Logout \/ Refresh \/ Navigate \/ Hide \/ Show

Spec == Init /\ [][Next]_vars

\* Timers fire, requests have an outcome, the stream delivers or ends; the user, the
\* manager's changes and the network's faults owe nothing.
FairSpec ==
  /\ Spec /\ WF_vars(Tick) /\ WF_vars(TimerFires) /\ WF_vars(Interval) /\ WF_vars(Stream)
  /\ \A k \in Kinds : WF_vars(ServeOp(k)) /\ WF_vars(OpAnswer(k))
  /\ \A b \in Boots : WF_vars(BootAnswer(b))
  /\ WF_vars(ServeNav) /\ WF_vars(NavAnswer)
-----------------------------------------------------------------------------
Watching == tab.me # 0 /\ ~tab.hidden

\* A tab that stays in view comes to show what the manager has, whatever was lost on
\* the way: a notice, an answer, the stream (queueLive, onerror, the interval).  The
\* catalog may stay behind after a navigation whose answer failed or was overtaken.
ViewCurrent ==
  <>[]Watching =>
    <>[](/\ tab.overview = data["overview"]
         /\ tab.view = "users" => tab.catalog = data["catalog"] \/ tab.navStale)

\* The log shown by a tab with a stream becomes the complete log of the manager that
\* now runs, none missing or shown twice, across restarts and lost answers.
LogsCurrent ==
  <>[](Watching /\ tab.live) =>
    <>[](tab.logs = [i \in 1..seq |-> <<epoch, i>>])

\* Nothing of an earlier login comes to be in the log or catalog of a later one, also
\* when its answer was under way while the login changed (authGeneration).  The one
\* exception starts from a login page that a late answer of loginPage() put over the
\* console of somebody who had signed in meanwhile: bootstrap() clears nothing.
Own == tab.me # 0 => tab.logsOf \in {0, tab.me} /\ tab.catalogOf \in {0, tab.me}
Covered == tab.page = "login" /\ tab.me # 0
LoginOwnsView == [][Own /\ ~Covered => Own']_vars

\* A tab in view whose login has ended stops showing the console, though nothing
\* else changes (checkStreams, refreshFailure, bootstrap).
RevokedLeaves == Watching /\ sess # tab.me ~> ~Watching \/ sess = tab.me
=============================================================================
