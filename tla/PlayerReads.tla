----------------------------- MODULE PlayerReads -----------------------------
(***************************************************************************)
(* What players are shown while the progress group works: GetPlayerState   *)
(* and GetLeaderboard of internal/server, and the leaderboard frames a     *)
(* worker publishes every lbInterval.  None of them reads in one           *)
(* transaction: a call is a sequence of Redis reads, each of which may     *)
(* find a later state than the one before, or fail and count as empty.     *)
(*                                                                         *)
(* One call at a time is in progress: calls change nothing, so more would  *)
(* show nothing new.  The milestones of GetPlayerState are the counter     *)
(* group's keys (CounterTick).                                             *)
(***************************************************************************)
EXTENDS ProgressGroup

VARIABLE call   \* the call in progress

NoCall == [kind |-> "none", pc |-> "done", sub |-> None, date |-> 0, total |-> 0,
           unlocks |-> {}, sig |-> NoSignals, st |-> NoStreak,
           all |-> << >>, week |-> << >>, named |-> {}, rank |-> 0, before |-> {}, blind |-> FALSE]

(* The reads of each kind of call, in their order.                         *)

(* Wrong: the week is read before the day.                                 *)
Reads_Wrong(kind) ==
  CASE kind = "state" -> << "total", "unlocks", "week", "day", "streak", "done" >>
    [] kind = "board" -> << "topall", "names", "topweek", "weeknames", "ranks", "done" >>
    [] kind = "tick"  -> << "topall", "names", "topweek", "weeknames", "done" >>

Reads(kind) ==
  CASE kind = "state" -> << "total", "unlocks", "day", "week", "streak", "done" >>
    [] kind = "board" -> << "topall", "names", "topweek", "weeknames", "ranks", "done" >>
    [] kind = "tick"  -> << "topall", "names", "topweek", "weeknames", "done" >>

Then(c) ==
  LET s == Reads(c.kind)
  IN  s[CHOOSE i \in DOMAIN s : \E j \in DOMAIN s : i = j + 1 /\ s[j] = c.pc]

(* The read the call is at answers c, or fails and leaves it as it was.    *)
Read(pc, c) ==
  /\ call.pc = pc
  /\ \/ call' = [c EXCEPT !.pc = Then(call)] /\ UNCHANGED faults
     \/ Fault("redis") /\ call' = [call EXCEPT !.pc = Then(call), !.blind = TRUE]
  /\ UNCHANGED <<clicks, redis, group, worker, job, told, torn>>

Week(c) == WeekStart(c.date)
WeekBoard(c) == [v \in Users |-> week[v][Week(c)]]

(* A call begins; its date is that of the server's clock and stays.  In    *)
(* this model it is one of the log's, and the call begins before the first *)
(* fault and counts as one.  before is a history: what the user has been   *)
(* granted by then.                                                        *)
LogDates == {DateHCM(clicks[o].ts) : o \in DOMAIN clicks}

Begin(kind, u, d) ==
  /\ call = NoCall
  /\ faults = 0
  /\ Fault("call")
  /\ call' = [NoCall EXCEPT !.kind = kind, !.pc = Reads(kind)[1], !.sub = u, !.date = d,
                            !.before = {x \in granted : x[1] = u}]
  /\ UNCHANGED <<clicks, redis, group, worker, job, told, torn>>

GetPlayerState == \E u \in Users, d \in LogDates : Begin("state", u, d)
GetLeaderboard == \E u \in Users, d \in LogDates : Begin("board", u, d)
LeaderboardTick == \E d \in LogDates : Begin("tick", None, d)

-----------------------------------------------------------------------------
(* GetPlayerState.                                                         *)

ReadTotal == Read("total", [call EXCEPT !.total = board[call.sub]])

ReadUnlocks ==
  Read("unlocks", [call EXCEPT !.unlocks = {id \in Catalog : <<call.sub, id>> \in unlocks}])

ReadDay == Read("day", [call EXCEPT !.sig = DaySignals(@, call.sub, call.date)])
ReadWeek == Read("week", [call EXCEPT !.sig = WeekSignals(@, call.sub, call.date)])
ReadStreak == Read("streak", [call EXCEPT !.st = streak[call.sub]])

-----------------------------------------------------------------------------
(* The two lists, rendered for GetLeaderboard and for the frame: the rows, *)
(* then the names of their users.                                          *)

ReadTopAll == Read("topall", [call EXCEPT !.all = TopN(board, 20)])
ReadTopWeek == Read("topweek", [call EXCEPT !.week = TopN(WeekBoard(call), 20)])

Named(rows) == {rows[i].sub : i \in DOMAIN rows} \cap names

ReadNames == Read("names", [call EXCEPT !.named = Named(call.all)])
ReadWeekNames == Read("weeknames", [call EXCEPT !.named = @ \cup Named(call.week)])
ReadRanks == Read("ranks", [call EXCEPT !.rank = RankOf(WeekBoard(call), call.sub)])

(* The answer is on its way.                                               *)
Return ==
  /\ call.pc = "done" /\ call # NoCall
  /\ call' = NoCall
  /\ UNCHANGED vars

-----------------------------------------------------------------------------
ReadInit == Init /\ call = NoCall

Player ==
  \/ GetPlayerState \/ GetLeaderboard \/ LeaderboardTick
  \/ ReadTotal \/ ReadUnlocks \/ ReadDay \/ ReadWeek \/ ReadStreak
  \/ ReadTopAll \/ ReadTopWeek \/ ReadNames \/ ReadWeekNames \/ ReadRanks
  \/ Return

ReadNext == Player \/ (Next /\ UNCHANGED call)

ReadSpec == ReadInit /\ [][ReadNext]_<<vars, call>>

-----------------------------------------------------------------------------
(* A quest granted by the time the call begins is shown as complete.       *)
Kept(x, q) ==
  x[3] = q.id =>
    \/ Progress(q, call.sig) = q.target
    \/ q.metric = "rank"
    \/ q.metric = "maxbatch" /\ <<x[1], "maxbatch">> \in torn

(* server.go:268-348.  Although nothing holds the data still while a call  *)
(* reads it, an answer without a failed read fits together: today's clicks *)
(* are among the week's, no row of the all-time list is ahead of the same  *)
(* user's weeks, everybody listed has a name, everybody on the week's list *)
(* a rank, and a quest granted before -- except one for a rank, which may  *)
(* be lost again -- is shown as complete.                                  *)
AnswerFits ==
  LET rows(list) == {list[i] : i \in DOMAIN list}
      weekrow(r) == {s \in rows(call.week) : s.sub = r.sub}
      older(u) == board[u] - week[u][Week(call)]
  IN  call.pc = "done" /\ call # NoCall /\ ~call.blind =>
        /\ call.sig.clicks <= call.sig.week
        /\ \A r \in rows(call.all) : \A s \in weekrow(r) : r.clicks <= s.clicks + older(r.sub)
        /\ \A r \in rows(call.all) \cup rows(call.week) : r.sub \in call.named
        /\ call.kind = "board" =>
             \A s \in rows(call.week) : s.sub = call.sub => call.rank > 0
        /\ call.kind = "state" => \A x \in call.before :
             /\ x[2] = call.date => \A q \in DailyQuests(call.date) : Kept(x, q)
             /\ x[2] = Week(call) => \A q \in WeeklyQuests(Week(call)) : Kept(x, q)
=============================================================================
