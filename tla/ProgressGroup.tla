---------------------------- MODULE ProgressGroup ----------------------------
(***************************************************************************)
(* The "progress" Kafka consumer group (internal/progressworker) over one  *)
(* partition of the topic `clicks`.  A worker applies each new event in    *)
(* one Redis transaction to the boards and day counters, and then, step by *)
(* step and best effort, reads them back, claims achievements and hidden   *)
(* unlocks, advances the streak, claims quests and publishes one frame for *)
(* the user.  Other workers, crashes, rebalances and Redis errors may come *)
(* between any two steps.                                                  *)
(*                                                                         *)
(* The log is fixed from the start, and the keys seen:progress:<challenge> *)
(* do not expire: CounterGroup, whose gate is the same, is about that.     *)
(***************************************************************************)
EXTENDS Engines, FiniteSetsExt

CONSTANTS
  Users,        \* a set of naturals: the order of their names
  Workers,      \* worker processes of the group
  None,         \* no worker owns the partition
  Poison,       \* stands for the challenge of a record that does not unmarshal
  Logs,         \* the logs of this instance: sequences of [ch, sub, count, ts]
  Days,         \* the dates of their events
  FaultKinds,   \* the kinds of fault that happen in this instance
  Budget        \* bound: records of the log and faults together

Weeks == {WeekStart(d) : d \in Days}

ASSUME NoneIsNobody == None \notin Workers
ASSUME LogsTyped ==
  /\ Users \subseteq Nat
  /\ Logs \subseteq Seq([ch : Nat \cup {Poison}, sub : Users, count : Nat, ts : Nat])
  /\ \A log \in Logs : \A o \in DOMAIN log : DateHCM(log[o].ts) \in Days

(* Players are finitely many, and every date has its quests.               *)
ASSUME FinitelyMany == IsFiniteSet(Users)
ASSUME HashTyped == \A d \in Days \cup Weeks : Hash[d] \in Nat

VARIABLES
  clicks,     \* the partition
  seen,       \* challenges whose key seen:progress:ch is set
  applied,    \* history: offsets whose transaction took effect
  board,      \* board[u]: the score of u in lb:alltime
  week,       \* week[u][w]: the score of u in lb:week:w
  daily,      \* daily[u][d]: clicks and batches of the hash daily:u:d
  maxbatch,   \* maxbatch[u][d]: the field maxbatch of the same hash
  weekdays,   \* weekdays[u][w]: the set weekdays:u:w
  names,      \* users with a field in profile:names
  unlocks,    \* pairs <<u, id>>: the fields of the hashes unlocks:u
  streak,     \* streak[u]: the hash streak:u
  done,       \* triples <<u, d, id>>: the members of the sets quests_done:u:d
  short,      \* pairs <<u, d>>: quests_done:u:d expires after dailyTTL, not WeekTTL
  committed,  \* the group's committed offset
  owner,      \* the worker the partition is assigned to
  worker,     \* worker[w]: its control state, fetch position and batch
  job,        \* job[w]: the local variables of applyEvent
  told,       \* history: pairs <<u, id>> of unlocks published in a frame
  granted,    \* history: triples <<u, d, id>> of quests whose SADD returned 1
  again,      \* history: those for which it did so twice
  torn,       \* history: pairs <<u, part>> that a failure may have left behind
  faults      \* faults so far

tally == <<board, week, daily, weekdays>>
counts == <<applied, tally, maxbatch, names>>
quests == <<done, short, granted, again>>
redis == <<seen, counts, unlocks, streak, quests>>
group == <<committed, owner>>
vars == <<clicks, redis, group, worker, job, told, torn, faults>>

NoSignals == [clicks |-> 0, batches |-> 0, maxbatch |-> 0, days |-> 0, week |-> 0, rank |-> 0]
NoJob == [max |-> 0, total |-> 0, sig |-> NoSignals, st |-> NoStreak, news |-> {}]

Down == [pc |-> "down", pos |-> 0, idx |-> 0, hi |-> 0]
Idle(pos) == [pc |-> "poll", pos |-> pos, idx |-> 0, hi |-> 0]

Fault(k) ==
  /\ k \in FaultKinds
  /\ Len(clicks) + faults < Budget
  /\ faults' = faults + 1

At(w, pc) == worker[w].pc = pc
Record(w) == clicks[worker[w].idx]
User(w) == Record(w).sub
Today(w) == DateHCM(Record(w).ts)
ThisWeek(w) == WeekStart(Today(w))

(* Where a worker is after the transaction: in all of the engine layer, or *)
(* before the streak is stored.                                            *)
BeforeStreak == {"total", "day", "week", "claims", "load", "streak"}
Engine == BeforeStreak \cup {"quests", "expday", "expweek", "frame"}
InApply == {"apply", "max", "tx"} \cup Engine

(* Another worker is at one of pcs with an event of the same user.         *)
Overlaps(w, pcs) ==
  \E v \in Workers \ {w} : worker[v].pc \in pcs /\ User(v) = User(w)

Tear(w, parts) == torn' = torn \cup ({User(w)} \X parts)

(* What is left behind when the worker stops where it is.                  *)
Unfinished(w) ==
  {p \in {"event"} : worker[w].pc \in {"max", "tx"}} \cup
  {p \in {"claims"} : worker[w].pc \in Engine} \cup
  {p \in {"streak"} : worker[w].pc \in BeforeStreak} \cup
  {p \in {"quests"} : worker[w].pc = "expweek"}

Goto(w, pc) == worker' = [worker EXCEPT ![w].pc = pc]

NextRecord(b) ==
  IF b.idx < b.hi THEN [b EXCEPT !.pc = "apply", !.idx = b.idx + 1]
                  ELSE [b EXCEPT !.pc = "commit"]

(* apply() returned nil: on to the next record or to the commit.           *)
Applied(w) ==
  /\ worker' = [worker EXCEPT ![w] = NextRecord(worker[w])]
  /\ job' = [job EXCEPT ![w] = NoJob]

(* apply() returned an error: the rest of the batch is dropped.            *)
Abandon(w) ==
  /\ worker' = [worker EXCEPT ![w] = Idle(worker[w].pos)]
  /\ job' = [job EXCEPT ![w] = NoJob]

Init ==
  /\ clicks \in Logs
  /\ seen = {} /\ applied = {}
  /\ board = [u \in Users |-> 0]
  /\ week = [u \in Users |-> [k \in Weeks |-> 0]]
  /\ daily = [u \in Users |-> [d \in Days |-> [clicks |-> 0, batches |-> 0]]]
  /\ maxbatch = [u \in Users |-> [d \in Days |-> 0]]
  /\ weekdays = [u \in Users |-> [k \in Weeks |-> {}]]
  /\ names = {} /\ unlocks = {} /\ done = {} /\ short = {}
  /\ streak = [u \in Users |-> NoStreak]
  /\ committed = 0 /\ owner = None
  /\ worker = [w \in Workers |-> Idle(0)]
  /\ job = [w \in Workers |-> NoJob]
  /\ told = {} /\ granted = {} /\ again = {} /\ torn = {}
  /\ faults = 0

-----------------------------------------------------------------------------
(* The consumer group protocol: the same loop as in CounterGroup.          *)

Assign(w) ==
  /\ owner # w
  /\ ~At(w, "down")
  /\ IF owner = None THEN UNCHANGED faults ELSE Fault("rebalance")
  /\ owner' = w
  /\ worker' = [worker EXCEPT ![w].pos = committed]
  /\ UNCHANGED <<clicks, redis, committed, job, told, torn>>

Crash(w) ==
  /\ ~At(w, "down")
  /\ Fault("crash")
  /\ worker' = [worker EXCEPT ![w] = Down]
  /\ job' = [job EXCEPT ![w] = NoJob]
  /\ owner' = IF owner = w THEN None ELSE owner
  /\ torn' = torn \cup {<<User(w), p>> : p \in Unfinished(w)}
  /\ UNCHANGED <<clicks, redis, committed, told>>

Restart(w) ==
  /\ At(w, "down")
  /\ worker' = [worker EXCEPT ![w] = Idle(0)]
  /\ UNCHANGED <<clicks, redis, group, job, told, torn, faults>>

Poll(w) ==
  /\ At(w, "poll")
  /\ owner = w
  /\ \E hi \in worker[w].pos + 1 .. Len(clicks) :
       worker' = [worker EXCEPT ![w] =
         [pc |-> "apply", pos |-> hi, idx |-> worker[w].pos + 1, hi |-> hi]]
  /\ UNCHANGED <<clicks, redis, group, job, told, torn, faults>>

PollError(w) ==
  /\ At(w, "poll")
  /\ owner = w
  /\ Fault("fetch")
  /\ \E hi \in worker[w].pos + 1 .. Len(clicks) :
       worker' = [worker EXCEPT ![w].pos = hi]
  /\ UNCHANGED <<clicks, redis, group, job, told, torn>>

(* Wrong: the offset after the batch is skipped too.                       *)
Commit_Wrong(w) ==
  /\ At(w, "commit")
  /\ committed' = worker[w].hi + 1
  /\ worker' = [worker EXCEPT ![w] = Idle(worker[w].pos)]
  /\ UNCHANGED <<clicks, redis, owner, job, told, torn, faults>>

Commit(w) ==
  /\ At(w, "commit")
  /\ committed' = worker[w].hi
  /\ worker' = [worker EXCEPT ![w] = Idle(worker[w].pos)]
  /\ UNCHANGED <<clicks, redis, owner, job, told, torn, faults>>

CommitError(w) ==
  /\ At(w, "commit")
  /\ IF owner = w THEN Fault("commit") ELSE UNCHANGED faults
  /\ worker' = [worker EXCEPT ![w] = Idle(worker[w].pos)]
  /\ UNCHANGED <<clicks, redis, group, job, told, torn>>

-----------------------------------------------------------------------------
(* apply(): the gate.                                                      *)

SkipMalformed(w) ==
  /\ At(w, "apply")
  /\ Record(w).ch = Poison
  /\ Applied(w)
  /\ UNCHANGED <<clicks, redis, group, told, torn, faults>>

(* Wrong: the answer of SET NX is not looked at.                           *)
FirstSeeWins_Wrong(w) ==
  /\ At(w, "apply")
  /\ Record(w).ch # Poison
  /\ seen' = seen \cup {Record(w).ch}
  /\ Goto(w, "max")
  /\ UNCHANGED <<clicks, counts, unlocks, streak, quests, group, job, told, torn, faults>>

FirstSeeWins(w) ==
  /\ At(w, "apply")
  /\ Record(w).ch \notin seen \cup {Poison}
  /\ seen' = seen \cup {Record(w).ch}
  /\ Goto(w, "max")
  /\ UNCHANGED <<clicks, counts, unlocks, streak, quests, group, job, told, torn, faults>>

FirstSeeRepeat(w) ==
  /\ At(w, "apply")
  /\ Record(w).ch \in seen
  /\ Applied(w)
  /\ UNCHANGED <<clicks, redis, group, told, torn, faults>>

(* The call fails, before or after the key is set, or answers false to a   *)
(* SET NX that was sent twice.                                             *)
FirstSeeError(w) ==
  /\ At(w, "apply")
  /\ Record(w).ch # Poison
  /\ Fault("redis")
  /\ \/ UNCHANGED <<seen, torn>> /\ Abandon(w)
     \/ /\ Record(w).ch \notin seen
        /\ seen' = seen \cup {Record(w).ch}
        /\ Tear(w, {"event"})
        /\ Abandon(w) \/ Applied(w)
  /\ UNCHANGED <<clicks, counts, unlocks, streak, quests, group, told>>

-----------------------------------------------------------------------------
(* applyEvent(): the one read before the transaction, and the transaction. *)

(* Wrong: a day without the field is taken for an error.                   *)
GetMax_Wrong(w) ==
  /\ At(w, "max")
  /\ IF maxbatch[User(w)][Today(w)] = 0 THEN Abandon(w) ELSE
       /\ job' = [job EXCEPT ![w].max = maxbatch[User(w)][Today(w)]]
       /\ Goto(w, "tx")
  /\ UNCHANGED <<clicks, redis, group, told, torn, faults>>

GetMax(w) ==
  /\ At(w, "max")
  /\ job' = [job EXCEPT ![w].max = maxbatch[User(w)][Today(w)]]
  /\ Goto(w, "tx")
  /\ UNCHANGED <<clicks, redis, group, told, torn, faults>>

GetMaxError(w) ==
  /\ At(w, "max")
  /\ Fault("redis")
  /\ Tear(w, {"event"})
  /\ Abandon(w)
  /\ UNCHANGED <<clicks, redis, group, told>>

Tally(u, d, n) ==
  /\ board' = [board EXCEPT ![u] = @ + n]
  /\ week' = [week EXCEPT ![u][WeekStart(d)] = @ + n]
  /\ daily' = [daily EXCEPT ![u][d] = [clicks |-> @.clicks + n, batches |-> @.batches + 1]]
  /\ weekdays' = [weekdays EXCEPT ![u][WeekStart(d)] = @ \cup {d}]

(* Wrong: the batch is written whatever the field holds.                   *)
RaiseMax_Wrong(u, d, n, max) == maxbatch' = [maxbatch EXCEPT ![u][d] = n]

RaiseMax(u, d, n, max) ==
  maxbatch' = IF n > max THEN [maxbatch EXCEPT ![u][d] = n] ELSE maxbatch

(* MULTI ... EXEC took effect.  It moves under the feet of a worker that   *)
(* has read what it changes.                                               *)
Transaction(w) ==
  /\ applied' = applied \cup {worker[w].idx}
  /\ Tally(User(w), Today(w), Record(w).count)
  /\ RaiseMax(User(w), Today(w), Record(w).count, job[w].max)
  /\ names' = names \cup {User(w)}

Raced(w) ==
  {p \in {"claims"} : Overlaps(w, {"total"})} \cup
  {p \in {"streak"} :
     \/ Overlaps(w, BeforeStreak)
     \/ \E o \in applied : clicks[o].sub = User(w) /\ DateHCM(clicks[o].ts) > Today(w)} \cup
  {p \in {"maxbatch"} : Overlaps(w, {"tx"})}

Exec(w) ==
  /\ At(w, "tx")
  /\ Transaction(w)
  /\ Tear(w, Raced(w))
  /\ Goto(w, "total")
  /\ UNCHANGED <<clicks, seen, unlocks, streak, quests, group, job, told, faults>>

(* EXEC failed, or only its reply was lost: either way the engine layer of *)
(* this event never runs.                                                  *)
ExecError(w) ==
  /\ At(w, "tx")
  /\ Fault("redis")
  /\ \/ /\ Transaction(w)
        /\ Tear(w, Raced(w) \cup {"claims", "streak"})
     \/ Tear(w, {"event"}) /\ UNCHANGED counts
  /\ Abandon(w)
  /\ UNCHANGED <<clicks, seen, unlocks, streak, quests, group, told>>

-----------------------------------------------------------------------------
(* The engine layer: what it reads back.  A read that fails gives zero.    *)
(* Calls of one kind are one step: in between the user's counters only     *)
(* grow, and an error among them is a choice of the step.                  *)

(* Wrong: the batch is added to a total that already holds it.             *)
GetTotal_Wrong(w) ==
  /\ At(w, "total")
  /\ job' = [job EXCEPT ![w].total = board[User(w)] + Record(w).count]
  /\ Goto(w, "day")
  /\ UNCHANGED <<clicks, redis, group, told, torn, faults>>

GetTotal(w) ==
  /\ At(w, "total")
  /\ \/ /\ job' = [job EXCEPT ![w].total = board[User(w)]]
        /\ UNCHANGED <<torn, faults>>
     \/ /\ Fault("redis")
        /\ Tear(w, {"claims"})
        /\ UNCHANGED job
  /\ Goto(w, "day")
  /\ UNCHANGED <<clicks, redis, group, told>>

(* The counters of the day and the days of the week.                       *)
DaySignals(s, u, d) ==
  [clicks |-> daily[u][d].clicks, batches |-> daily[u][d].batches,
   maxbatch |-> maxbatch[u][d], days |-> Cardinality(weekdays[u][WeekStart(d)]),
   week |-> s.week, rank |-> s.rank]

(* The week's score and rank.                                              *)
WeekSignals(s, u, d) ==
  [clicks |-> s.clicks, batches |-> s.batches, maxbatch |-> s.maxbatch, days |-> s.days,
   week |-> week[u][WeekStart(d)],
   rank |-> RankOf([v \in Users |-> week[v][WeekStart(d)]], u)]

(* s with one of its fields zero.                                          *)
Blanked(s, fields) == {[s EXCEPT ![f] = 0] : f \in fields}

GetDay(w) ==
  LET sig == DaySignals(job[w].sig, User(w), Today(w)) IN
  /\ At(w, "day")
  /\ \/ job' = [job EXCEPT ![w].sig = sig] /\ UNCHANGED faults
     \/ /\ Fault("redis")
        /\ \E s \in Blanked(sig, {"clicks", "batches", "maxbatch", "days"}) :
             job' = [job EXCEPT ![w].sig = s]
  /\ Goto(w, "week")
  /\ UNCHANGED <<clicks, redis, group, told, torn>>

GetWeek(w) ==
  LET sig == WeekSignals(job[w].sig, User(w), Today(w)) IN
  /\ At(w, "week")
  /\ \/ job' = [job EXCEPT ![w].sig = sig] /\ UNCHANGED faults
     \/ /\ Fault("redis")
        /\ \E s \in Blanked(sig, {"week", "rank"}) :
             job' = [job EXCEPT ![w].sig = s]
  /\ Goto(w, "claims")
  /\ UNCHANGED <<clicks, redis, group, told, torn>>

-----------------------------------------------------------------------------
(* The engine layer: unlocks, streak, quests, frame.                       *)

Earned(w) ==
  {User(w)} \X (Evaluate(job[w].total, Record(w).count, Record(w).ts)
                  \cup TrollEvaluate(job[w].total, Record(w).ts))

(* HSETNX of every unlock the event earned: the new ones go to the frame.  *)
Claim(w) ==
  /\ At(w, "claims")
  /\ unlocks' = unlocks \cup Earned(w)
  /\ job' = [job EXCEPT ![w].news = Earned(w) \ unlocks]
  /\ Goto(w, "load")
  /\ UNCHANGED <<clicks, seen, counts, streak, quests, group, told, torn, faults>>

(* One HSETNX fails, or answers false because it was sent twice.           *)
ClaimError(w) ==
  /\ At(w, "claims")
  /\ Fault("redis")
  /\ \E x \in Earned(w) \ unlocks :
       /\ unlocks' \in {unlocks \cup Earned(w), (unlocks \cup Earned(w)) \ {x}}
       /\ job' = [job EXCEPT ![w].news = Earned(w) \ (unlocks \cup {x})]
  /\ Tear(w, {"claims"})
  /\ Goto(w, "load")
  /\ UNCHANGED <<clicks, seen, counts, streak, quests, group, told>>

LoadStreak(w) ==
  /\ At(w, "load")
  /\ job' = [job EXCEPT ![w].st = streak[User(w)]]
  /\ Goto(w, "streak")
  /\ UNCHANGED <<clicks, redis, group, told, torn, faults>>

(* A read that fails looks like a user who has never contributed.          *)
LoadStreakError(w) ==
  /\ At(w, "load")
  /\ Fault("redis")
  /\ Tear(w, {"streak"})
  /\ Goto(w, "streak")
  /\ UNCHANGED <<clicks, redis, group, job, told>>

(* HSET of the advanced streak, on the first event of a day.               *)
SaveStreak(w) ==
  /\ At(w, "streak")
  /\ \/ /\ streak' = IF job[w].st.last = Today(w) THEN streak
                     ELSE [streak EXCEPT ![User(w)] = Advance(job[w].st, Today(w))]
        /\ UNCHANGED <<torn, faults>>
     \/ /\ job[w].st.last # Today(w)
        /\ Fault("redis")
        /\ Tear(w, {"streak"})
        /\ UNCHANGED streak
  /\ Goto(w, "quests")
  /\ UNCHANGED <<clicks, seen, counts, unlocks, quests, group, job, told>>

Completed(w) ==
  LET by(qs, d) == {<<User(w), d, q.id>> : q \in {q \in qs : QuestDone(q, job[w].sig)}}
  IN  by(DailyQuests(Today(w)), Today(w)) \cup by(WeeklyQuests(ThisWeek(w)), ThisWeek(w))

(* SADD answered 1 for the quests of new.                                  *)
Grant(w, new) ==
  /\ granted' = granted \cup new
  /\ again' = again \cup (new \cap granted)
  /\ job' = [job EXCEPT ![w].news = @ \cup new]

ClaimQuests(w) ==
  /\ At(w, "quests")
  /\ done' = done \cup Completed(w)
  /\ Grant(w, Completed(w) \ done)
  /\ Goto(w, "expday")
  /\ UNCHANGED <<clicks, seen, counts, unlocks, streak, short, group, told, torn, faults>>

ClaimQuestsError(w) ==
  /\ At(w, "quests")
  /\ Fault("redis")
  /\ \E x \in Completed(w) \ done :
       /\ done' \in {done \cup Completed(w), (done \cup Completed(w)) \ {x}}
       /\ Grant(w, Completed(w) \ (done \cup {x}))
  /\ Goto(w, "expday")
  /\ UNCHANGED <<clicks, seen, counts, unlocks, streak, short, group, told, torn>>

DoneKeys == {<<x[1], x[2]>> : x \in done}

(* EXPIRE of the day's key, then of the week's: on a Monday they are one.  *)
ExpireDay(w) ==
  /\ At(w, "expday")
  /\ \/ short' = short \cup ({<<User(w), Today(w)>>} \cap DoneKeys) /\ UNCHANGED faults
     \/ Fault("redis") /\ UNCHANGED short
  /\ Goto(w, "expweek")
  /\ UNCHANGED <<clicks, seen, counts, unlocks, streak, done, granted, again, group,
                 job, told, torn>>

(* Wrong: the week's key gets the time of the day's.                       *)
ExpireWeek_Wrong(w) ==
  /\ At(w, "expweek")
  /\ short' = short \cup ({<<User(w), ThisWeek(w)>>} \cap DoneKeys)
  /\ Goto(w, "frame")
  /\ UNCHANGED <<clicks, seen, counts, unlocks, streak, done, granted, again, group,
                 job, told, torn, faults>>

ExpireWeek(w) ==
  /\ At(w, "expweek")
  /\ \/ short' = short \ {<<User(w), ThisWeek(w)>>} /\ UNCHANGED <<torn, faults>>
     \/ Fault("redis") /\ Tear(w, {"quests"}) /\ UNCHANGED short
  /\ Goto(w, "frame")
  /\ UNCHANGED <<clicks, seen, counts, unlocks, streak, done, granted, again, group,
                 job, told>>

(* The frame of the user, and the end of apply().                          *)
Frame(w) ==
  /\ At(w, "frame")
  /\ told' = told \cup job[w].news
  /\ Applied(w)
  /\ UNCHANGED <<clicks, redis, group, torn, faults>>

(* The produce failed, or only its acknowledgement was lost.               *)
FrameError(w) ==
  /\ At(w, "frame")
  /\ Fault("produce")
  /\ told' \in {told, told \cup job[w].news}
  /\ Tear(w, {"claims"})
  /\ Applied(w)
  /\ UNCHANGED <<clicks, redis, group>>

(* Redis drops a done key dailyTTL after its EXPIRE.  By the time a worker *)
(* is at events two days later that may have happened; between the two     *)
(* EXPIREs of one event it has not.                                        *)
KeyExpires(u, d) ==
  /\ <<u, d>> \in short
  /\ \E w \in Workers : worker[w].pc \in InApply /\ Today(w) >= d + 2
  /\ ~ \E w \in Workers : At(w, "expweek") /\ User(w) = u /\ Today(w) = d
  /\ done' = {x \in done : <<x[1], x[2]>> # <<u, d>>}
  /\ short' = short \ {<<u, d>>}
  /\ UNCHANGED <<clicks, seen, counts, unlocks, streak, granted, again, group, worker,
                 job, told, torn, faults>>

-----------------------------------------------------------------------------
Consume(w) ==
  \/ Poll(w) \/ Commit(w) \/ CommitError(w)
  \/ SkipMalformed(w) \/ FirstSeeWins(w) \/ FirstSeeRepeat(w)
  \/ GetMax(w) \/ Exec(w)
  \/ GetTotal(w) \/ GetDay(w) \/ GetWeek(w)
  \/ Claim(w) \/ LoadStreak(w) \/ SaveStreak(w)
  \/ ClaimQuests(w) \/ ExpireDay(w) \/ ExpireWeek(w) \/ Frame(w)

Misfortune(w) ==
  \/ PollError(w) \/ FirstSeeError(w) \/ GetMaxError(w) \/ ExecError(w)
  \/ ClaimError(w) \/ LoadStreakError(w) \/ ClaimQuestsError(w) \/ FrameError(w)
  \/ Crash(w)

Next ==
  \/ \E w \in Workers : Consume(w) \/ Misfortune(w) \/ Assign(w) \/ Restart(w)
  \/ \E u \in Users, d \in Days : KeyExpires(u, d)

Spec == Init /\ [][Next]_vars

-----------------------------------------------------------------------------
Signal == [clicks : Nat, batches : Nat, maxbatch : Nat, days : Nat, week : Nat, rank : Nat]
Streak == [count : Nat, best : Nat, last : Nat \cup {Never}]

WorkerState ==
  [pc : {"down", "poll", "commit"} \cup InApply,
   pos : 0 .. Len(clicks), idx : 0 .. Len(clicks), hi : 0 .. Len(clicks)]

(* Every variable has its type, and offsets lie in the log.                *)
TypeOK ==
  /\ clicks \in Logs
  /\ seen \subseteq Nat
  /\ applied \subseteq DOMAIN clicks
  /\ board \in [Users -> Nat]
  /\ week \in [Users -> [Weeks -> Nat]]
  /\ daily \in [Users -> [Days -> [clicks : Nat, batches : Nat]]]
  /\ maxbatch \in [Users -> [Days -> Nat]]
  /\ weekdays \in [Users -> [Weeks -> SUBSET Days]]
  /\ names \subseteq Users
  /\ \A x \in unlocks : x[1] \in Users
  /\ streak \in [Users -> Streak]
  /\ DoneKeys \cup short \subseteq Users \X (Days \cup Weeks)
  /\ committed \in 0 .. Len(clicks)
  /\ owner \in Workers \cup {None}
  /\ worker \in [Workers -> WorkerState]
  /\ \A w \in Workers :
       /\ job[w].max \in Nat /\ job[w].total \in Nat
       /\ job[w].sig \in Signal /\ job[w].st \in Streak
  /\ again \subseteq granted
  /\ torn \subseteq Users \X {"event", "claims", "streak", "maxbatch", "quests"}
  /\ faults \in Nat

(* progressworker.go:113-114 and :130-131, "called once per distinct       *)
(* accepted click" and "all effects in one atomic pipeline": an event is   *)
(* counted on every board and counter in one step, or on none, and no      *)
(* second event of its challenge ever is.                                  *)
Abstract == INSTANCE Tally
TallySpec == Abstract!Spec

(* The other half, progressworker.go:130-131, "either the whole event's    *)
(* state applies or ... (re-delivered)": an event whose seen key is set is *)
(* counted, or its worker is about to, or it failed in between -- there is *)
(* no other way to lose one, and no redelivery helps after the failure.    *)
SeenApplied ==
  \A o \in DOMAIN clicks : clicks[o].ch \in seen =>
    \/ \E p \in applied : clicks[p].ch = clicks[o].ch
    \/ \E w \in Workers : worker[w].pc \in {"max", "tx"} /\ Record(w).ch = clicks[o].ch
    \/ \E p \in DOMAIN clicks :
         clicks[p].ch = clicks[o].ch /\ <<clicks[p].sub, "event">> \in torn

(* The days on which u contributed.                                        *)
DaysOf(u) == {DateHCM(clicks[o].ts) : o \in {o \in applied : clicks[o].sub = u}}

(* u contributed on each of the n days that end with d.                    *)
RunOf(u, d, n) == \A k \in 0 .. n - 1 : d - k \in DaysOf(u)

EarnedStreak(u, st) ==
  /\ RunOf(u, st.last, st.count)
  /\ st.best > 0 => \E d \in DaysOf(u) : RunOf(u, d, st.best)

(* streak.go:14-21.  A streak is never too long: whatever the order of the *)
(* events, overlapping owners, crashes and lost reads or writes do, the    *)
(* user has contributed on every day a streak and its best are made of.    *)
StreakEarned == \A u \in Users : EarnedStreak(u, streak[u])

(* Nor is it too short, once the user's events are through, unless a       *)
(* failure, an overlap of owners or an event of an earlier day came        *)
(* between: it ends on the last day and goes back to the day after a gap.  *)
StreakComplete ==
  \A u \in Users :
    \/ <<u, "streak">> \in torn
    \/ \E w \in Workers : worker[w].pc \in BeforeStreak /\ User(w) = u
    \/ /\ \A d \in DaysOf(u) : d <= streak[u].last /\ ~RunOf(u, d, streak[u].best + 1)
       /\ streak[u].last - streak[u].count \notin DaysOf(u)

(* achievements.go:99-102, "so already-earned rows are never re-proposed": *)
(* crossing a threshold is noticed in one event and no other.  A threshold *)
(* the user's total has reached was announced, or a worker is still on the *)
(* way to it, or a failure or an overlap came between.                     *)
ThresholdTold ==
  \A u \in Users : \A id \in DOMAIN Thresholds :
    Thresholds[id] <= board[u] =>
      \/ <<u, id>> \in told
      \/ <<u, "claims">> \in torn
      \/ \E w \in Workers : worker[w].pc \in Engine /\ User(w) = u

UnlocksEarned ==
  \A x \in unlocks : x[2] \in DOMAIN Thresholds => Thresholds[x[2]] <= board[x[1]]

(* Whatever interleaves with it, a reward stays earned: the total is past  *)
(* the threshold of an unlock, and a quest that counts something and was   *)
(* granted still shows as done -- one for the largest batch, unless two    *)
(* owners raced for it.                                                    *)
RewardsEarned ==
  /\ UnlocksEarned
  /\ \A x \in granted :
       /\ \A q \in DailyQuests(x[2]) :
            q.id = x[3] => \/ QuestDone(q, DaySignals(NoSignals, x[1], x[2]))
                           \/ q.metric = "maxbatch" /\ <<x[1], "maxbatch">> \in torn
       /\ x[2] \in Weeks => \A q \in WeeklyQuests(x[2]) :
            q.id = x[3] /\ q.metric # "rank" =>
              \/ q.metric = "week" /\ week[x[1]][x[2]] >= q.target
              \/ q.metric = "days" /\ Cardinality(weekdays[x[1]][x[2]]) >= q.target

(* progressworker.go:123-124, "raise-only maxbatch": the largest batch of  *)
(* the day, unless another owner's transaction came between a worker's     *)
(* read and its own.                                                       *)
MaxBatchIsMax ==
  \A u \in Users : \A d \in Days :
    \/ <<u, "maxbatch">> \in torn
    \/ maxbatch[u][d] =
         Max({0} \cup {clicks[o].count : o \in
                         {o \in applied : clicks[o].sub = u /\ DateHCM(clicks[o].ts) = d}})

(* d opens a week.                                                         *)
Opens(d) == WeekStart(d) = d

(* progressworker.go:189-204.  A quest of a day or a week is granted once: *)
(* no key that remembers it expires while it can still be asked for --     *)
(* unless the worker died, or failed, between the two EXPIREs of a Monday, *)
(* or an event of another day came two days late, after one of a later     *)
(* date.                                                                   *)
QuestOnce ==
  \A x \in again :
    \/ <<x[1], "quests">> \in torn
    \/ ~Opens(x[2]) /\ \E o \in DOMAIN clicks : DateHCM(clicks[o].ts) >= x[2] + 2

-----------------------------------------------------------------------------
(* The parts of the inductive invariants of ProgressProofs.                *)

BatchInLog ==
  /\ clicks \in Logs
  /\ committed \in 0 .. Len(clicks)
  /\ worker \in [Workers -> WorkerState]
  /\ \A w \in Workers : worker[w].pc \in InApply => worker[w].idx \in 1 .. worker[w].hi

(* Between the gate and the transaction an event has one worker, its key   *)
(* is set and it is not counted; what is counted has its key set.          *)
Gated(w) == worker[w].pc \in {"max", "tx"}

OneWinner ==
  /\ \A o \in applied : o \in DOMAIN clicks /\ clicks[o].ch \in seen
  /\ \A w \in Workers : Gated(w) =>
       /\ Record(w).ch \in seen \ {Poison}
       /\ \A o \in applied : clicks[o].ch # Record(w).ch
       /\ \A v \in Workers : Gated(v) /\ Record(v).ch = Record(w).ch => v = w
=============================================================================
