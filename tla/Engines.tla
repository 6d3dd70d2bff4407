------------------------------- MODULE Engines -------------------------------
(***************************************************************************)
(* The pure rules of a player's progress: the HCMC calendar                *)
(* (internal/leaderboard/keys.go), streaks (internal/streak), achievements *)
(* (internal/achievements), hidden unlocks (internal/troll), quests        *)
(* (internal/quests) and ranks on a board (internal/leaderboard).          *)
(* A time is a number of minutes since 1970-01-01 00:00 UTC, a date the    *)
(* number of a day in HCMC since 1970-01-01, a Thursday.                   *)
(***************************************************************************)
EXTENDS Integers, Sequences, FiniteSets, SequencesExt

CONSTANTS
  Hash      \* Hash[d]: the FNV-1a hash of date d, modulo both pool sizes' lcm

-----------------------------------------------------------------------------
(* Calendar.  HCMC is 7 hours ahead of UTC all year.                       *)

LocalMinute(t) == t + 7 * 60
DateHCM(t) == LocalMinute(t) \div 1440
HourHCM(t) == (LocalMinute(t) % 1440) \div 60
MinuteHCM(t) == LocalMinute(t) % 60

(* Sunday is 0.                                                            *)
Weekday(d) == (d + 4) % 7

(* The Monday that opens the week of d; also the key of the week's board.  *)
WeekStart(d) == d - ((Weekday(d) + 6) % 7)

-----------------------------------------------------------------------------
(* Streaks.  LastDay is Never for a user who has not contributed.          *)

Never == -1
NoStreak == [count |-> 0, best |-> 0, last |-> Never]

IsNextDay(last, today) == today = last + 1

(* Wrong: a gap does not reset the count.                                  *)
Advance_Wrong(cur, today) ==
  IF cur.last = today THEN cur
  ELSE [count |-> cur.count + 1, best |-> cur.best + 1, last |-> today]

(* Wrong: a longer streak does not raise the best.                         *)
Advance_NoBest(cur, today) ==
  LET n == IF cur.last # Never /\ IsNextDay(cur.last, today) THEN cur.count + 1 ELSE 1
  IN  IF cur.last = today THEN cur
      ELSE [count |-> n, best |-> IF cur.best = 0 THEN n ELSE cur.best, last |-> today]

Advance(cur, today) ==
  LET n == IF cur.last # Never /\ IsNextDay(cur.last, today) THEN cur.count + 1 ELSE 1
  IN  IF cur.last = today THEN cur
      ELSE [count |-> n, best |-> IF n > cur.best THEN n ELSE cur.best, last |-> today]

-----------------------------------------------------------------------------
(* Achievements: id |-> the total that earns it.                           *)

Thresholds ==
  [mvh |-> 1, ten |-> 10, deep_thought |-> 42, nice |-> 69, century |-> 100,
   irrational |-> 314, blaze |-> 420, cursed |-> 666, comma |-> 1000,
   elite |-> 1337, over9000 |-> 9001, carpal |-> 10000, stretch |-> 100000]

(* Wrong: a total that ends exactly on the threshold does not cross it.    *)
Crosses_Wrong(total, batch, x) ==
  LET old == IF total > batch THEN total - batch ELSE 0
  IN  old < x /\ x < total

Crosses(total, batch, x) ==
  LET old == IF total > batch THEN total - batch ELSE 0
  IN  old < x /\ x <= total

(* The rules of one batch, whatever the total.                             *)
BatchRules(batch, t) ==
  {id \in {"bigbatch"} : batch >= 500} \cup
  {id \in {"chonk"} : batch >= 2000} \cup
  {id \in {"maxbatch"} : batch = 10000} \cup
  {id \in {"witching"} : HourHCM(t) = 0} \cup
  {id \in {"night"} : HourHCM(t) = 3} \cup
  {id \in {"dawn"} : HourHCM(t) = 5} \cup
  {id \in {"lunch"} : HourHCM(t) = 12}

Evaluate(total, batch, t) ==
  {id \in DOMAIN Thresholds : Crosses(total, batch, Thresholds[id])}
    \cup BatchRules(batch, t)

(* The catalog GetPlayerState shows: hidden unlocks are not in it.         *)
Catalog ==
  DOMAIN Thresholds \cup
  {"bigbatch", "chonk", "maxbatch", "witching", "night", "dawn", "lunch"}

-----------------------------------------------------------------------------
(* Hidden unlocks.  A total has at most MaxDigits decimal digits.          *)

MaxDigits == 8
Width(n) == CHOOSE w \in 1 .. MaxDigits : n < 10 ^ w /\ (w = 1 \/ n >= 10 ^ (w - 1))
Digits(n) == [i \in 1 .. Width(n) |-> (n \div 10 ^ (i - 1)) % 10]

IsPalindrome(n) == Digits(n) = Reverse(Digits(n))
IsPowerOfTwo(n) == \E k \in 0 .. 30 : n = 2 ^ k
IsRepdigit(n) == \E c \in 0 .. 9 : \A i \in DOMAIN Digits(n) : Digits(n)[i] = c

TrollEvaluate(total, t) ==
  {id \in {"palindrome"} : total >= 100 /\ IsPalindrome(total)} \cup
  {id \in {"power_of_two"} : total >= 1024 /\ IsPowerOfTwo(total)} \cup
  {id \in {"repdigit"} : total >= 100 /\ IsRepdigit(total)} \cup
  {id \in {"clock_420"} : MinuteHCM(t) = 20 /\ HourHCM(t) \in {4, 16}}

-----------------------------------------------------------------------------
(* Quests.                                                                 *)

Quest(id, metric, target) == [id |-> id, metric |-> metric, target |-> target]

DailyPool ==
  << Quest("warmup", "clicks", 100), Quest("marathon", "clicks", 1000),
     Quest("grinder", "clicks", 5000), Quest("assembly", "batches", 10),
     Quest("go_big", "maxbatch", 500), Quest("overachiever", "batches", 50) >>

WeeklyPool ==
  << Quest("everyday", "days", 7), Quest("weekly_grind", "week", 50000),
     Quest("top100", "rank", 100) >>

Smaller(a, b) == IF a < b THEN a ELSE b

(* n consecutive quests of a pool, from a place the date decides.          *)
Pick(pool, date, n) ==
  {pool[((Hash[date] + i) % Len(pool)) + 1] : i \in 0 .. Smaller(n, Len(pool)) - 1}

DailyQuests(date) == Pick(DailyPool, date, 3)
WeeklyQuests(start) == Pick(WeeklyPool, start, 2)

(* Progress toward quest q under signals s, and whether it is done.        *)
QuestDone(q, s) ==
  IF q.metric = "rank" THEN s.rank > 0 /\ s.rank <= q.target
                       ELSE s[q.metric] >= q.target

Progress(q, s) ==
  CASE QuestDone(q, s)   -> q.target
    [] q.metric = "rank" -> 0
    [] OTHER             -> s[q.metric]

-----------------------------------------------------------------------------
(* Boards: score[u] is the score of u, 0 for no member.  ZREVRANK puts     *)
(* the higher name first among equals.                                     *)

Before(score, u, v) == score[u] > score[v] \/ (score[u] = score[v] /\ u > v)

Ranked(score) == {u \in DOMAIN score : score[u] > 0}

(* 1-based, 0 for a user who is not on the board.                          *)
RankOf(score, u) ==
  IF u \in Ranked(score)
  THEN 1 + Cardinality({v \in Ranked(score) : Before(score, v, u)})
  ELSE 0

(* The first n users of the board with their scores.                       *)
TopN(score, n) ==
  [i \in 1 .. Smaller(n, Cardinality(Ranked(score))) |->
     LET u == CHOOSE u \in Ranked(score) : RankOf(score, u) = i
     IN  [sub |-> u, clicks |-> score[u]]]
=============================================================================
