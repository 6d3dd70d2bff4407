------------------------- MODULE CounterGroupProofs -------------------------
(***************************************************************************)
(* Type correctness of CounterGroup, CreditAtMostOnce, HandledCredited and *)
(* StatsFollowCredits, for any number of workers, challenges, records and  *)
(* faults.                                                                 *)
(*                                                                         *)
(* CreditAtMostOnce.  A challenge is appended at most Window after it was  *)
(* issued (LogInWindow).  A record looked up no later than MaxLag after    *)
(* its append is therefore looked up before iat + SeenTTL, and whoever has *)
(* won FirstSee once set the key to expire no earlier than that            *)
(* (SeenCovers).  So nobody wins a second time, and between the win and    *)
(* the INCRBY there is exactly one winner (OneWinner).                     *)
(*                                                                         *)
(* HandledCredited.  Whoever set a seen key has credited the challenge, is *)
(* about to, or failed in between, which `lost` records (SeenCounted); so  *)
(* a record that is handled because its key was there is accounted for.    *)
(*                                                                         *)
(* StatsFollowCredits.  Every step moves the sum of the credits and the    *)
(* count of accepted submits, with the workers between the two calls, by   *)
(* amounts that differ by no more than the fault it pays for.  The sum is  *)
(* a fold: what it returns is proved by induction over finite sets, with a *)
(* set in the place of the predicate.                                      *)
(***************************************************************************)
EXTENDS CounterGroup, SequenceTheorems, FiniteSetTheorems, TLAPS

(* What the loop does with the batch after a record keeps it in the log.   *)
LEMMA NextRecordType ==
  ASSUME NEW b \in WorkerState
  PROVE  /\ NextRecord(b) \in WorkerState
         /\ NextRecord(b).pos = b.pos
         /\ NextRecord(b).hi = b.hi
         /\ NextRecord(b).pc \in {"apply", "commit"}
         /\ NextRecord(b).pc = "apply" => NextRecord(b).idx = b.idx + 1 /\ b.idx < b.hi
<1>1. CASE b.idx < b.hi
  <2>1. NextRecord(b) = [b EXCEPT !.pc = "apply", !.idx = b.idx + 1]
    BY <1>1 DEF NextRecord
  <2>2. b.idx + 1 \in Nat
    BY DEF WorkerState
  <2>3. NextRecord(b) = [pc |-> "apply", pos |-> b.pos, idx |-> b.idx + 1, hi |-> b.hi]
    BY <2>1 DEF WorkerState
  <2> QED
    BY <1>1, <2>2, <2>3 DEF WorkerState
<1>2. CASE ~(b.idx < b.hi)
  <2>1. NextRecord(b) = [b EXCEPT !.pc = "commit"]
    BY <1>2 DEF NextRecord
  <2> QED
    BY <2>1 DEF WorkerState
<1> QED
  BY <1>1, <1>2

(* The initial state satisfies the inductive invariant.                    *)
LEMMA InitInv == Init => IInv
<1> SUFFICES ASSUME Init PROVE IInv
  OBVIOUS
<1>1. TypeOK
  BY DEF Init, TypeOK, WorkerState, Idle
<1>2. BatchInLog
  BY DEF Init, BatchInLog, Idle
<1>3. LogInWindow
  BY DEF Init, LogInWindow
<1>4. SeenCovers /\ OneWinner
  BY DEF Init, SeenCovers, OneWinner, Winning, At, Idle
<1>5. CreditAtMostOnce
  BY DEF Init, CreditAtMostOnce
<1> QED
  BY <1>1, <1>2, <1>3, <1>4, <1>5 DEF IInv

(* A step of the group that leaves the log alone and changes one worker    *)
(* keeps TypeOK and BatchInLog when the worker's new state is in the log.  *)
LEMMA WorkerStep ==
  ASSUME TypeOK, BatchInLog,
         NEW w \in Workers, NEW b \in WorkerState,
         b.pos <= Len(clicks), b.hi <= Len(clicks),
         b.pc \in {"apply", "incr", "stats"} => b.idx \in 1 .. b.hi,
         b.pc = "incr" => clicks[b.idx].ch \in Challenges,
         clicks' = clicks,
         worker' = [worker EXCEPT ![w] = b]
  PROVE  BatchInLog' /\ worker' \in [Workers -> WorkerState]
<1>1. worker' \in [Workers -> WorkerState]
  BY DEF TypeOK
<1>2. ASSUME NEW v \in Workers
      PROVE  /\ worker'[v].pos <= Len(clicks')
             /\ worker'[v].hi <= Len(clicks')
             /\ worker'[v].pc \in {"apply", "incr", "stats"} =>
                  worker'[v].idx \in 1 .. worker'[v].hi
             /\ worker'[v].pc = "incr" => clicks'[worker'[v].idx].ch \in Challenges
  <2>1. CASE v = w
    BY <2>1 DEF TypeOK
  <2>2. CASE v # w
    BY <2>2 DEF TypeOK, BatchInLog, Record
  <2> QED
    BY <2>1, <2>2
<1> QED
  BY <1>1, <1>2 DEF BatchInLog, Record

(* Every step keeps the types and the batches in the log.                  *)
LEMMA TypeStep ==
  ASSUME TypeOK, BatchInLog, [Next]_vars
  PROVE  TypeOK' /\ BatchInLog'
<1>0. DOMAIN clicks = 1 .. Len(clicks) /\ Len(clicks) \in Nat
  BY DEF TypeOK
<1>1. CASE Tick
  BY <1>1 DEF Tick, TypeOK, BatchInLog, Record, effects, history
<1>2. ASSUME NEW ch \in Challenges, Issue(ch) PROVE TypeOK' /\ BatchInLog'
  BY <1>2 DEF Issue, TypeOK, BatchInLog, Record, effects, history
<1>3. ASSUME NEW r \in [ch : Challenges \cup {Poison}, at : Nat],
             clicks' = Append(clicks, r),
             UNCHANGED <<now, iat, effects, committed, owner, worker, history>>,
             faults' \in Nat
      PROVE  TypeOK' /\ BatchInLog'
  <2>1. clicks' \in Seq([ch : Challenges \cup {Poison}, at : Nat])
    BY <1>3 DEF TypeOK
  <2>2. Len(clicks') = Len(clicks) + 1 /\ \A o \in 1 .. Len(clicks) : clicks'[o] = clicks[o]
    BY <1>3 DEF TypeOK
  <2>3. TypeOK'
    BY <1>0, <1>3, <2>1, <2>2 DEF TypeOK, effects, history
  <2>4. BatchInLog'
    <3> SUFFICES ASSUME NEW w \in Workers
                 PROVE  /\ worker[w].pos <= Len(clicks')
                        /\ worker[w].hi <= Len(clicks')
                        /\ worker[w].pc \in {"apply", "incr", "stats"} =>
                             worker[w].idx \in 1 .. worker[w].hi
                        /\ worker[w].pc = "incr" =>
                             clicks'[worker[w].idx].ch \in Challenges
      BY <1>3 DEF BatchInLog, Record
    <3>1. worker[w].pos \in Nat /\ worker[w].hi \in Nat
      BY DEF TypeOK, WorkerState
    <3>2. worker[w].pos <= Len(clicks) /\ worker[w].hi <= Len(clicks)
      BY DEF BatchInLog
    <3>3. worker[w].pc \in {"apply", "incr", "stats"} =>
            worker[w].idx \in 1 .. worker[w].hi
      BY DEF BatchInLog
    <3>4. worker[w].pc = "incr" =>
            worker[w].idx \in 1 .. Len(clicks) /\ clicks[worker[w].idx].ch \in Challenges
      BY <1>0, <3>1, <3>2, <3>3 DEF BatchInLog, Record
    <3> QED
      BY <1>0, <2>2, <3>1, <3>2, <3>3, <3>4
  <2> QED
    BY <2>3, <2>4
<1>4. ASSUME NEW ch \in Challenges, Append1(ch) PROVE TypeOK' /\ BatchInLog'
  <2>1. [ch |-> ch, at |-> now] \in [ch : Challenges \cup {Poison}, at : Nat]
    BY DEF TypeOK
  <2>2. faults' \in Nat
    BY <1>4 DEF Append1, TypeOK
  <2> QED
    BY <1>3, <1>4, <2>1, <2>2 DEF Append1
<1>5. CASE AppendPoison
  <2>1. [ch |-> Poison, at |-> now] \in [ch : Challenges \cup {Poison}, at : Nat]
    BY DEF TypeOK
  <2>2. faults' \in Nat
    BY <1>5 DEF AppendPoison, Fault, TypeOK
  <2> QED
    BY <1>3, <1>5, <2>1, <2>2 DEF AppendPoison
<1>6. ASSUME NEW w \in Workers, Assign(w) PROVE TypeOK' /\ BatchInLog'
  <2>1. faults' \in Nat
    BY <1>6 DEF Assign, Fault, TypeOK
  <2> DEFINE b == [worker[w] EXCEPT !.pos = committed]
  <2>2. b \in WorkerState /\ b.pos = committed /\ b.pc = worker[w].pc
        /\ b.idx = worker[w].idx /\ b.hi = worker[w].hi
    <3>1. worker[w] \in WorkerState /\ committed \in Nat
      BY <1>0 DEF TypeOK
    <3> QED
      BY <3>1 DEF WorkerState
  <2>3. worker' = [worker EXCEPT ![w] = b]
    BY <1>6 DEF Assign, TypeOK
  <2> HIDE DEF b
  <2>4. BatchInLog' /\ worker' \in [Workers -> WorkerState]
    <3>1. committed <= Len(clicks)
      BY <1>0 DEF TypeOK
    <3> QED
      BY <1>6, <2>2, <2>3, <3>1, WorkerStep DEF Assign, BatchInLog, Record, ingest
  <2> QED
    BY <1>6, <2>1, <2>4 DEF Assign, TypeOK, ingest, effects, history
<1>7. ASSUME NEW w \in Workers, Crash(w) PROVE TypeOK' /\ BatchInLog'
  <2>1. Down \in WorkerState /\ Down.pos = 0 /\ Down.hi = 0 /\ Down.pc = "down"
    BY DEF Down, WorkerState
  <2>2. BatchInLog' /\ worker' \in [Workers -> WorkerState]
    <3>1. Down.pos <= Len(clicks) /\ Down.hi <= Len(clicks)
          /\ Down.pc \notin {"apply", "incr", "stats"} /\ Down.pc # "incr"
      BY <1>0, <2>1
    <3> QED
      BY <1>7, <2>1, <3>1, WorkerStep DEF Crash, ingest
  <2>3. lost' \subseteq Challenges
    BY <1>7 DEF Crash, TypeOK, BatchInLog, At
  <2> QED
    BY <1>7, <2>2, <2>3 DEF Crash, Fault, TypeOK, ingest, effects
<1>8. ASSUME NEW w \in Workers, Restart(w) PROVE TypeOK' /\ BatchInLog'
  <2>1. Idle(0) \in WorkerState /\ Idle(0).pos = 0 /\ Idle(0).hi = 0 /\ Idle(0).pc = "poll"
    BY DEF Idle, WorkerState
  <2>2. BatchInLog' /\ worker' \in [Workers -> WorkerState]
    <3>1. Idle(0).pos <= Len(clicks) /\ Idle(0).hi <= Len(clicks)
          /\ Idle(0).pc \notin {"apply", "incr", "stats"} /\ Idle(0).pc # "incr"
      BY <1>0, <2>1
    <3> QED
      BY <1>8, <2>1, <3>1, WorkerStep DEF Restart, ingest
  <2> QED
    BY <1>8, <2>2 DEF Restart, TypeOK, ingest, effects, history
<1>9. ASSUME NEW w \in Workers, Poll(w) PROVE TypeOK' /\ BatchInLog'
  <2>1. PICK hi \in worker[w].pos + 1 .. Len(clicks) :
          worker' = [worker EXCEPT ![w] =
            [pc |-> "apply", pos |-> hi, idx |-> worker[w].pos + 1, hi |-> hi]]
    BY <1>9 DEF Poll
  <2> DEFINE b == [pc |-> "apply", pos |-> hi, idx |-> worker[w].pos + 1, hi |-> hi]
  <2>2. b \in WorkerState /\ b.pc = "apply" /\ b.pos = hi /\ b.hi = hi /\ b.idx \in 1 .. hi
    BY <1>0 DEF TypeOK, WorkerState
  <2>3. hi <= Len(clicks)
    BY <1>0 DEF TypeOK, WorkerState
  <2> HIDE DEF b
  <2>4. worker' = [worker EXCEPT ![w] = b]
    BY <2>1 DEF b
  <2>5. BatchInLog' /\ worker' \in [Workers -> WorkerState]
    BY <1>9, <2>2, <2>3, <2>4, WorkerStep DEF Poll, ingest
  <2> QED
    BY <1>9, <2>5 DEF Poll, TypeOK, ingest, effects, history
<1>10. ASSUME NEW w \in Workers, PollError(w) PROVE TypeOK' /\ BatchInLog'
  <2>1. PICK hi \in worker[w].pos + 1 .. Len(clicks) :
          worker' = [worker EXCEPT ![w].pos = hi]
    BY <1>10 DEF PollError
  <2> DEFINE b == [worker[w] EXCEPT !.pos = hi]
  <2>2. hi \in Nat /\ hi <= Len(clicks)
    BY <1>0 DEF TypeOK, WorkerState
  <2>3. b \in WorkerState /\ b.pos = hi /\ b.pc = worker[w].pc
        /\ b.idx = worker[w].idx /\ b.hi = worker[w].hi
    BY <2>2 DEF TypeOK, WorkerState
  <2>4. worker' = [worker EXCEPT ![w] = b]
    BY <2>1 DEF TypeOK
  <2> HIDE DEF b
  <2>5. BatchInLog' /\ worker' \in [Workers -> WorkerState]
    BY <1>10, <2>2, <2>3, <2>4, WorkerStep DEF PollError, BatchInLog, Record, ingest
  <2> QED
    BY <1>10, <2>5 DEF PollError, Fault, TypeOK, ingest, effects, history
<1>11. ASSUME NEW w \in Workers, At(w, "apply") \/ At(w, "stats"), Applied(w),
              clicks' = clicks
       PROVE  /\ BatchInLog' /\ worker' \in [Workers -> WorkerState]
              /\ handled' \subseteq DOMAIN clicks
  <2> DEFINE b == NextRecord(worker[w])
  <2>1. worker[w] \in WorkerState /\ worker[w].idx \in 1 .. worker[w].hi
        /\ worker[w].hi <= Len(clicks) /\ worker[w].pos <= Len(clicks)
    BY <1>11 DEF TypeOK, BatchInLog, At
  <2>2. worker[w].idx \in DOMAIN clicks
    BY <1>0, <2>1 DEF WorkerState
  <2>3. b \in WorkerState /\ b.pos = worker[w].pos /\ b.hi = worker[w].hi
        /\ b.pc \in {"apply", "commit"} /\ (b.pc = "apply" => b.idx \in 1 .. b.hi)
    BY <2>1, NextRecordType DEF WorkerState
  <2>4. worker' = [worker EXCEPT ![w] = b]
    BY <1>11 DEF Applied
  <2> HIDE DEF b
  <2>5. BatchInLog' /\ worker' \in [Workers -> WorkerState]
    BY <1>11, <2>1, <2>3, <2>4, WorkerStep
  <2> QED
    BY <1>11, <2>2, <2>5 DEF Applied, TypeOK
<1>12. ASSUME NEW w \in Workers, worker' = [worker EXCEPT ![w] = Idle(worker[w].pos)],
              clicks' = clicks
       PROVE  BatchInLog' /\ worker' \in [Workers -> WorkerState]
  <2> DEFINE b == Idle(worker[w].pos)
  <2>1. worker[w] \in WorkerState /\ worker[w].pos <= Len(clicks)
    BY DEF TypeOK, BatchInLog
  <2>2. b \in WorkerState /\ b.pos = worker[w].pos /\ b.hi = 0 /\ b.pc = "poll"
    BY <2>1 DEF Idle, WorkerState
  <2>3. worker' = [worker EXCEPT ![w] = b]
    BY <1>12
  <2> HIDE DEF b
  <2> QED
    <3>1. b.pos <= Len(clicks) /\ b.hi <= Len(clicks)
          /\ b.pc \notin {"apply", "incr", "stats"} /\ b.pc # "incr"
      BY <1>0, <2>1, <2>2
    <3> QED
      BY <1>12, <2>2, <2>3, <3>1, WorkerStep
<1>13. ASSUME NEW w \in Workers, NEW pc \in {"incr", "stats"},
              At(w, "apply") \/ At(w, "incr"),
              pc = "incr" => Record(w).ch \in Challenges,
              worker' = [worker EXCEPT ![w].pc = pc], clicks' = clicks
       PROVE  BatchInLog' /\ worker' \in [Workers -> WorkerState]
  <2> DEFINE b == [worker[w] EXCEPT !.pc = pc]
  <2>1. worker[w] \in WorkerState /\ worker[w].idx \in 1 .. worker[w].hi
        /\ worker[w].hi <= Len(clicks) /\ worker[w].pos <= Len(clicks)
    BY <1>13 DEF TypeOK, BatchInLog, At
  <2>2. b \in WorkerState /\ b.pos = worker[w].pos /\ b.hi = worker[w].hi
        /\ b.pc = pc /\ b.idx = worker[w].idx
    BY <2>1 DEF WorkerState
  <2>3. worker' = [worker EXCEPT ![w] = b]
    BY <1>13 DEF TypeOK
  <2> HIDE DEF b
  <2> QED
    BY <1>13, <2>1, <2>2, <2>3, WorkerStep DEF Record
<1>14. ASSUME NEW w \in Workers, SkipMalformed(w) PROVE TypeOK' /\ BatchInLog'
  BY <1>11, <1>14 DEF SkipMalformed, TypeOK, ingest, effects
<1>15. ASSUME NEW w \in Workers, Record(w).ch \in Challenges PROVE now + SeenTTL \in Nat
  BY DedupWindow DEF TypeOK
<1>16. ASSUME NEW w \in Workers, FirstSeeWins(w) PROVE TypeOK' /\ BatchInLog'
  <2>1. BatchInLog' /\ worker' \in [Workers -> WorkerState]
    BY <1>13, <1>16 DEF FirstSeeWins, ingest
  <2>2. seen' \in [Challenges -> Nat]
    BY <1>15, <1>16 DEF FirstSeeWins, MarkSeen, TypeOK
  <2>3. late' \subseteq Challenges
    BY <1>16 DEF FirstSeeWins, TypeOK
  <2> QED
    BY <1>16, <2>1, <2>2, <2>3 DEF FirstSeeWins, TypeOK, ingest
<1>17. ASSUME NEW w \in Workers, FirstSeeRepeat(w) PROVE TypeOK' /\ BatchInLog'
  BY <1>11, <1>17 DEF FirstSeeRepeat, TypeOK, ingest, effects
<1>18. ASSUME NEW w \in Workers, FirstSeeError(w) PROVE TypeOK' /\ BatchInLog'
  <2>1. BatchInLog' /\ worker' \in [Workers -> WorkerState]
    BY <1>12, <1>18 DEF FirstSeeError, Abandon, ingest
  <2>2. seen' \in [Challenges -> Nat]
    BY <1>15, <1>18 DEF FirstSeeError, MarkSeen, TypeOK
  <2>3. lost' \subseteq Challenges
    BY <1>18 DEF FirstSeeError, TypeOK
  <2> QED
    BY <1>18, <2>1, <2>2, <2>3 DEF FirstSeeError, Fault, Abandon, TypeOK, ingest
<1>19. ASSUME NEW w \in Workers, FirstSeeSentTwice(w) PROVE TypeOK' /\ BatchInLog'
  <2>1. BatchInLog' /\ worker' \in [Workers -> WorkerState] /\ handled' \subseteq DOMAIN clicks
    BY <1>11, <1>19 DEF FirstSeeSentTwice, ingest
  <2>2. seen' \in [Challenges -> Nat]
    BY <1>15, <1>19 DEF FirstSeeSentTwice, MarkSeen, TypeOK
  <2>3. lost' \subseteq Challenges
    BY <1>19 DEF FirstSeeSentTwice, TypeOK
  <2> QED
    BY <1>19, <2>1, <2>2, <2>3 DEF FirstSeeSentTwice, Fault, TypeOK, ingest
<1>20. ASSUME NEW w \in Workers, NEW n \in Nat, Credit(Record(w).ch, n)
       PROVE  credits' \in [Challenges -> Nat]
  <2>1. \A ch \in Challenges : credits[ch] \in Nat /\ credits[ch] + n \in Nat
    BY DEF TypeOK
  <2> QED
    BY <1>20, <2>1 DEF Credit, TypeOK
<1>21. ASSUME NEW w \in Workers, IncrBy(w) PROVE TypeOK' /\ BatchInLog'
  <2>1. BatchInLog' /\ worker' \in [Workers -> WorkerState]
    BY <1>13, <1>21 DEF IncrBy, ingest
  <2>2. credits' \in [Challenges -> Nat]
    BY <1>20, <1>21 DEF IncrBy
  <2> QED
    BY <1>21, <2>1, <2>2 DEF IncrBy, TypeOK, ingest, history
<1>22. ASSUME NEW w \in Workers, IncrByError(w) PROVE TypeOK' /\ BatchInLog'
  <2>1. BatchInLog' /\ worker' \in [Workers -> WorkerState]
    BY <1>12, <1>22 DEF IncrByError, Abandon, ingest
  <2>2. credits' \in [Challenges -> Nat]
    BY <1>20, <1>22 DEF IncrByError, TypeOK
  <2>3. lost' \subseteq Challenges
    BY <1>22 DEF IncrByError, TypeOK, BatchInLog, At
  <2> QED
    BY <1>22, <2>1, <2>2, <2>3 DEF IncrByError, Fault, Abandon, TypeOK, ingest
<1>23. ASSUME NEW w \in Workers, IncrBySentTwice(w) PROVE TypeOK' /\ BatchInLog'
  <2>1. BatchInLog' /\ worker' \in [Workers -> WorkerState]
    BY <1>13, <1>23 DEF IncrBySentTwice, ingest
  <2>2. credits' \in [Challenges -> Nat]
    BY <1>20, <1>23 DEF IncrBySentTwice
  <2>3. repeats' \in [Challenges -> Nat]
    <3>1. \A ch \in Challenges : repeats[ch] + 1 \in Nat
      BY DEF TypeOK
    <3> QED
      BY <1>23, <3>1 DEF IncrBySentTwice, TypeOK
  <2>4. faults' \in Nat
    BY <1>23 DEF IncrBySentTwice, Fault, TypeOK
  <2> QED
    BY <1>23, <2>1, <2>2, <2>3, <2>4 DEF IncrBySentTwice, TypeOK, ingest
<1>24. ASSUME NEW w \in Workers, IncrStats(w) PROVE TypeOK' /\ BatchInLog'
  BY <1>11, <1>24 DEF IncrStats, TypeOK, ingest
<1>25. ASSUME NEW w \in Workers, IncrStatsError(w) PROVE TypeOK' /\ BatchInLog'
  <2>1. BatchInLog' /\ worker' \in [Workers -> WorkerState]
    BY <1>12, <1>25 DEF IncrStatsError, Abandon, ingest
  <2> QED
    BY <1>25, <2>1 DEF IncrStatsError, Fault, Abandon, TypeOK, ingest
<1>26. ASSUME NEW w \in Workers, Commit(w) PROVE TypeOK' /\ BatchInLog'
  <2>1. BatchInLog' /\ worker' \in [Workers -> WorkerState]
    BY <1>12, <1>26 DEF Commit, ingest
  <2>2. committed' \in 0 .. Len(clicks)
    BY <1>0, <1>26 DEF Commit, BatchInLog, TypeOK, WorkerState
  <2> QED
    BY <1>26, <2>1, <2>2 DEF Commit, TypeOK, ingest, effects, history
<1>27. ASSUME NEW w \in Workers, CommitError(w) PROVE TypeOK' /\ BatchInLog'
  <2>1. BatchInLog' /\ worker' \in [Workers -> WorkerState]
    BY <1>12, <1>27 DEF CommitError, ingest
  <2>2. faults' \in Nat
    BY <1>27 DEF CommitError, Fault, TypeOK
  <2> QED
    BY <1>27, <2>1, <2>2 DEF CommitError, TypeOK, ingest, effects, history
<1>28. ASSUME NEW w \in Workers, IncrStatsSentTwice(w) PROVE TypeOK' /\ BatchInLog'
  BY <1>11, <1>28 DEF IncrStatsSentTwice, Fault, TypeOK, ingest
<1>29. CASE UNCHANGED vars
  BY <1>29 DEF vars, TypeOK, BatchInLog, Record
<1> QED
  BY <1>1, <1>2, <1>4, <1>5, <1>6, <1>7, <1>8, <1>9, <1>10, <1>14, <1>16, <1>17,
     <1>18, <1>19, <1>21, <1>22, <1>23, <1>24, <1>25, <1>26, <1>27, <1>28,
     <1>29 DEF Next, Environment, Consume, Misfortune

-----------------------------------------------------------------------------
(* Only the environment moves the clock and the log.                       *)
LEMMA EnvironmentOnly ==
  ASSUME [Next]_vars
  PROVE  \/ Environment
         \/ UNCHANGED <<now, iat, clicks>>
BY DEF Next, Consume, Misfortune, Assign, Restart, Poll, SkipMalformed, FirstSeeWins,
       FirstSeeRepeat, IncrBy, IncrStats, Commit, CommitError, PollError, FirstSeeError,
       FirstSeeSentTwice, IncrByError, IncrBySentTwice, IncrStatsError, IncrStatsSentTwice, Crash,
       vars, ingest

(* Records keep being appended inside their challenge's window.            *)
LEMMA LogStep ==
  ASSUME TypeOK, LogInWindow, [Next]_vars
  PROVE  LogInWindow'
<1>0. DOMAIN clicks = 1 .. Len(clicks) /\ Len(clicks) \in Nat
  BY DEF TypeOK
<1>1. CASE Tick
  BY <1>1 DEF Tick, TypeOK, LogInWindow
<1>2. ASSUME NEW ch \in Challenges, Issue(ch) PROVE LogInWindow'
  BY <1>2 DEF Issue, TypeOK, LogInWindow
<1>3. ASSUME NEW r \in [ch : Challenges \cup {Poison}, at : Nat],
             clicks' = Append(clicks, r), UNCHANGED <<now, iat>>,
             r.ch \in Challenges =>
               iat[r.ch] > 0 /\ iat[r.ch] <= r.at /\ r.at <= iat[r.ch] + Window
      PROVE  LogInWindow'
  <2>1. DOMAIN clicks' = 1 .. Len(clicks) + 1
    BY <1>3 DEF TypeOK
  <2>2. clicks'[Len(clicks) + 1] = r /\ \A o \in 1 .. Len(clicks) : clicks'[o] = clicks[o]
    BY <1>3 DEF TypeOK
  <2>3. \A o \in DOMAIN clicks' : o = Len(clicks) + 1 \/ o \in DOMAIN clicks
    BY <1>0, <2>1
  <2> QED
    BY <1>0, <1>3, <2>2, <2>3 DEF LogInWindow
<1>4. ASSUME NEW ch \in Challenges, Append1(ch) PROVE LogInWindow'
  <2>1. [ch |-> ch, at |-> now] \in [ch : Challenges \cup {Poison}, at : Nat]
    BY DEF TypeOK
  <2>2. iat[ch] > 0 /\ iat[ch] <= now /\ now <= iat[ch] + Window
    BY <1>4 DEF Append1, LogInWindow
  <2> QED
    BY <1>3, <1>4, <2>1, <2>2 DEF Append1
<1>5. CASE AppendPoison
  <2>1. [ch |-> Poison, at |-> now] \in [ch : Challenges \cup {Poison}, at : Nat]
    BY DEF TypeOK
  <2> QED
    BY <1>3, <1>5, <2>1, Distinct DEF AppendPoison
<1>6. CASE UNCHANGED <<now, iat, clicks>>
  BY <1>6 DEF LogInWindow
<1> QED
  BY <1>1, <1>2, <1>4, <1>5, <1>6, EnvironmentOnly DEF Environment

(* A worker that moves to a state other than "incr" wins nothing by it.    *)
LEMMA LeavesIncr ==
  ASSUME TypeOK, NEW w \in Workers, NEW b, b.pc # "incr",
         worker' = [worker EXCEPT ![w] = b], clicks' = clicks
  PROVE  \A v \in Workers, ch \in Challenges :
           Winning(v, ch)' => Winning(v, ch) /\ v # w
<1> SUFFICES ASSUME NEW v \in Workers, NEW ch \in Challenges, Winning(v, ch)'
             PROVE  Winning(v, ch) /\ v # w
  OBVIOUS
<1>1. worker'[w] = b /\ (v # w => worker'[v] = worker[v])
  BY DEF TypeOK
<1>2. v # w
  BY <1>1 DEF Winning, At
<1> QED
  BY <1>1, <1>2 DEF Winning, At, Record

(* A step that credits nothing, makes nobody a winner and takes no seen    *)
(* key away.                                                               *)
LEMMA QuietStep ==
  ASSUME TypeOK, TypeOK', SeenCovers, OneWinner, CreditAtMostOnce,
         UNCHANGED <<credits, repeats>>, late \subseteq late',
         \A ch \in Challenges : seen'[ch] >= seen[ch],
         \A ch \in Challenges : iat[ch] > 0 => iat'[ch] = iat[ch],
         \A v \in Workers, ch \in Challenges : Winning(v, ch)' => Winning(v, ch)
  PROVE  SeenCovers' /\ OneWinner' /\ CreditAtMostOnce'
<1>1. SeenCovers'
  <2> SUFFICES ASSUME NEW ch \in Challenges \ late',
                      credits'[ch] > 0 \/ \E w \in Workers : Winning(w, ch)'
               PROVE  iat'[ch] > 0 /\ seen'[ch] >= iat'[ch] + SeenTTL
    BY DEF SeenCovers
  <2>1. ch \in Challenges \ late
    OBVIOUS
  <2>2. credits[ch] > 0 \/ \E w \in Workers : Winning(w, ch)
    OBVIOUS
  <2>3. iat[ch] > 0 /\ seen[ch] >= iat[ch] + SeenTTL
    BY <2>1, <2>2 DEF SeenCovers
  <2>4. /\ seen[ch] \in Nat /\ seen'[ch] \in Nat /\ iat[ch] \in Nat /\ SeenTTL \in Nat
        /\ seen'[ch] >= seen[ch] /\ iat'[ch] = iat[ch]
    BY <2>3, DedupWindow DEF TypeOK
  <2> QED
    BY <2>3, <2>4
<1>2. OneWinner'
  BY DEF OneWinner
<1>3. CreditAtMostOnce'
  BY DEF CreditAtMostOnce
<1> QED
  BY <1>1, <1>2, <1>3

(* The winner w of FirstSee for ch adds it to the counter n times, the     *)
(* second time and later ones on the client library's account.             *)
LEMMA CreditStep ==
  ASSUME TypeOK, TypeOK', SeenCovers, OneWinner, CreditAtMostOnce,
         NEW w \in Workers, NEW ch \in Challenges, Winning(w, ch),
         NEW n \in {1, 2}, Credit(ch, n),
         repeats' = [repeats EXCEPT ![ch] = @ + (n - 1)],
         UNCHANGED <<seen, iat, late>>,
         \A v \in Workers, c \in Challenges : Winning(v, c)' => Winning(v, c) /\ v # w
  PROVE  SeenCovers' /\ OneWinner' /\ CreditAtMostOnce'
<1>1. ASSUME NEW c \in Challenges \ late, c # ch
      PROVE  credits'[c] = credits[c] /\ repeats'[c] = repeats[c]
  BY <1>1 DEF Credit, TypeOK
<1>2. ASSUME ch \notin late
      PROVE  /\ credits'[ch] = n /\ n <= 1 + repeats'[ch]
             /\ \A v \in Workers : ~Winning(v, ch)'
             /\ iat[ch] > 0 /\ seen[ch] >= iat[ch] + SeenTTL
  <2>1. credits[ch] = 0 /\ \A v \in Workers : Winning(v, ch) => v = w
    BY <1>2 DEF OneWinner
  <2>2. credits'[ch] = n
    BY <2>1 DEF Credit, TypeOK
  <2>3. repeats'[ch] = repeats[ch] + (n - 1) /\ repeats[ch] \in Nat
    BY DEF TypeOK
  <2>4. n <= 1 + repeats'[ch]
    BY <2>3
  <2>5. iat[ch] > 0 /\ seen[ch] >= iat[ch] + SeenTTL
    BY <1>2 DEF SeenCovers
  <2> QED
    BY <2>1, <2>2, <2>4, <2>5
<1>3. SeenCovers'
  BY <1>1, <1>2 DEF SeenCovers
<1>4. OneWinner'
  BY <1>1, <1>2 DEF OneWinner
<1>5. CreditAtMostOnce'
  BY <1>1, <1>2 DEF CreditAtMostOnce
<1> QED
  BY <1>3, <1>4, <1>5

(* FirstSee is won: for a record that is not late, nobody has won before.  *)
LEMMA WinStep ==
  ASSUME TypeOK, TypeOK', BatchInLog, LogInWindow, SeenCovers, OneWinner, CreditAtMostOnce,
         NEW w \in Workers, FirstSeeWins(w)
  PROVE  SeenCovers' /\ OneWinner' /\ CreditAtMostOnce'
<1> DEFINE ch == Record(w).ch
<1>0. ch \in Challenges
  BY DEF FirstSeeWins
<1>1. worker[w].idx \in DOMAIN clicks
  BY DEF FirstSeeWins, BatchInLog, TypeOK, At, WorkerState
<1>2. /\ iat[ch] > 0 /\ iat[ch] <= Record(w).at /\ Record(w).at <= iat[ch] + Window
      /\ Record(w).at \in Nat /\ iat[ch] \in Nat /\ now \in Nat
  <2>1. Record(w) \in [ch : Challenges \cup {Poison}, at : Nat]
    <3>1. clicks \in Seq([ch : Challenges \cup {Poison}, at : Nat])
      BY DEF TypeOK
    <3>2. worker[w].idx \in 1 .. Len(clicks)
      BY <1>1, <3>1
    <3>3. \A o \in 1 .. Len(clicks) : clicks[o] \in [ch : Challenges \cup {Poison}, at : Nat]
      BY <3>1, ElementOfSeq
    <3> QED
      BY <3>2, <3>3 DEF Record
  <2>2. iat[ch] > 0 /\ iat[ch] <= Record(w).at /\ Record(w).at <= iat[ch] + Window
    BY <1>0, <1>1 DEF LogInWindow, Record
  <2>3. Record(w).at \in Nat
    BY <2>1
  <2>4. iat[ch] \in Nat /\ now \in Nat
    BY <1>0 DEF TypeOK
  <2> QED
    BY <2>2, <2>3, <2>4
<1>3. seen'[ch] = now + SeenTTL /\ \A c \in Challenges : c # ch => seen'[c] = seen[c]
  BY <1>0 DEF FirstSeeWins, MarkSeen, TypeOK
<1>4. UNCHANGED <<credits, repeats, iat, clicks>> /\ late \subseteq late'
  BY DEF FirstSeeWins, ingest
<1>5. /\ \A v \in Workers, c \in Challenges : v # w => (Winning(v, c)' <=> Winning(v, c))
      /\ \A c \in Challenges : Winning(w, c)' <=> c = ch
  <2>1. worker'[w] = [worker[w] EXCEPT !.pc = "incr"]
        /\ \A v \in Workers : v # w => worker'[v] = worker[v]
    BY DEF FirstSeeWins, TypeOK
  <2>2. worker'[w].pc = "incr" /\ worker'[w].idx = worker[w].idx
    BY <2>1 DEF TypeOK, WorkerState
  <2> QED
    BY <1>4, <2>1, <2>2 DEF Winning, At, Record
<1>6. ASSUME ch \notin late'
      PROVE  /\ credits[ch] = 0
             /\ \A v \in Workers : ~Winning(v, ch)
             /\ seen'[ch] >= iat[ch] + SeenTTL
  <2>1. now <= Record(w).at + MaxLag
    BY <1>0, <1>2, <1>6, DedupWindow DEF FirstSeeWins
  <2>2. seen[ch] <= now
    <3>1. ~(now < seen[ch])
      BY DEF FirstSeeWins, Present
    <3>2. seen[ch] \in Nat /\ now \in Nat
      BY <1>0 DEF TypeOK
    <3> QED
      BY <3>1, <3>2
  <2>3. ~(seen[ch] >= iat[ch] + SeenTTL)
    <3>1. seen[ch] \in Nat
      BY <1>0 DEF TypeOK
    <3>2. Window \in Nat /\ MaxLag \in Nat /\ SeenTTL \in Nat /\ Window + MaxLag < SeenTTL
      BY DedupWindow
    <3> HIDE DEF ch
    <3> QED
      BY <1>2, <2>1, <2>2, <3>1, <3>2
  <2>4. ch \in Challenges \ late
    BY <1>0, <1>4, <1>6
  <2>5. ~(credits[ch] > 0) /\ \A v \in Workers : ~Winning(v, ch)
    BY <2>3, <2>4 DEF SeenCovers
  <2>6. seen'[ch] >= iat[ch] + SeenTTL
    <3>1. now >= iat[ch]
      BY <1>0 DEF LogInWindow
    <3> QED
      BY <1>2, <1>3, <3>1, DedupWindow
  <2> QED
    BY <1>0, <2>5, <2>6 DEF TypeOK
<1> HIDE DEF ch
<1>7. SeenCovers'
  <2> SUFFICES ASSUME NEW c \in Challenges \ late',
                      credits'[c] > 0 \/ \E v \in Workers : Winning(v, c)'
               PROVE  iat'[c] > 0 /\ seen'[c] >= iat'[c] + SeenTTL
    BY DEF SeenCovers
  <2>1. CASE c = ch
    BY <1>2, <1>4, <1>6, <2>1
  <2>2. CASE c # ch
    <3>1. c \in Challenges \ late
      BY <1>4
    <3>2. credits[c] > 0 \/ \E v \in Workers : Winning(v, c)
      BY <1>4, <1>5, <2>2
    <3> QED
      BY <1>3, <1>4, <2>2, <3>1, <3>2 DEF SeenCovers
  <2> QED
    BY <2>1, <2>2
<1>8. OneWinner'
  <2> SUFFICES ASSUME NEW c \in Challenges \ late', NEW v \in Workers, Winning(v, c)'
               PROVE  /\ credits'[c] = 0
                      /\ \A u \in Workers : Winning(u, c)' => u = v
    BY DEF OneWinner
  <2>1. CASE c = ch
    BY <1>4, <1>5, <1>6, <2>1
  <2>2. CASE c # ch
    BY <1>4, <1>5, <2>2 DEF OneWinner
  <2> QED
    BY <2>1, <2>2
<1>9. CreditAtMostOnce'
  BY <1>4 DEF CreditAtMostOnce
<1> QED
  BY <1>7, <1>8, <1>9

(* Every step keeps the inductive invariant.                               *)
LEMMA InvStep == IInv /\ [Next]_vars => IInv'
<1> SUFFICES ASSUME TypeOK, BatchInLog, LogInWindow, SeenCovers, OneWinner,
                    CreditAtMostOnce, [Next]_vars
             PROVE  IInv'
  BY DEF IInv
<1> DEFINE Safe == SeenCovers /\ OneWinner /\ CreditAtMostOnce
<1>1. TypeOK' /\ BatchInLog'
  BY TypeStep
<1>2. LogInWindow'
  BY LogStep
<1>3. \A ch \in Challenges : seen[ch] \in Nat /\ iat[ch] \in Nat
  BY DEF TypeOK
<1>4. ASSUME NEW w \in Workers, NEW b, b.pc # "incr",
             worker' = [worker EXCEPT ![w] = b],
             UNCHANGED <<iat, clicks, credits, repeats>>, late \subseteq late',
             \A ch \in Challenges : seen'[ch] >= seen[ch]
      PROVE  Safe'
  <2>1. \A v \in Workers, ch \in Challenges : Winning(v, ch)' => Winning(v, ch)
    BY <1>4, LeavesIncr
  <2>2. \A ch \in Challenges : iat[ch] > 0 => iat'[ch] = iat[ch]
    BY <1>4
  <2> QED
    BY <1>1, <1>4, <2>1, <2>2, QuietStep
<1> HIDE DEF Safe
<1>5. ASSUME UNCHANGED seen PROVE \A ch \in Challenges : seen'[ch] >= seen[ch]
  BY <1>3, <1>5
<1>6. ASSUME NEW w \in Workers, worker' = [worker EXCEPT ![w] = Idle(worker[w].pos)],
             UNCHANGED <<iat, clicks, credits, repeats, late>>,
             \A ch \in Challenges : seen'[ch] >= seen[ch]
      PROVE  Safe'
  <2>1. Idle(worker[w].pos).pc # "incr"
    BY DEF Idle
  <2> QED
    BY <1>4, <1>6, <2>1
<1>7. ASSUME NEW w \in Workers, Applied(w),
             UNCHANGED <<iat, clicks, credits, repeats, late>>,
             \A ch \in Challenges : seen'[ch] >= seen[ch]
      PROVE  Safe'
  <2>1. NextRecord(worker[w]).pc # "incr"
    BY NextRecordType DEF TypeOK
  <2>2. worker' = [worker EXCEPT ![w] = NextRecord(worker[w])]
    BY <1>7 DEF Applied
  <2> QED
    BY <1>4, <1>7, <2>1, <2>2
<1>8. ASSUME Environment PROVE Safe'
  <2>1. UNCHANGED <<effects, worker, history>>
    BY <1>8 DEF Environment, Tick, Issue, Append1, AppendPoison
  <2>2. \A ch \in Challenges : iat[ch] > 0 => iat'[ch] = iat[ch]
    <3>1. ASSUME NEW c \in Challenges, Issue(c)
          PROVE  \A ch \in Challenges : iat[ch] > 0 => iat'[ch] = iat[ch]
      BY <1>3, <3>1 DEF Issue, TypeOK
    <3>2. CASE UNCHANGED iat
      BY <3>2
    <3> QED
      BY <1>8, <3>1, <3>2 DEF Environment, Tick, Append1, AppendPoison
  <2>3. \A o \in 1 .. Len(clicks) : clicks'[o] = clicks[o]
    <3>1. ASSUME NEW r, clicks' = Append(clicks, r)
          PROVE  \A o \in 1 .. Len(clicks) : clicks'[o] = clicks[o]
      BY <3>1 DEF TypeOK
    <3>2. CASE UNCHANGED clicks
      BY <3>2
    <3>3. ASSUME NEW c \in Challenges, Append1(c)
          PROVE  \A o \in 1 .. Len(clicks) : clicks'[o] = clicks[o]
      BY <3>1, <3>3 DEF Append1
    <3>4. CASE AppendPoison
      BY <3>1, <3>4 DEF AppendPoison
    <3> QED
      BY <1>8, <3>2, <3>3, <3>4 DEF Environment, Tick, Issue
  <2>4. \A v \in Workers, ch \in Challenges : Winning(v, ch)' => Winning(v, ch)
    <3> SUFFICES ASSUME NEW v \in Workers, NEW ch \in Challenges, Winning(v, ch)'
                 PROVE  Winning(v, ch)
      OBVIOUS
    <3>1. worker' = worker /\ worker[v].pc = "incr"
      BY <2>1 DEF Winning, At
    <3>2. worker[v].idx \in 1 .. Len(clicks)
      BY <3>1 DEF TypeOK, BatchInLog, WorkerState
    <3> QED
      BY <2>3, <3>1, <3>2 DEF Winning, At, Record
  <2>5. UNCHANGED <<credits, repeats, seen, late>>
    BY <2>1 DEF effects, history
  <2>6. late \subseteq late' /\ \A ch \in Challenges : seen'[ch] >= seen[ch]
    BY <1>5, <2>5
  <2>7. UNCHANGED <<credits, repeats>>
    BY <2>5
  <2>8. SeenCovers' /\ OneWinner' /\ CreditAtMostOnce'
    BY <1>1, <2>2, <2>4, <2>6, <2>7, QuietStep
  <2> QED
    BY <2>8 DEF Safe
<1>9. ASSUME NEW w \in Workers, Assign(w) PROVE Safe'
  <2>1. \A v \in Workers : worker'[v].pc = worker[v].pc /\ worker'[v].idx = worker[v].idx
    BY <1>9 DEF Assign, TypeOK, WorkerState
  <2>2. UNCHANGED <<iat, clicks, credits, repeats, seen, late>>
    BY <1>9 DEF Assign, ingest, effects, history
  <2>3. \A v \in Workers, ch \in Challenges : Winning(v, ch)' => Winning(v, ch)
    BY <2>1, <2>2 DEF Winning, At, Record
  <2>4. \A ch \in Challenges : iat[ch] > 0 => iat'[ch] = iat[ch]
    BY <2>2
  <2> QED
    BY <1>1, <1>5, <2>2, <2>3, <2>4, QuietStep DEF Safe
<1>10. ASSUME NEW w \in Workers, Crash(w) PROVE Safe'
  <2>1. UNCHANGED <<iat, clicks, credits, repeats, seen, late>>
    BY <1>10 DEF Crash, ingest, effects, history
  <2>2. worker' = [worker EXCEPT ![w] = Down] /\ Down.pc # "incr"
    BY <1>10 DEF Crash, Down
  <2> QED
    BY <1>4, <1>5, <2>1, <2>2
<1>11. ASSUME NEW w \in Workers, Restart(w) PROVE Safe'
  <2>1. UNCHANGED <<iat, clicks, credits, repeats, seen, late>>
    BY <1>11 DEF Restart, ingest, effects, history
  <2>2. worker' = [worker EXCEPT ![w] = Idle(0)] /\ Idle(0).pc # "incr"
    BY <1>11 DEF Restart, Idle
  <2> QED
    BY <1>4, <1>5, <2>1, <2>2
<1>12. ASSUME NEW w \in Workers, Poll(w) \/ PollError(w) PROVE Safe'
  <2>1. UNCHANGED <<iat, clicks, credits, repeats, seen, late>>
    BY <1>12 DEF Poll, PollError, ingest, effects, history
  <2>2. ASSUME NEW hi, worker' = [worker EXCEPT ![w] =
                 [pc |-> "apply", pos |-> hi, idx |-> worker[w].pos + 1, hi |-> hi]]
        PROVE  Safe'
    <3> DEFINE b == [pc |-> "apply", pos |-> hi, idx |-> worker[w].pos + 1, hi |-> hi]
    <3>1. b.pc # "incr" /\ worker' = [worker EXCEPT ![w] = b]
      BY <2>2
    <3> QED
      BY <1>4, <1>5, <2>1, <3>1
  <2>3. ASSUME NEW hi, At(w, "poll"), worker' = [worker EXCEPT ![w].pos = hi] PROVE Safe'
    <3> DEFINE b == [worker[w] EXCEPT !.pos = hi]
    <3>1. b.pc # "incr" /\ worker' = [worker EXCEPT ![w] = b]
      BY <2>3 DEF At, TypeOK, WorkerState
    <3> HIDE DEF b
    <3> QED
      BY <1>4, <1>5, <2>1, <3>1
  <2> QED
    BY <1>12, <2>2, <2>3 DEF Poll, PollError
<1>13. ASSUME NEW w \in Workers, MarkSeen(Record(w).ch), ~Present(Record(w).ch)
       PROVE  \A ch \in Challenges : seen'[ch] >= seen[ch]
  <2>1. ASSUME Record(w).ch \in Challenges
        PROVE  now + SeenTTL >= seen[Record(w).ch]
    <3>1. ~(now < seen[Record(w).ch])
      BY <1>13 DEF Present
    <3> QED
      BY <1>3, <2>1, <3>1, DedupWindow DEF TypeOK
  <2> QED
    BY <1>3, <1>13, <2>1 DEF MarkSeen, TypeOK
<1>14. ASSUME NEW w \in Workers,
              \/ SkipMalformed(w) \/ FirstSeeRepeat(w)
              \/ IncrStats(w) \/ IncrStatsSentTwice(w)
       PROVE  Safe'
  <2>1. Applied(w) /\ UNCHANGED <<iat, clicks, credits, repeats, seen, late>>
    BY <1>14 DEF SkipMalformed, FirstSeeRepeat, IncrStats, IncrStatsSentTwice, ingest, effects
  <2> QED
    BY <1>5, <1>7, <2>1
<1>15. ASSUME NEW w \in Workers, FirstSeeWins(w) PROVE Safe'
  BY <1>1, <1>15, WinStep DEF Safe
<1>16. ASSUME NEW w \in Workers, FirstSeeError(w) PROVE Safe'
  <2>1. \A ch \in Challenges : seen'[ch] >= seen[ch]
    BY <1>5, <1>13, <1>16 DEF FirstSeeError
  <2> QED
    BY <1>6, <1>16, <2>1 DEF FirstSeeError, Abandon, ingest
<1>17. ASSUME NEW w \in Workers, FirstSeeSentTwice(w) PROVE Safe'
  <2>1. \A ch \in Challenges : seen'[ch] >= seen[ch]
    BY <1>13, <1>17 DEF FirstSeeSentTwice
  <2> QED
    BY <1>7, <1>17, <2>1 DEF FirstSeeSentTwice, ingest
<1>18. ASSUME NEW w \in Workers, IncrStatsError(w) \/ Commit(w) \/ CommitError(w) PROVE Safe'
  <2>1. worker' = [worker EXCEPT ![w] = Idle(worker[w].pos)]
        /\ UNCHANGED <<iat, clicks, credits, repeats, seen, late>>
    BY <1>18 DEF IncrStatsError, Commit, CommitError, Abandon, ingest, effects, history
  <2> QED
    BY <1>5, <1>6, <2>1
<1>19. ASSUME NEW w \in Workers, At(w, "incr"), NEW b, b.pc # "incr",
              worker' = [worker EXCEPT ![w] = b],
              UNCHANGED <<iat, clicks, seen, late>>,
              NEW n \in {1, 2}, Credit(Record(w).ch, n),
              repeats' = [repeats EXCEPT ![Record(w).ch] = @ + (n - 1)]
       PROVE  Safe'
  <2>1. Record(w).ch \in Challenges /\ Winning(w, Record(w).ch)
    BY <1>19 DEF BatchInLog, Winning, At
  <2>2. \A v \in Workers, c \in Challenges : Winning(v, c)' => Winning(v, c) /\ v # w
    BY <1>19, LeavesIncr
  <2> QED
    BY <1>1, <1>19, <2>1, <2>2, CreditStep DEF Safe
<1>20. ASSUME NEW w \in Workers, NEW ch \in Challenges
       PROVE  /\ [repeats EXCEPT ![ch] = @ + (1 - 1)] = repeats
              /\ [repeats EXCEPT ![ch] = @ + (2 - 1)] = [repeats EXCEPT ![ch] = @ + 1]
  BY DEF TypeOK
<1>21. ASSUME NEW w \in Workers, worker' = [worker EXCEPT ![w].pc = "stats"]
       PROVE  /\ worker' = [worker EXCEPT ![w] = [worker[w] EXCEPT !.pc = "stats"]]
              /\ [worker[w] EXCEPT !.pc = "stats"].pc # "incr"
  BY <1>21 DEF TypeOK, WorkerState
<1>22. ASSUME NEW w \in Workers, At(w, "incr") PROVE Record(w).ch \in Challenges
  BY <1>22 DEF BatchInLog, At
<1>23. ASSUME NEW w \in Workers, IncrBy(w) PROVE Safe'
  <2>1. repeats' = [repeats EXCEPT ![Record(w).ch] = @ + (1 - 1)]
    BY <1>20, <1>22, <1>23 DEF IncrBy, history
  <2>2. UNCHANGED <<iat, clicks, seen, late>> /\ At(w, "incr") /\ Credit(Record(w).ch, 1)
    BY <1>23 DEF IncrBy, ingest, history
  <2> DEFINE b == [worker[w] EXCEPT !.pc = "stats"]
  <2>3. worker' = [worker EXCEPT ![w] = b] /\ b.pc # "incr"
    BY <1>21, <1>23 DEF IncrBy
  <2> HIDE DEF b
  <2> QED
    BY <1>19, <2>1, <2>2, <2>3
<1>24. ASSUME NEW w \in Workers, IncrByError(w) PROVE Safe'
  <2>1. worker' = [worker EXCEPT ![w] = Idle(worker[w].pos)]
        /\ UNCHANGED <<iat, clicks, seen, late, repeats>>
    BY <1>24 DEF IncrByError, Abandon, ingest
  <2>2. CASE UNCHANGED credits
    BY <1>5, <1>6, <2>1, <2>2
  <2>3. CASE Credit(Record(w).ch, 1)
    <3>1. repeats' = [repeats EXCEPT ![Record(w).ch] = @ + (1 - 1)]
      BY <1>20, <1>22, <1>24 DEF IncrByError
    <3>2. At(w, "incr")
      BY <1>24 DEF IncrByError
    <3> DEFINE b == Idle(worker[w].pos)
    <3>3. worker' = [worker EXCEPT ![w] = b] /\ b.pc # "incr"
      BY <2>1 DEF Idle
    <3> HIDE DEF b
    <3> QED
      BY <1>19, <2>1, <2>3, <3>1, <3>2, <3>3
  <2> QED
    BY <1>24, <2>2, <2>3 DEF IncrByError
<1>25. ASSUME NEW w \in Workers, IncrBySentTwice(w) PROVE Safe'
  <2>1. repeats' = [repeats EXCEPT ![Record(w).ch] = @ + (2 - 1)]
    BY <1>20, <1>22, <1>25 DEF IncrBySentTwice
  <2>2. UNCHANGED <<iat, clicks, seen, late>> /\ At(w, "incr") /\ Credit(Record(w).ch, 2)
    BY <1>25 DEF IncrBySentTwice, ingest
  <2> DEFINE b == [worker[w] EXCEPT !.pc = "stats"]
  <2>3. worker' = [worker EXCEPT ![w] = b] /\ b.pc # "incr"
    BY <1>21, <1>25 DEF IncrBySentTwice
  <2> HIDE DEF b
  <2> QED
    BY <1>19, <2>1, <2>2, <2>3
<1>26. ASSUME UNCHANGED vars PROVE Safe'
  <2>1. UNCHANGED <<iat, clicks, credits, repeats, seen, late, worker>>
    BY <1>26 DEF vars
  <2> QED
    <3>1. late \subseteq late' /\ \A ch \in Challenges : seen'[ch] >= seen[ch]
      BY <1>5, <2>1
    <3>2. \A ch \in Challenges : iat[ch] > 0 => iat'[ch] = iat[ch]
      BY <2>1
    <3>3. \A v \in Workers, ch \in Challenges : Winning(v, ch)' => Winning(v, ch)
      BY <2>1 DEF Winning, At, Record
    <3>4. UNCHANGED <<credits, repeats>>
      BY <2>1
    <3>5. SeenCovers' /\ OneWinner' /\ CreditAtMostOnce'
      BY <1>1, <3>1, <3>2, <3>3, <3>4, QuietStep
    <3> QED
      BY <3>5 DEF Safe
<1>27. Safe'
  <2>1. ASSUME NEW w \in Workers, Consume(w) PROVE Safe'
    BY <1>12, <1>14, <1>15, <1>18, <1>23, <2>1 DEF Consume
  <2>2. ASSUME NEW w \in Workers, Misfortune(w) PROVE Safe'
    BY <1>10, <1>12, <1>14, <1>16, <1>17, <1>18, <1>24, <1>25, <2>2 DEF Misfortune
  <2>3. ASSUME Next PROVE Safe'
    BY <1>8, <1>9, <1>11, <2>1, <2>2, <2>3 DEF Next
  <2> QED
    BY <1>26, <2>3
<1> QED
  BY <1>1, <1>2, <1>27 DEF IInv, Safe

-----------------------------------------------------------------------------
(* The inductive invariant holds in every reachable state.                 *)
THEOREM Inductive == Spec => []IInv
BY InitInv, InvStep, PTL DEF Spec

(* Type correctness, for every value of the constants.                     *)
THEOREM TypeCorrect == Spec => []TypeOK
<1>1. IInv => TypeOK
  BY DEF IInv
<1> QED
  BY <1>1, Inductive, PTL

(* Each challenge is added to counter:total at most once -- plus the       *)
(* INCRBYs the client library resent -- for any number of workers, crashes,*)
(* rebalances, redeliveries and errors, while records are looked up within *)
(* MaxLag of their append.                                                 *)
THEOREM CreditedAtMostOnce == Spec => []CreditAtMostOnce
<1>1. IInv => CreditAtMostOnce
  BY DEF IInv
<1> QED
  BY <1>1, Inductive, PTL

-----------------------------------------------------------------------------
(* The at-least-once half.  A seen key is only ever set by a FirstSee      *)
(* whose worker then owes the INCRBY (SeenCounted): it adds the click, or  *)
(* is seen to fail between the two calls and the challenge is in lost.  A  *)
(* record is handled because its key is there already, or because its      *)
(* INCRBY is done (StatsCounted).                                          *)

(* At the start no key is set and nothing is handled.                      *)
LEMMA LInitInv == Init => LInv
BY DEF Init, LInv, SeenCounted, StatsCounted, HandledCredited, At, Idle

(* A step of one worker that takes back nothing, pays or writes off what   *)
(* the worker owed, and accounts for the keys it sets and the records it   *)
(* has handled.                                                            *)
LEMMA AccountStep ==
  ASSUME TypeOK, TypeOK', LInv, NEW w \in Workers, NEW b,
         worker' = [worker EXCEPT ![w] = b], clicks' = clicks,
         \A ch \in Challenges : credits'[ch] >= credits[ch],
         lost \subseteq lost',
         \A ch \in Challenges : Winning(w, ch) => Accounted(ch)',
         \A ch \in Challenges : seen'[ch] # seen[ch] => Accounted(ch)',
         b.pc = "stats" =>
           \/ At(w, "stats") /\ b.idx = worker[w].idx
           \/ clicks[b.idx].ch \in Challenges /\ credits'[clicks[b.idx].ch] > 0,
         \A o \in handled' \ handled :
           clicks[o].ch \in Challenges => Accounted(clicks[o].ch)'
  PROVE  LInv'
<1>0. worker'[w] = b /\ \A v \in Workers : v # w => worker'[v] = worker[v]
  BY DEF TypeOK
<1>1. ASSUME NEW ch \in Challenges, credits[ch] > 0 PROVE credits'[ch] > 0
  <2>1. credits[ch] \in Nat /\ credits'[ch] \in Nat /\ credits'[ch] >= credits[ch]
    BY DEF TypeOK
  <2> QED
    BY <1>1, <2>1
<1>2. ASSUME NEW ch \in Challenges, Accounted(ch) PROVE Accounted(ch)'
  <2>1. CASE credits[ch] > 0 \/ ch \in lost
    BY <1>1, <2>1 DEF Accounted, Counted
  <2>2. ASSUME NEW v \in Workers, Winning(v, ch) PROVE Accounted(ch)'
    <3>1. CASE v = w
      BY <2>2, <3>1
    <3>2. CASE v # w
      <4>1. Winning(v, ch)'
        BY <1>0, <2>2, <3>2 DEF Winning, At, Record
      <4> QED
        BY <4>1 DEF Accounted, Counted
    <3> QED
      BY <3>1, <3>2
  <2> QED
    BY <1>2, <2>1, <2>2 DEF Accounted, Counted
<1>3. SeenCounted'
  BY <1>2 DEF SeenCounted, LInv
<1>4. StatsCounted'
  <2> SUFFICES ASSUME NEW v \in Workers, At(v, "stats")'
               PROVE  Record(v)'.ch \in Challenges /\ credits'[Record(v)'.ch] > 0
    BY DEF StatsCounted
  <2>1. CASE v # w
    <3>1. At(v, "stats") /\ Record(v)' = Record(v)
      BY <1>0, <2>1 DEF At, Record
    <3> QED
      BY <1>1, <3>1 DEF StatsCounted, LInv
  <2>2. CASE v = w
    <3>1. b.pc = "stats" /\ Record(v)' = clicks[b.idx]
      BY <1>0, <2>2 DEF At, Record
    <3>2. CASE At(w, "stats") /\ b.idx = worker[w].idx
      BY <1>1, <2>2, <3>1, <3>2 DEF StatsCounted, LInv, Record
    <3> QED
      BY <3>1, <3>2
  <2> QED
    BY <2>1, <2>2
<1>5. HandledCredited'
  BY <1>2 DEF HandledCredited, LInv
<1> QED
  BY <1>3, <1>4, <1>5 DEF LInv

(* The same for a step that sets no key, adds nothing and handles nothing, *)
(* of a worker that owes nothing.                                          *)
LEMMA IdleStep ==
  ASSUME TypeOK, TypeOK', LInv, NEW w \in Workers, NEW b,
         worker' = [worker EXCEPT ![w] = b],
         UNCHANGED <<clicks, seen, credits, handled>>, lost \subseteq lost',
         ~At(w, "incr"), b.pc # "stats"
  PROVE  LInv'
<1>1. \A ch \in Challenges : credits'[ch] >= credits[ch]
  BY DEF TypeOK
<1>2. \A ch \in Challenges : ~Winning(w, ch)
  BY DEF Winning
<1> QED
  BY <1>1, <1>2, AccountStep

(* Every step keeps the account.                                           *)
LEMMA LInvStep == IInv /\ IInv' /\ LInv /\ [Next]_vars => LInv'
<1> SUFFICES ASSUME TypeOK, BatchInLog, TypeOK', LInv, [Next]_vars PROVE LInv'
  BY DEF IInv
<1>0. DOMAIN clicks = 1 .. Len(clicks) /\ Len(clicks) \in Nat
  BY DEF TypeOK
<1>1. ASSUME Environment PROVE LInv'
  <2>1. UNCHANGED <<seen, credits, worker, handled, lost>>
    BY <1>1 DEF Environment, Tick, Issue, Append1, AppendPoison, effects, history
  <2>2. \A o \in DOMAIN clicks : clicks'[o] = clicks[o]
    <3>1. ASSUME NEW r, clicks' = Append(clicks, r)
          PROVE  \A o \in DOMAIN clicks : clicks'[o] = clicks[o]
      BY <1>0, <3>1 DEF TypeOK
    <3>2. ASSUME NEW c \in Challenges, Append1(c)
          PROVE  \A o \in DOMAIN clicks : clicks'[o] = clicks[o]
      BY <3>1, <3>2 DEF Append1
    <3>3. CASE AppendPoison
      BY <3>1, <3>3 DEF AppendPoison
    <3>4. CASE UNCHANGED clicks
      BY <3>4
    <3> QED
      BY <1>1, <3>2, <3>3, <3>4 DEF Environment, Tick, Issue
  <2>3. \A v \in Workers : worker[v].pc \in {"incr", "stats"} => Record(v)' = Record(v)
    <3> SUFFICES ASSUME NEW v \in Workers, worker[v].pc \in {"incr", "stats"}
                 PROVE  Record(v)' = Record(v)
      OBVIOUS
    <3>1. worker[v].idx \in 1 .. worker[v].hi /\ worker[v].hi <= Len(clicks)
          /\ worker[v].hi \in Nat
      BY DEF BatchInLog, TypeOK, WorkerState
    <3>2. worker[v].idx \in DOMAIN clicks
      BY <1>0, <3>1
    <3> QED
      BY <2>1, <2>2, <3>2 DEF Record
  <2>4. \A ch \in Challenges : Accounted(ch) => Accounted(ch)'
    BY <2>1, <2>3 DEF Accounted, Counted, Winning, At
  <2>5. SeenCounted'
    BY <2>1, <2>4 DEF SeenCounted, LInv
  <2>6. StatsCounted'
    BY <2>1, <2>3 DEF StatsCounted, LInv, At
  <2>7. HandledCredited'
    <3>1. \A o \in handled : clicks'[o] = clicks[o]
      BY <2>2 DEF TypeOK
    <3> QED
      BY <2>1, <2>4, <3>1 DEF HandledCredited, LInv
  <2> QED
    BY <2>5, <2>6, <2>7 DEF LInv
<1>2. ASSUME NEW w \in Workers, Assign(w) PROVE LInv'
  <2> DEFINE b == [worker[w] EXCEPT !.pos = committed]
  <2>1. b.pc = worker[w].pc /\ b.idx = worker[w].idx
    BY DEF TypeOK, WorkerState
  <2>2. worker' = [worker EXCEPT ![w] = b]
    BY <1>2 DEF Assign, TypeOK
  <2>3. UNCHANGED <<clicks, seen, credits, handled, lost>>
    BY <1>2 DEF Assign, ingest, effects, history
  <2> HIDE DEF b
  <2>4. \A ch \in Challenges : Winning(w, ch) => Accounted(ch)'
    <3>1. worker'[w] = b
      BY <2>2 DEF TypeOK
    <3> QED
      BY <2>1, <2>3, <3>1 DEF Accounted, Counted, Winning, At, Record
  <2>5. \A ch \in Challenges : credits'[ch] >= credits[ch]
    BY <2>3 DEF TypeOK
  <2> QED
    BY <2>1, <2>2, <2>3, <2>4, <2>5, AccountStep DEF At
<1>3. ASSUME NEW w \in Workers, Poll(w) PROVE LInv'
  <2>1. UNCHANGED <<clicks, seen, credits, handled, lost>> /\ ~At(w, "incr")
    BY <1>3 DEF Poll, ingest, effects, history, At
  <2>2. PICK hi : worker' = [worker EXCEPT ![w] =
          [pc |-> "apply", pos |-> hi, idx |-> worker[w].pos + 1, hi |-> hi]]
    BY <1>3 DEF Poll
  <2> DEFINE b == [pc |-> "apply", pos |-> hi, idx |-> worker[w].pos + 1, hi |-> hi]
  <2>3. worker' = [worker EXCEPT ![w] = b] /\ b.pc # "stats"
    BY <2>2
  <2> HIDE DEF b
  <2> QED
    BY <2>1, <2>3, IdleStep
<1>4. ASSUME NEW w \in Workers, PollError(w) PROVE LInv'
  <2>1. UNCHANGED <<clicks, seen, credits, handled, lost>> /\ At(w, "poll")
    BY <1>4 DEF PollError, ingest, effects, history
  <2>2. PICK hi : worker' = [worker EXCEPT ![w].pos = hi]
    BY <1>4 DEF PollError
  <2> DEFINE b == [worker[w] EXCEPT !.pos = hi]
  <2>3. worker' = [worker EXCEPT ![w] = b] /\ b.pc = worker[w].pc
    BY <2>2 DEF TypeOK, WorkerState
  <2> HIDE DEF b
  <2> QED
    BY <2>1, <2>3, IdleStep DEF At
<1>5. ASSUME NEW w \in Workers, Restart(w) PROVE LInv'
  <2>1. UNCHANGED <<clicks, seen, credits, handled, lost>> /\ ~At(w, "incr")
        /\ worker' = [worker EXCEPT ![w] = Idle(0)] /\ Idle(0).pc # "stats"
    BY <1>5 DEF Restart, ingest, effects, history, At, Idle
  <2> QED
    BY <2>1, IdleStep
<1>6. ASSUME NEW w \in Workers, Commit(w) \/ CommitError(w) \/ IncrStatsError(w) PROVE LInv'
  <2>1. UNCHANGED <<clicks, seen, credits, handled, lost>> /\ ~At(w, "incr")
        /\ worker' = [worker EXCEPT ![w] = Idle(worker[w].pos)]
    BY <1>6 DEF Commit, CommitError, IncrStatsError, Abandon, ingest, effects, history, At
  <2>2. Idle(worker[w].pos).pc # "stats"
    BY DEF Idle
  <2> QED
    BY <2>1, <2>2, IdleStep
<1>7. ASSUME NEW w \in Workers, At(w, "incr") PROVE Record(w).ch \in Challenges
  BY <1>7 DEF BatchInLog, At
<1>8. ASSUME NEW w \in Workers, Crash(w) PROVE LInv'
  <2>1. UNCHANGED <<clicks, seen, credits, handled>>
        /\ worker' = [worker EXCEPT ![w] = Down] /\ Down.pc # "stats"
    BY <1>8 DEF Crash, ingest, effects, Down
  <2>2. \A ch \in Challenges : Winning(w, ch) => ch \in lost'
    BY <1>8 DEF Crash, Winning
  <2>3. \A ch \in Challenges : Winning(w, ch) => Accounted(ch)'
    BY <2>2 DEF Accounted
  <2>4. lost \subseteq lost' /\ \A ch \in Challenges : credits'[ch] >= credits[ch]
    BY <1>8, <2>1 DEF Crash, TypeOK
  <2> QED
    BY <2>1, <2>3, <2>4, AccountStep
<1>9. ASSUME NEW w \in Workers, At(w, "apply") \/ At(w, "stats"), Applied(w),
             UNCHANGED <<clicks, credits>>, lost \subseteq lost',
             \A ch \in Challenges : seen'[ch] # seen[ch] => ch \in lost',
             \A ch \in Challenges : Record(w).ch = ch => Accounted(ch)'
      PROVE  LInv'
  <2> DEFINE b == NextRecord(worker[w])
  <2>1. worker' = [worker EXCEPT ![w] = b] /\ handled' = handled \cup {worker[w].idx}
    BY <1>9 DEF Applied
  <2>2. b.pc # "stats"
    BY NextRecordType DEF TypeOK
  <2> HIDE DEF b
  <2>3. \A ch \in Challenges : seen'[ch] # seen[ch] => Accounted(ch)'
    BY <1>9 DEF Accounted
  <2>4. \A ch \in Challenges : ~Winning(w, ch)
    BY <1>9 DEF Winning, At
  <2>5. \A ch \in Challenges : credits'[ch] >= credits[ch]
    BY <1>9 DEF TypeOK
  <2>6. \A o \in handled' \ handled :
          clicks[o].ch \in Challenges => Accounted(clicks[o].ch)'
    BY <1>9, <2>1 DEF Record
  <2> QED
    BY <1>9, <2>1, <2>2, <2>3, <2>4, <2>5, <2>6, AccountStep
<1>10. ASSUME NEW w \in Workers, SkipMalformed(w) PROVE LInv'
  <2>1. Record(w).ch \notin Challenges
    BY <1>10, Distinct DEF SkipMalformed
  <2> QED
    BY <1>9, <1>10, <2>1 DEF SkipMalformed, ingest, effects
<1>11. ASSUME NEW w \in Workers, FirstSeeRepeat(w) PROVE LInv'
  <2>1. seen[Record(w).ch] > 0
    <3>1. now < seen[Record(w).ch] /\ Record(w).ch \in Challenges
      BY <1>11 DEF FirstSeeRepeat, Present
    <3>2. now \in Nat /\ seen[Record(w).ch] \in Nat
      BY <3>1 DEF TypeOK
    <3> QED
      BY <3>1, <3>2
  <2>2. credits[Record(w).ch] > 0 \/ Record(w).ch \in lost
        \/ \E v \in Workers : Winning(v, Record(w).ch)
    BY <1>11, <2>1 DEF FirstSeeRepeat, LInv, SeenCounted, Accounted, Counted
  <2>3. ASSUME NEW v \in Workers, NEW ch \in Challenges, Winning(v, ch)
        PROVE  Winning(v, ch)'
    <3>1. v # w
      BY <1>11, <2>3 DEF FirstSeeRepeat, Winning, At
    <3>2. worker'[v] = worker[v] /\ clicks' = clicks
      BY <1>11, <3>1 DEF FirstSeeRepeat, Applied, TypeOK, ingest
    <3> QED
      BY <2>3, <3>2 DEF Winning, At, Record
  <2>4. UNCHANGED <<clicks, credits, seen, lost>> /\ Applied(w) /\ At(w, "apply")
        /\ Record(w).ch \in Challenges
    BY <1>11 DEF FirstSeeRepeat, ingest, effects
  <2>5. \A ch \in Challenges : Record(w).ch = ch => Accounted(ch)'
    BY <2>2, <2>3, <2>4 DEF Accounted, Counted
  <2> QED
    BY <1>9, <2>4, <2>5
<1>12. ASSUME NEW w \in Workers, FirstSeeSentTwice(w) PROVE LInv'
  <2>1. \A ch \in Challenges : seen'[ch] # seen[ch] => ch \in lost'
    BY <1>12 DEF FirstSeeSentTwice, MarkSeen, TypeOK
  <2>2. \A ch \in Challenges : Record(w).ch = ch => Accounted(ch)'
    BY <1>12 DEF FirstSeeSentTwice, Accounted
  <2> QED
    BY <1>9, <1>12, <2>1, <2>2 DEF FirstSeeSentTwice, ingest
<1>13. ASSUME NEW w \in Workers, IncrStats(w) \/ IncrStatsSentTwice(w) PROVE LInv'
  <2>1. UNCHANGED <<clicks, credits, seen, lost>> /\ Applied(w) /\ At(w, "stats")
    BY <1>13 DEF IncrStats, IncrStatsSentTwice, ingest
  <2>2. credits[Record(w).ch] > 0
    BY <2>1 DEF LInv, StatsCounted
  <2>3. \A ch \in Challenges : Record(w).ch = ch => Accounted(ch)'
    BY <2>1, <2>2 DEF Accounted, Counted
  <2> QED
    BY <1>9, <2>1, <2>3
<1>14. ASSUME NEW w \in Workers, FirstSeeWins(w) PROVE LInv'
  <2> DEFINE b == [worker[w] EXCEPT !.pc = "incr"]
  <2>1. worker' = [worker EXCEPT ![w] = b] /\ worker'[w] = b
    BY <1>14 DEF FirstSeeWins, TypeOK
  <2>2. b.pc = "incr" /\ b.idx = worker[w].idx
    BY DEF TypeOK, WorkerState
  <2> HIDE DEF b
  <2>3. UNCHANGED <<clicks, credits, handled, lost>> /\ At(w, "apply")
        /\ Record(w).ch \in Challenges
    BY <1>14 DEF FirstSeeWins, ingest
  <2>4. \A ch \in Challenges : seen'[ch] # seen[ch] => ch = Record(w).ch
    BY <1>14 DEF FirstSeeWins, MarkSeen, TypeOK
  <2>5. \A ch \in Challenges : ch = Record(w).ch => Winning(w, ch)'
    BY <2>1, <2>2, <2>3 DEF Winning, At, Record
  <2>6. \A ch \in Challenges : seen'[ch] # seen[ch] => Accounted(ch)'
    BY <2>4, <2>5 DEF Accounted, Counted
  <2>7. \A ch \in Challenges : ~Winning(w, ch) /\ credits'[ch] >= credits[ch]
    BY <2>3 DEF Winning, At, TypeOK
  <2> QED
    BY <2>1, <2>2, <2>3, <2>6, <2>7, AccountStep
<1>15. ASSUME NEW w \in Workers, FirstSeeError(w) PROVE LInv'
  <2>1. UNCHANGED <<clicks, credits, handled>> /\ At(w, "apply")
        /\ worker' = [worker EXCEPT ![w] = Idle(worker[w].pos)]
    BY <1>15 DEF FirstSeeError, Abandon, ingest
  <2>2. lost \subseteq lost' /\ \A ch \in Challenges : seen'[ch] # seen[ch] => ch \in lost'
    BY <1>15 DEF FirstSeeError, MarkSeen, TypeOK
  <2>3. Idle(worker[w].pos).pc # "stats"
    BY DEF Idle
  <2>4. \A ch \in Challenges : ~Winning(w, ch) /\ credits'[ch] >= credits[ch]
    BY <2>1 DEF Winning, At, TypeOK
  <2>5. \A ch \in Challenges : seen'[ch] # seen[ch] => Accounted(ch)'
    BY <2>2 DEF Accounted
  <2> QED
    BY <2>1, <2>2, <2>3, <2>4, <2>5, AccountStep
<1>16. ASSUME NEW w \in Workers, At(w, "incr"), NEW n \in {1, 2}, Credit(Record(w).ch, n)
       PROVE  /\ \A ch \in Challenges : credits'[ch] >= credits[ch]
              /\ \A ch \in Challenges : Record(w).ch = ch => credits'[ch] > 0
              /\ \A ch \in Challenges : Winning(w, ch) => Accounted(ch)'
  <2>1. \A ch \in Challenges : credits[ch] \in Nat
    BY DEF TypeOK
  <2>2. \A ch \in Challenges :
          credits'[ch] = IF ch = Record(w).ch THEN credits[ch] + n ELSE credits[ch]
    BY <1>16 DEF Credit, TypeOK
  <2>3. \A ch \in Challenges : credits'[ch] >= credits[ch]
    BY <2>1, <2>2
  <2>4. \A ch \in Challenges : Record(w).ch = ch => credits'[ch] > 0
    BY <2>1, <2>2
  <2> QED
    BY <2>3, <2>4 DEF Winning, Accounted, Counted
<1>17. ASSUME NEW w \in Workers, IncrBy(w) \/ IncrBySentTwice(w) PROVE LInv'
  <2> DEFINE b == [worker[w] EXCEPT !.pc = "stats"]
  <2>1. worker' = [worker EXCEPT ![w] = b]
    BY <1>17 DEF IncrBy, IncrBySentTwice, TypeOK
  <2>2. b.idx = worker[w].idx
    BY DEF TypeOK, WorkerState
  <2> HIDE DEF b
  <2>3. UNCHANGED <<clicks, seen, handled, lost>> /\ At(w, "incr")
    BY <1>17 DEF IncrBy, IncrBySentTwice, ingest, history
  <2>4. Credit(Record(w).ch, 1) \/ Credit(Record(w).ch, 2)
    BY <1>17 DEF IncrBy, IncrBySentTwice
  <2>5. /\ \A ch \in Challenges : credits'[ch] >= credits[ch]
        /\ \A ch \in Challenges : Record(w).ch = ch => credits'[ch] > 0
        /\ \A ch \in Challenges : Winning(w, ch) => Accounted(ch)'
    BY <1>16, <2>3, <2>4
  <2>6. clicks[b.idx].ch \in Challenges /\ credits'[clicks[b.idx].ch] > 0
    BY <1>7, <2>2, <2>3, <2>5 DEF Record
  <2> QED
    BY <2>1, <2>3, <2>5, <2>6, AccountStep
<1>18. ASSUME NEW w \in Workers, IncrByError(w) PROVE LInv'
  <2>1. UNCHANGED <<clicks, seen, handled>> /\ At(w, "incr") /\ lost \subseteq lost'
        /\ worker' = [worker EXCEPT ![w] = Idle(worker[w].pos)]
    BY <1>18 DEF IncrByError, Abandon, ingest
  <2>2. Idle(worker[w].pos).pc # "stats"
    BY DEF Idle
  <2>3. /\ \A ch \in Challenges : credits'[ch] >= credits[ch]
        /\ \A ch \in Challenges : Winning(w, ch) => Accounted(ch)'
    <3>1. CASE UNCHANGED credits /\ Record(w).ch \in lost'
      BY <3>1 DEF Winning, Accounted, TypeOK
    <3>2. CASE Credit(Record(w).ch, 1)
      BY <1>16, <2>1, <3>2
    <3> QED
      BY <1>18, <3>1, <3>2 DEF IncrByError
  <2> QED
    BY <2>1, <2>2, <2>3, AccountStep
<1>19. CASE UNCHANGED vars
  BY <1>19 DEF vars, LInv, SeenCounted, StatsCounted, HandledCredited, Accounted,
     Counted, Winning, At, Record
<1> QED
  BY <1>1, <1>2, <1>3, <1>4, <1>5, <1>6, <1>8, <1>10, <1>11, <1>12, <1>13, <1>14,
     <1>15, <1>17, <1>18, <1>19 DEF Next, Consume, Misfortune

(* A record that was handled is in counter:total, or the worker that owes  *)
(* it is about to add it, or one was seen to fail between its SET NX and   *)
(* its INCRBY: there is no other way for the group to lose a click it has  *)
(* handled, with any number of workers, crashes, rebalances and errors.    *)
THEOREM HandledIsCredited == Spec => []HandledCredited
<1>1. LInv => HandledCredited
  BY DEF LInv
<1> QED
  BY <1>1, Inductive, LInitInv, LInvStep, PTL DEF Spec

-----------------------------------------------------------------------------
(* Sums.                                                                   *)

(* The fold as a recursive function on the subsets of the domain.          *)
FirstOf(s) == CHOOSE x \in s : TRUE
SumBody(f, g, s) == IF s = {} THEN 0 ELSE f[FirstOf(s)] + g[s \ {FirstOf(s)}]
SumIter(f) == CHOOSE g : g = [s \in SUBSET DOMAIN f |-> SumBody(f, g, s)]

(* SumFunction is that function.                                           *)
LEMMA FoldIsSum == ASSUME NEW f PROVE SumFunction(f) = SumIter(f)[DOMAIN f]
BY DEF SumFunction, SumFunctionOnSet, FoldFunctionOnSet, MapThenFoldSet, SumIter, SumBody, FirstOf

(* Induction over the subsets of a finite set; P is the set of those that  *)
(* have the property.                                                      *)
LEMMA SubsetInduction ==
  ASSUME NEW S, IsFiniteSet(S), NEW P,
         \A s \in SUBSET S : (\A x \in s : s \ {x} \in P) => s \in P
  PROVE  \A s \in SUBSET S : s \in P
<1> DEFINE Bad == (SUBSET S) \ P
<1>0. IsWellFoundedOn(StrictSubsetOrdering(S), FiniteSubsetsOf(S))
  BY FS_StrictSubsetOrderingWellFounded, Zenon
<1>1. IsWellFoundedOn(StrictSubsetOrdering(S), SUBSET S)
  <2>1. FiniteSubsetsOf(S) = SUBSET S
    BY FS_FiniteSubsetsOfFinite, Zenon
  <2> QED
    BY <1>0, <2>1, Zenon
<1>2. ASSUME NEW s \in Bad, \A t \in Bad : ~(<<t, s>> \in StrictSubsetOrdering(S))
      PROVE  FALSE
  <2>1. ASSUME NEW x \in s PROVE s \ {x} \in P
    <3>1. s \ {x} \in SUBSET S /\ s \ {x} \subseteq s /\ s \ {x} # s /\ s \in SUBSET S
      OBVIOUS
    <3>2. <<s \ {x}, s>> \in StrictSubsetOrdering(S)
      <4>1. <<s \ {x}, s>> \in (SUBSET S) \X (SUBSET S)
        BY <3>1
      <4> HIDE DEF Bad
      <4> QED
        BY <3>1, <4>1, Zenon DEF StrictSubsetOrdering
    <3>3. s \ {x} \notin Bad
      BY <1>2, <3>2
    <3> QED
      BY <3>1, <3>3
  <2> QED
    BY <2>1
<1>3. ASSUME Bad # {} PROVE \E s \in Bad : \A t \in Bad : ~(<<t, s>> \in StrictSubsetOrdering(S))
  <2>1. Bad \subseteq SUBSET S
    OBVIOUS
  <2> HIDE DEF Bad
  <2> QED
   BY <1>1, <1>3, <2>1, WFMin, Zenon
<1>4. Bad = {}
  <2> HIDE DEF Bad
  <2> QED
    BY <1>2, <1>3, Zenon
<1> QED
  BY <1>4

(* A set of naturals has a least element.                                  *)
LEMMA LeastNat ==
  ASSUME NEW T \in SUBSET Nat, T # {}
  PROVE  \E m \in T : \A k \in T : m <= k
<1>1. IsWellFoundedOn(OpToRel(<, Nat), Nat)
  BY NatLessThanWellFounded
<1>2. \E m \in T : \A k \in T : ~(<<k, m>> \in OpToRel(<, Nat))
  BY <1>1, WFMin, Zenon
<1>3. \A k, m \in Nat : ~(<<k, m>> \in OpToRel(<, Nat)) => m <= k
  BY DEF OpToRel
<1> QED
  BY <1>2, <1>3

(* Induction over the naturals, with a set for the property.               *)
LEMMA NatSetInduction ==
  ASSUME NEW P, 0 \in P, \A n \in Nat : n \in P => n + 1 \in P
  PROVE  \A n \in Nat : n \in P
<1> DEFINE Bad == Nat \ P
<1> SUFFICES ASSUME Bad # {} PROVE FALSE
  OBVIOUS
<1>1. PICK m \in Bad : \A k \in Bad : m <= k
  BY LeastNat
<1>2. m # 0 /\ m - 1 \in Nat /\ m - 1 \notin Bad
  BY <1>1
<1> QED
  BY <1>1, <1>2

(* The recursive function is one: it satisfies its equation, for it can be *)
(* built up by the size of the subsets.                                    *)
LEMMA SumDefined ==
  ASSUME NEW f, IsFiniteSet(DOMAIN f)
  PROVE  \A s \in SUBSET DOMAIN f : SumIter(f)[s] = SumBody(f, SumIter(f), s)
<1> DEFINE S == DOMAIN f
           Small(n) == {s \in SUBSET S : Cardinality(s) <= n}
           Good == {n \in Nat : \E g : g = [s \in Small(n) |-> SumBody(f, g, s)]}
<1>0. \A s \in SUBSET S : IsFiniteSet(s) /\ Cardinality(s) \in Nat
  BY FS_Subset, FS_CardinalityType
<1>1. 0 \in Good
  <2> DEFINE g == [s \in Small(0) |-> 0]
  <2>1. \A s \in Small(0) : s = {}
    BY <1>0, FS_EmptySet
  <2>2. g = [s \in Small(0) |-> SumBody(f, g, s)]
    BY <2>1 DEF SumBody
  <2> HIDE DEF g, Small
  <2> QED
    BY <2>2
<1>2. ASSUME NEW n \in Nat, n \in Good PROVE n + 1 \in Good
  <2>1. PICK g : g = [s \in Small(n) |-> SumBody(f, g, s)]
    BY <1>2
  <2> DEFINE h == [s \in Small(n + 1) |-> SumBody(f, g, s)]
  <2>2. ASSUME NEW s \in Small(n + 1) PROVE SumBody(f, g, s) = SumBody(f, h, s)
    <3>1. CASE s = {}
      BY <3>1 DEF SumBody
    <3>2. CASE s # {}
      <4> DEFINE t == s \ {FirstOf(s)}
      <4>1. FirstOf(s) \in s
        BY <3>2 DEF FirstOf
      <4>2. t \in Small(n) /\ t \in Small(n + 1)
        <5>1. t \in SUBSET S
          OBVIOUS
        <5>2. Cardinality(t) = Cardinality(s) - 1
          BY <1>0, <4>1, FS_RemoveElement
        <5> QED
          BY <1>0, <5>1, <5>2
      <4> HIDE DEF t, Small
      <4>3. g[t] = SumBody(f, g, t)
        BY <2>1, <4>2
      <4>4. h[t] = SumBody(f, g, t)
        BY <4>2
      <4> QED
        BY <4>3, <4>4 DEF SumBody, t
    <3> QED
      BY <3>1, <3>2
  <2> HIDE DEF Small
  <2>3. h = [s \in Small(n + 1) |-> SumBody(f, h, s)]
    BY <2>2
  <2> HIDE DEF h
  <2> QED
    BY <2>3
<1>3. \A n \in Nat : n \in Good
  <2> HIDE DEF Good
  <2> QED
    BY <1>1, <1>2, NatSetInduction
<1>4. Cardinality(S) \in Good /\ Small(Cardinality(S)) = SUBSET S
  BY <1>0, <1>3, FS_Subset
<1>5. \E g : g = [s \in SUBSET S |-> SumBody(f, g, s)]
  <2> HIDE DEF Small
  <2> QED
    BY <1>4
<1>6. SumIter(f) = [s \in SUBSET S |-> SumBody(f, SumIter(f), s)]
  BY <1>5, Zenon DEF SumIter
<1> HIDE DEF S
<1> QED
  BY <1>6 DEF S

(* A sum of naturals is a natural.                                         *)
LEMMA SumType ==
  ASSUME NEW S, IsFiniteSet(S), NEW f \in [S -> Nat]
  PROVE  \A s \in SUBSET S : SumIter(f)[s] \in Nat
<1> DEFINE P == {s \in SUBSET S : SumIter(f)[s] \in Nat}
<1>1. ASSUME NEW s \in SUBSET S, \A x \in s : s \ {x} \in P PROVE s \in P
  <2>1. SumIter(f)[s] = SumBody(f, SumIter(f), s)
    BY SumDefined
  <2>2. CASE s = {}
    BY <2>1, <2>2 DEF SumBody
  <2>3. CASE s # {}
    <3>1. FirstOf(s) \in s
      BY <2>3 DEF FirstOf
    <3> QED
      BY <1>1, <2>1, <2>3, <3>1 DEF SumBody
  <2> QED
    BY <2>2, <2>3
<1>2. \A s \in SUBSET S : s \in P
  <2> HIDE DEF P
  <2> QED
    BY <1>1, SubsetInduction
<1> QED
  BY <1>2

(* Any element may be taken out of a sum, not only the one the fold begins *)
(* with.                                                                   *)
LEMMA SumTakeOut ==
  ASSUME NEW S, IsFiniteSet(S), NEW f \in [S -> Nat]
  PROVE  \A s \in SUBSET S : \A x \in s : SumIter(f)[s] = f[x] + SumIter(f)[s \ {x}]
<1> DEFINE P == {s \in SUBSET S : \A x \in s : SumIter(f)[s] = f[x] + SumIter(f)[s \ {x}]}
<1>1. ASSUME NEW s \in SUBSET S, \A x \in s : s \ {x} \in P, NEW x \in s
      PROVE  SumIter(f)[s] = f[x] + SumIter(f)[s \ {x}]
  <2> DEFINE y == FirstOf(s)
  <2>0. y \in s
    BY DEF FirstOf
  <2>1. SumIter(f)[s] = f[y] + SumIter(f)[s \ {y}]
    BY SumDefined DEF SumBody
  <2>2. CASE x = y
    BY <2>1, <2>2
  <2>3. CASE x # y
    <3> HIDE DEF y
    <3>1. x \in s \ {y} /\ y \in s \ {x}
      BY <2>0, <2>3
    <3>2. /\ SumIter(f)[s \ {y}] = f[x] + SumIter(f)[(s \ {y}) \ {x}]
          /\ SumIter(f)[s \ {x}] = f[y] + SumIter(f)[(s \ {x}) \ {y}]
      BY <1>1, <2>0, <3>1
    <3>3. (s \ {y}) \ {x} = (s \ {x}) \ {y}
      OBVIOUS
    <3>4. SumIter(f)[(s \ {x}) \ {y}] \in Nat /\ f[x] \in Nat /\ f[y] \in Nat
      BY <2>0, SumType
    <3>5. /\ SumIter(f)[s] = f[y] + (f[x] + SumIter(f)[(s \ {x}) \ {y}])
          /\ SumIter(f)[s \ {x}] = f[y] + SumIter(f)[(s \ {x}) \ {y}]
      BY <2>1, <3>2, <3>3
    <3> QED
      BY <3>4, <3>5
  <2> QED
    BY <2>2, <2>3
<1>2. \A s \in SUBSET S : (\A x \in s : s \ {x} \in P) => s \in P
  BY <1>1
<1>3. \A s \in SUBSET S : s \in P
  <2> HIDE DEF P
  <2> QED
    BY <1>2, SubsetInduction
<1> QED
  BY <1>3

(* A sum depends on nothing but what is summed.                            *)
LEMMA SumAgrees ==
  ASSUME NEW S, IsFiniteSet(S), NEW f \in [S -> Nat], NEW g \in [S -> Nat]
  PROVE  \A s \in SUBSET S : (\A x \in s : f[x] = g[x]) => SumIter(f)[s] = SumIter(g)[s]
<1> DEFINE P == {s \in SUBSET S : (\A x \in s : f[x] = g[x]) => SumIter(f)[s] = SumIter(g)[s]}
<1>1. ASSUME NEW s \in SUBSET S, \A x \in s : s \ {x} \in P, \A x \in s : f[x] = g[x]
      PROVE  SumIter(f)[s] = SumIter(g)[s]
  <2>1. SumIter(f)[s] = SumBody(f, SumIter(f), s) /\ SumIter(g)[s] = SumBody(g, SumIter(g), s)
    BY SumDefined
  <2>2. s # {} => FirstOf(s) \in s
    BY DEF FirstOf
  <2> QED
    BY <1>1, <2>1, <2>2 DEF SumBody
<1>2. \A s \in SUBSET S : (\A x \in s : s \ {x} \in P) => s \in P
  BY <1>1
<1>3. \A s \in SUBSET S : s \in P
  <2> HIDE DEF P
  <2> QED
    BY <1>2, SubsetInduction
<1> QED
  BY <1>3

(* A sum of zeros.                                                         *)
LEMMA SumOfNothing ==
  ASSUME NEW S, IsFiniteSet(S), NEW f \in [S -> Nat], \A x \in S : f[x] = 0
  PROVE  SumFunction(f) = 0
<1> DEFINE P == {s \in SUBSET S : SumIter(f)[s] = 0}
<1>1. ASSUME NEW s \in SUBSET S, \A x \in s : s \ {x} \in P PROVE s \in P
  <2>1. SumIter(f)[s] = SumBody(f, SumIter(f), s)
    BY SumDefined
  <2>2. s # {} => FirstOf(s) \in s
    BY DEF FirstOf
  <2>3. CASE s = {}
    BY <2>1, <2>3 DEF SumBody
  <2>4. CASE s # {}
    <3>1. SumIter(f)[s \ {FirstOf(s)}] = 0 /\ f[FirstOf(s)] = 0
      BY <1>1, <2>2, <2>4
    <3> QED
      BY <2>1, <2>4, <3>1 DEF SumBody
  <2> QED
    BY <2>3, <2>4
<1>2. \A s \in SUBSET S : s \in P
  <2> HIDE DEF P
  <2> QED
    BY <1>1, SubsetInduction
<1> QED
  BY <1>2, FoldIsSum

(* The sum follows a change of one summand.                                *)
LEMMA SumChanges ==
  ASSUME NEW S, IsFiniteSet(S), NEW f \in [S -> Nat], NEW x \in S, NEW n \in Nat
  PROVE  /\ SumFunction(f) \in Nat
         /\ SumFunction([f EXCEPT ![x] = @ + n]) = SumFunction(f) + n
<1> DEFINE g == [f EXCEPT ![x] = @ + n]
<1>1. g \in [S -> Nat] /\ g[x] = f[x] + n /\ \A y \in S \ {x} : g[y] = f[y]
  OBVIOUS
<1> HIDE DEF g
<1>2. SumIter(f)[S] = f[x] + SumIter(f)[S \ {x}] /\ SumIter(g)[S] = g[x] + SumIter(g)[S \ {x}]
  BY <1>1, SumTakeOut
<1>3. SumIter(f)[S \ {x}] = SumIter(g)[S \ {x}]
  BY <1>1, SumAgrees
<1>4. SumIter(f)[S \ {x}] \in Nat /\ f[x] \in Nat
  BY SumType
<1>5. SumIter(f)[S] \in Nat /\ SumIter(g)[S] = SumIter(f)[S] + n
  BY <1>1, <1>2, <1>3, <1>4
<1>6. SumFunction(f) = SumIter(f)[S] /\ SumFunction(g) = SumIter(g)[S]
  BY <1>1, FoldIsSum
<1> QED
  BY <1>5, <1>6 DEF g

-----------------------------------------------------------------------------
(* The rate the difficulty controller samples.                             *)

BetweenCalls == {w \in Workers : At(w, "stats")}
Total == SumFunction(credits)

(* One worker moves: the number of those between the two calls follows.    *)
LEMMA BetweenFollows ==
  ASSUME TypeOK, NEW w \in Workers, NEW b, worker' = [worker EXCEPT ![w] = b]
  PROVE  /\ Cardinality(BetweenCalls) \in Nat /\ Cardinality(BetweenCalls') \in Nat
         /\ Cardinality(BetweenCalls') + (IF At(w, "stats") THEN 1 ELSE 0)
              = Cardinality(BetweenCalls) + (IF b.pc = "stats" THEN 1 ELSE 0)
<1> DEFINE rest == BetweenCalls \ {w}
<1>1. IsFiniteSet(BetweenCalls) /\ IsFiniteSet(rest)
  <2>1. BetweenCalls \in SUBSET Workers
    BY DEF BetweenCalls
  <2> QED
    BY <2>1, Finite, FS_Subset, FS_RemoveElement
<1>2. worker'[w] = b /\ \A v \in Workers \ {w} : worker'[v] = worker[v]
  BY DEF TypeOK
<1>3. BetweenCalls = IF At(w, "stats") THEN rest \cup {w} ELSE rest
  BY DEF BetweenCalls
<1>4. BetweenCalls' = IF b.pc = "stats" THEN rest \cup {w} ELSE rest
  BY <1>2 DEF BetweenCalls, At
<1>5. w \notin rest
  OBVIOUS
<1>6. Cardinality(rest) \in Nat /\ Cardinality(rest \cup {w}) = Cardinality(rest) + 1
  BY <1>1, <1>5, FS_CardinalityType, FS_AddElement
<1> HIDE DEF rest
<1> QED
  BY <1>3, <1>4, <1>6

(* The credits of one challenge grow by n, and their sum with them.        *)
LEMMA TotalFollows ==
  ASSUME TypeOK, NEW n \in Nat,
         (n = 0 /\ credits' = credits) \/ \E ch \in Challenges : Credit(ch, n)
  PROVE  Total \in Nat /\ Total' = Total + n
<1>1. credits \in [Challenges -> Nat] /\ IsFiniteSet(Challenges)
  BY Finite DEF TypeOK
<1>2. CASE \E ch \in Challenges : Credit(ch, n)
  <2>1. PICK ch \in Challenges : credits' = [credits EXCEPT ![ch] = @ + n]
    BY <1>2 DEF Credit
  <2>2. /\ SumFunction(credits) \in Nat
        /\ SumFunction([credits EXCEPT ![ch] = @ + n]) = SumFunction(credits) + n
    BY <1>1, SumChanges
  <2> QED
    BY <2>1, <2>2 DEF Total
<1>3. CASE n = 0 /\ credits' = credits
  <2>1. Total \in Nat
    <3>1. CASE Challenges = {}
      BY <1>1, <3>1, SumOfNothing DEF Total
    <3>2. CASE Challenges # {}
      <4>1. PICK ch \in Challenges : TRUE
        BY <3>2
      <4> QED
        BY <1>1, <4>1, SumChanges DEF Total
    <3> QED
      BY <3>1, <3>2
  <2> QED
    BY <1>3, <2>1 DEF Total
<1> QED
  BY <1>2, <1>3

(* A worker moves, the credits grow by n and the accepted submits by a,    *)
(* and f faults pay for the difference.                                    *)
Balanced(w, b, n, a, f) ==
  /\ worker' = [worker EXCEPT ![w] = b]
  /\ (n = 0 /\ credits' = credits) \/ \E ch \in Challenges : Credit(ch, n)
  /\ accepted' = accepted + a
  /\ faults' = faults + f
  /\ n + (IF At(w, "stats") THEN 1 ELSE 0) <= a + (IF b.pc = "stats" THEN 1 ELSE 0) + f
  /\ a + (IF b.pc = "stats" THEN 1 ELSE 0) <= n + (IF At(w, "stats") THEN 1 ELSE 0) + f

(* Such a step keeps the balance.                                          *)
LEMMA BalanceStep ==
  ASSUME TypeOK, StatsFollowCredits, NEW w \in Workers, NEW b,
         NEW n \in Nat, NEW a \in Nat, NEW f \in Nat, Balanced(w, b, n, a, f)
  PROVE  StatsFollowCredits'
<1>1. Total \in Nat /\ Total' = Total + n
  BY TotalFollows DEF Balanced
<1>2. /\ Cardinality(BetweenCalls) \in Nat /\ Cardinality(BetweenCalls') \in Nat
      /\ Cardinality(BetweenCalls') + (IF At(w, "stats") THEN 1 ELSE 0)
           = Cardinality(BetweenCalls) + (IF b.pc = "stats" THEN 1 ELSE 0)
  BY BetweenFollows DEF Balanced
<1>3. accepted \in Nat /\ faults \in Nat
  BY DEF TypeOK
<1>4. /\ Total <= accepted + Cardinality(BetweenCalls) + faults
      /\ accepted + Cardinality(BetweenCalls) <= Total + faults
  BY DEF StatsFollowCredits, Total, BetweenCalls
<1>5. /\ Total' <= accepted' + Cardinality(BetweenCalls') + faults'
      /\ accepted' + Cardinality(BetweenCalls') <= Total' + faults'
  BY <1>1, <1>2, <1>3, <1>4 DEF Balanced
<1> QED
  BY <1>5 DEF StatsFollowCredits, Total, BetweenCalls

(* Nothing is counted or credited, and no worker comes between the calls.  *)
LEMMA BalanceStays ==
  ASSUME TypeOK, StatsFollowCredits, UNCHANGED <<credits, accepted>>,
         faults' = faults \/ faults' = faults + 1,
         \/ worker' = worker
         \/ \E w \in Workers : \E b :
              /\ worker' = [worker EXCEPT ![w] = b]
              /\ b.pc # "stats"
              /\ At(w, "stats") => faults' = faults + 1
         \/ \E w \in Workers : \E b :
              worker' = [worker EXCEPT ![w] = b] /\ b.pc = worker[w].pc
  PROVE  StatsFollowCredits'
<1>1. accepted \in Nat /\ faults \in Nat /\ accepted' = accepted + 0
      /\ faults + 0 = faults
  BY DEF TypeOK
<1>3. PICK f \in Nat : f \in {0, 1} /\ faults' = faults + f
  BY <1>1
<1>4. CASE worker' = worker
  <2>1. Total' = Total /\ BetweenCalls' = BetweenCalls
    BY <1>4 DEF Total, BetweenCalls, At
  <2>2. Total \in Nat
    BY TotalFollows
  <2>3. Cardinality(BetweenCalls) \in Nat
    <3>1. BetweenCalls \in SUBSET Workers
      BY DEF BetweenCalls
    <3> QED
      BY <3>1, Finite, FS_Subset, FS_CardinalityType
  <2>4. /\ Total <= accepted + Cardinality(BetweenCalls) + faults
        /\ accepted + Cardinality(BetweenCalls) <= Total + faults
    BY DEF StatsFollowCredits, Total, BetweenCalls
  <2>5. /\ Total' <= accepted' + Cardinality(BetweenCalls') + faults'
        /\ accepted' + Cardinality(BetweenCalls') <= Total' + faults'
    BY <1>1, <1>3, <2>1, <2>2, <2>3, <2>4
  <2> QED
    BY <2>5 DEF StatsFollowCredits, Total, BetweenCalls
<1>5. ASSUME NEW w \in Workers, NEW b, worker' = [worker EXCEPT ![w] = b],
             b.pc # "stats", At(w, "stats") => faults' = faults + 1
      PROVE  StatsFollowCredits'
  <2>1. Balanced(w, b, 0, 0, f)
    BY <1>1, <1>3, <1>5 DEF Balanced
  <2> QED
    BY <2>1, BalanceStep
<1>6. ASSUME NEW w \in Workers, NEW b, worker' = [worker EXCEPT ![w] = b],
             b.pc = worker[w].pc
      PROVE  StatsFollowCredits'
  <2>1. Balanced(w, b, 0, 0, f)
    BY <1>1, <1>3, <1>6 DEF Balanced, At
  <2> QED
    BY <2>1, BalanceStep
<1> QED
  BY <1>4, <1>5, <1>6

(* Every step keeps the balance.                                           *)
LEMMA StepBalance ==
  TypeOK /\ BatchInLog /\ StatsFollowCredits /\ [Next]_vars => StatsFollowCredits'
<1> SUFFICES ASSUME TypeOK, BatchInLog, StatsFollowCredits, [Next]_vars
             PROVE  StatsFollowCredits'
  OBVIOUS
<1> USE DEF Fault, effects, history
<1>1. CASE UNCHANGED vars
  BY <1>1, BalanceStays DEF vars
<1>2. CASE Environment
  BY <1>2, BalanceStays DEF Environment, Tick, Issue, Append1, AppendPoison
<1>3. ASSUME NEW w \in Workers,
             Consume(w) \/ Misfortune(w) \/ Assign(w) \/ Restart(w)
      PROVE  StatsFollowCredits'
  <2> DEFINE next == NextRecord(worker[w])
             idle == Idle(worker[w].pos)
  <2>0. /\ next.pc \in {"apply", "commit"}
        /\ idle.pc = "poll"
        /\ Down.pc = "down"
        /\ worker[w] \in WorkerState
        /\ worker[w] = [worker[w] EXCEPT !.pc = worker[w].pc]
    BY NextRecordType DEF TypeOK, Idle, Down, WorkerState
  <2>1. CASE Poll(w)
    <3>1. PICK hi : worker' = [worker EXCEPT ![w] =
            [pc |-> "apply", pos |-> hi, idx |-> worker[w].pos + 1, hi |-> hi]]
      BY <2>1 DEF Poll
    <3> QED
      BY <2>1, <3>1, BalanceStays DEF Poll, At
  <2>2. CASE PollError(w) \/ Assign(w)
    <3>1. PICK pos : worker' = [worker EXCEPT ![w] = [worker[w] EXCEPT !.pos = pos]]
      BY <2>2 DEF PollError, Assign
    <3>2. [worker[w] EXCEPT !.pos = pos].pc = worker[w].pc
      BY <2>0 DEF WorkerState
    <3> QED
      BY <2>2, <3>1, <3>2, BalanceStays DEF PollError, Assign
  <2>3. CASE SkipMalformed(w) \/ FirstSeeRepeat(w) \/ FirstSeeSentTwice(w)
    BY <2>0, <2>3, BalanceStays
       DEF SkipMalformed, FirstSeeRepeat, FirstSeeSentTwice, Applied, At
  <2>4. CASE FirstSeeWins(w)
    <3>1. worker' = [worker EXCEPT ![w] = [worker[w] EXCEPT !.pc = "incr"]]
      BY <2>4 DEF FirstSeeWins
    <3>2. [worker[w] EXCEPT !.pc = "incr"].pc = "incr"
      BY <2>0 DEF WorkerState
    <3> QED
      BY <2>4, <3>1, <3>2, BalanceStays DEF FirstSeeWins, At
  <2>5. CASE FirstSeeError(w)
    BY <2>0, <2>5, BalanceStays DEF FirstSeeError, Abandon, At
  <2>6. CASE IncrBy(w) \/ IncrBySentTwice(w)
    <3> DEFINE b == [worker[w] EXCEPT !.pc = "stats"]
    <3>1. worker' = [worker EXCEPT ![w] = b] /\ At(w, "incr")
      BY <2>6 DEF IncrBy, IncrBySentTwice
    <3>2. b.pc = "stats"
      BY <2>0 DEF WorkerState
    <3>3. Record(w).ch \in Challenges
      BY <3>1 DEF BatchInLog, At
    <3>4. accepted' = accepted + 0 /\ accepted \in Nat /\ faults \in Nat
      BY <2>6 DEF IncrBy, IncrBySentTwice, TypeOK
    <3>5. \/ Credit(Record(w).ch, 1) /\ faults' = faults + 0
          \/ Credit(Record(w).ch, 2) /\ faults' = faults + 1
      BY <2>6, <3>4 DEF IncrBy, IncrBySentTwice
    <3> HIDE DEF b
    <3>6. ~At(w, "stats")
      BY <3>1 DEF At
    <3>7. CASE Credit(Record(w).ch, 1) /\ faults' = faults + 0
      <4>1. Balanced(w, b, 1, 0, 0)
        BY <3>1, <3>2, <3>3, <3>4, <3>6, <3>7 DEF Balanced
      <4> QED
        BY <4>1, BalanceStep
    <3>8. CASE Credit(Record(w).ch, 2) /\ faults' = faults + 1
      <4>1. Balanced(w, b, 2, 0, 1)
        BY <3>1, <3>2, <3>3, <3>4, <3>6, <3>8 DEF Balanced
      <4> QED
        BY <4>1, BalanceStep
    <3> QED
      BY <3>5, <3>7, <3>8
  <2>7. CASE IncrByError(w)
    <3>1. worker' = [worker EXCEPT ![w] = idle] /\ At(w, "incr") /\ ~At(w, "stats")
      BY <2>7 DEF IncrByError, Abandon, At
    <3>2. Record(w).ch \in Challenges
      BY <3>1 DEF BatchInLog, At
    <3>3. accepted' = accepted + 0 /\ faults' = faults + 1
      BY <2>7 DEF IncrByError, TypeOK
    <3>4. credits' = credits \/ Credit(Record(w).ch, 1)
      BY <2>7 DEF IncrByError
    <3> HIDE DEF idle
    <3>5. CASE credits' = credits
      <4>1. Balanced(w, idle, 0, 0, 1)
        BY <2>0, <3>1, <3>3, <3>5 DEF Balanced
      <4> QED
        BY <4>1, BalanceStep
    <3>6. CASE Credit(Record(w).ch, 1)
      <4>1. Balanced(w, idle, 1, 0, 1)
        BY <2>0, <3>1, <3>2, <3>3, <3>6 DEF Balanced
      <4> QED
        BY <4>1, BalanceStep
    <3> QED
      BY <3>4, <3>5, <3>6
  <2>8. CASE IncrStats(w)
    <3>1. worker' = [worker EXCEPT ![w] = next] /\ At(w, "stats")
      BY <2>8 DEF IncrStats, Applied
    <3>2. accepted' = accepted + 1 /\ faults' = faults + 0 /\ credits' = credits
      BY <2>8 DEF IncrStats, TypeOK
    <3> HIDE DEF next
    <3>9. Balanced(w, next, 0, 1, 0)
      BY <2>0, <3>1, <3>2 DEF Balanced
    <3> QED
      BY <3>9, BalanceStep
  <2>9. CASE IncrStatsError(w)
    <3>1. worker' = [worker EXCEPT ![w] = idle] /\ At(w, "stats")
      BY <2>9 DEF IncrStatsError, Abandon
    <3>2. PICK a \in {0, 1} : accepted' = accepted + a
      BY <2>9 DEF IncrStatsError, TypeOK
    <3>3. faults' = faults + 1 /\ credits' = credits /\ a \in Nat
      BY <2>9 DEF IncrStatsError
    <3> HIDE DEF idle
    <3>9. Balanced(w, idle, 0, a, 1)
      BY <2>0, <3>1, <3>2, <3>3 DEF Balanced
    <3> QED
      BY <3>9, BalanceStep, <3>3
  <2>10. CASE IncrStatsSentTwice(w)
    <3>1. worker' = [worker EXCEPT ![w] = next] /\ At(w, "stats")
      BY <2>10 DEF IncrStatsSentTwice, Applied
    <3>2. accepted' = accepted + 2 /\ faults' = faults + 1 /\ credits' = credits
      BY <2>10 DEF IncrStatsSentTwice
    <3> HIDE DEF next
    <3>9. Balanced(w, next, 0, 2, 1)
      BY <2>0, <3>1, <3>2 DEF Balanced
    <3> QED
      BY <3>9, BalanceStep
  <2>11. CASE Commit(w) \/ CommitError(w)
    BY <2>0, <2>11, BalanceStays DEF Commit, CommitError, At
  <2>12. CASE Crash(w)
    BY <2>0, <2>12, BalanceStays DEF Crash
  <2>13. CASE Restart(w)
    <3>1. Idle(0).pc = "poll"
      BY DEF Idle
    <3> QED
      BY <2>13, <3>1, BalanceStays DEF Restart, At
  <2> QED
    BY <1>3, <2>1, <2>2, <2>3, <2>4, <2>5, <2>6, <2>7, <2>8, <2>9, <2>10, <2>11, <2>12, <2>13
       DEF Consume, Misfortune
<1> QED
  BY <1>1, <1>2, <1>3 DEF Next

(* The rate the difficulty controller samples stays within the number of   *)
(* faults of the number of clicks that were added to the counter.          *)
THEOREM StatsFollow == Spec => []StatsFollowCredits
<1>1. Init => StatsFollowCredits
  <2> SUFFICES ASSUME Init PROVE StatsFollowCredits
    OBVIOUS
  <2>1. Total = 0
    BY Finite, SumOfNothing DEF Init, Total
  <2>2. BetweenCalls = {}
    BY DEF Init, BetweenCalls, At, Idle
  <2>3. Cardinality(BetweenCalls) = 0
    BY <2>2, FS_EmptySet
  <2> QED
    BY <2>1, <2>3 DEF Init, StatsFollowCredits, Total, BetweenCalls
<1>2. IInv => TypeOK /\ BatchInLog
  BY DEF IInv
<1> QED
  BY <1>1, <1>2, Inductive, StepBalance, PTL DEF Spec

-----------------------------------------------------------------------------
(* Commits.  As long as no Redis call fails in apply() and no poll carries *)
(* an error -- the two ways in which a fetch position gets past a record   *)
(* that nobody handled --, what is committed has been handled.             *)

(* Up to where a worker has got, and where it would go on, everything has  *)
(* been handled; a batch in hand may be ahead of that.                     *)
Behind(b, done) ==
  /\ b.pc \in {"down", "poll"} => 1 .. b.pos \subseteq done
  /\ b.pc \in {"apply", "incr", "stats"} => 1 .. b.idx - 1 \subseteq done
  /\ b.pc = "commit" => 1 .. b.hi \subseteq done
  /\ b.pos = b.hi \/ 1 .. b.pos \subseteq done

CInv == CommittedHandled /\ \A w \in Workers : Behind(worker[w], handled)

(* One worker moves; nothing that was handled is forgotten.                *)
LEMMA BehindStep ==
  ASSUME TypeOK, CInv, NEW w \in Workers, NEW b, worker' = [worker EXCEPT ![w] = b],
         handled \subseteq handled', Behind(b, handled'), 1 .. committed' \subseteq handled'
  PROVE  CInv'
<1>1. worker'[w] = b /\ \A v \in Workers \ {w} : worker'[v] = worker[v]
  BY DEF TypeOK
<1>2. ASSUME NEW v \in Workers, v # w PROVE Behind(worker'[v], handled')
  BY <1>1, <1>2 DEF CInv, Behind
<1>3. Behind(worker'[w], handled')
  BY <1>1 DEF Behind
<1> QED
  BY <1>2, <1>3 DEF CInv, CommittedHandled

(* The current record is handled: on to the next.                          *)
LEMMA BehindApplied ==
  ASSUME TypeOK, BatchInLog, CInv, NEW w \in Workers, Applied(w),
         worker[w].pc \in {"apply", "stats"}, committed' = committed
  PROVE  CInv'
<1> DEFINE b == worker[w]
           n == NextRecord(b)
<1>1. /\ b \in WorkerState /\ b.idx \in 1 .. b.hi
      /\ b.pos \in Nat /\ b.idx \in Nat /\ b.hi \in Nat
  BY DEF TypeOK, BatchInLog, WorkerState
<1>2. /\ n.pos = b.pos /\ n.hi = b.hi /\ n.pc \in {"apply", "commit"}
      /\ n.pc = "apply" => n.idx = b.idx + 1 /\ b.idx < b.hi
      /\ n.pc = "commit" => b.idx = b.hi
  <2>1. ~(b.idx < b.hi) => b.idx = b.hi
    BY <1>1
  <2>2. b.idx < b.hi => n.pc = "apply"
    BY <1>1 DEF NextRecord, WorkerState
  <2> QED
    BY <1>1, <2>1, <2>2, NextRecordType
<1>3. worker' = [worker EXCEPT ![w] = n] /\ handled' = handled \cup {b.idx}
  BY DEF Applied
<1>4. 1 .. b.idx - 1 \subseteq handled
  BY DEF CInv, Behind
<1>5. 1 .. b.idx \subseteq handled'
  <2>1. 1 .. b.idx = (1 .. b.idx - 1) \cup {b.idx}
    BY <1>1
  <2> QED
    BY <1>3, <1>4, <2>1
<1>6. b.pos = b.hi \/ 1 .. b.pos \subseteq handled
  BY DEF CInv, Behind
<1> HIDE DEF n, b
<1>7. Behind(n, handled')
  <2>1. (b.idx + 1) - 1 = b.idx
    BY <1>1
  <2> QED
    BY <1>2, <1>3, <1>5, <1>6, <2>1 DEF Behind
<1> QED
  BY <1>3, <1>7, BehindStep DEF CInv, CommittedHandled

(* Every step keeps it.                                                    *)
LEMMA StepCommits ==
  ASSUME "redis" \notin FaultKinds, "fetch" \notin FaultKinds
  PROVE  TypeOK /\ BatchInLog /\ CInv /\ [Next]_vars => CInv'
<1> SUFFICES ASSUME TypeOK, BatchInLog, CInv, [Next]_vars PROVE CInv'
  OBVIOUS
<1>1. CASE UNCHANGED vars
  BY <1>1 DEF vars, CInv, Behind, CommittedHandled
<1>2. CASE Environment
  <2>1. UNCHANGED <<committed, worker, handled>>
    BY <1>2 DEF Environment, Tick, Issue, Append1, AppendPoison, history
  <2> QED
    BY <2>1 DEF CInv, Behind, CommittedHandled
<1>3. ASSUME NEW w \in Workers,
             Consume(w) \/ Misfortune(w) \/ Assign(w) \/ Restart(w)
      PROVE  CInv'
  <2>0. /\ worker[w] \in WorkerState /\ Behind(worker[w], handled)
        /\ worker[w].pos \in Nat /\ worker[w].idx \in Nat /\ worker[w].hi \in Nat
        /\ 1 .. committed \subseteq handled
    BY DEF TypeOK, WorkerState, CInv, CommittedHandled
  <2>1. CASE Poll(w)
    <3>1. PICK hi : worker' = [worker EXCEPT ![w] =
            [pc |-> "apply", pos |-> hi, idx |-> worker[w].pos + 1, hi |-> hi]]
      BY <2>1 DEF Poll
    <3>2. UNCHANGED <<committed, handled>> /\ At(w, "poll")
      BY <2>1 DEF Poll, history
    <3>3. (worker[w].pos + 1) - 1 = worker[w].pos
      BY <2>0
    <3> DEFINE b == [pc |-> "apply", pos |-> hi, idx |-> worker[w].pos + 1, hi |-> hi]
    <3>4. b.pc = "apply" /\ b.pos = b.hi /\ b.idx - 1 = worker[w].pos
      BY <3>3
    <3> HIDE DEF b
    <3>5. Behind(b, handled')
      BY <2>0, <3>2, <3>4 DEF Behind, At
    <3>6. worker' = [worker EXCEPT ![w] = b]
      BY <3>1 DEF b
    <3> QED
      BY <2>0, <3>2, <3>5, <3>6, BehindStep
  <2>2. CASE Assign(w)
    <3> DEFINE b == [worker[w] EXCEPT !.pos = committed]
    <3>1. worker' = [worker EXCEPT ![w] = b] /\ UNCHANGED <<committed, handled>>
      BY <2>2 DEF Assign, history
    <3>2. b.pc = worker[w].pc /\ b.pos = committed /\ b.idx = worker[w].idx /\ b.hi = worker[w].hi
      BY <2>0 DEF WorkerState
    <3> HIDE DEF b
    <3>3. Behind(b, handled')
      BY <2>0, <3>1, <3>2 DEF Behind
    <3> QED
      BY <2>0, <3>1, <3>3, BehindStep
  <2>3. CASE SkipMalformed(w) \/ FirstSeeRepeat(w) \/ FirstSeeSentTwice(w)
             \/ IncrStats(w) \/ IncrStatsSentTwice(w)
    BY <2>3, BehindApplied
       DEF SkipMalformed, FirstSeeRepeat, FirstSeeSentTwice, IncrStats, IncrStatsSentTwice, At
  <2>4. CASE FirstSeeWins(w) \/ IncrBy(w) \/ IncrBySentTwice(w)
    <3>1. PICK pc \in {"incr", "stats"} :
            worker' = [worker EXCEPT ![w] = [worker[w] EXCEPT !.pc = pc]]
      BY <2>4 DEF FirstSeeWins, IncrBy, IncrBySentTwice
    <3>2. UNCHANGED <<committed, handled>> /\ worker[w].pc \in {"apply", "incr"}
      BY <2>4 DEF FirstSeeWins, IncrBy, IncrBySentTwice, history, At
    <3> DEFINE b == [worker[w] EXCEPT !.pc = pc]
    <3>3. b.pc = pc /\ b.pos = worker[w].pos /\ b.idx = worker[w].idx /\ b.hi = worker[w].hi
      BY <2>0 DEF WorkerState
    <3> HIDE DEF b
    <3>4. Behind(b, handled')
      BY <2>0, <3>1, <3>2, <3>3 DEF Behind
    <3> QED
      BY <2>0, <3>1, <3>2, <3>4, BehindStep DEF b
  <2>5. CASE Commit(w) \/ CommitError(w)
    <3> DEFINE b == Idle(worker[w].pos)
    <3>1. worker' = [worker EXCEPT ![w] = b] /\ handled' = handled /\ At(w, "commit")
      BY <2>5 DEF Commit, CommitError, history
    <3>2. b.pc = "poll" /\ b.pos = worker[w].pos
      BY DEF Idle
    <3>3. 1 .. worker[w].hi \subseteq handled /\ 1 .. worker[w].pos \subseteq handled
      BY <2>0, <3>1 DEF Behind, At
    <3>4. committed' = committed \/ committed' = worker[w].hi
      BY <2>5 DEF Commit, CommitError
    <3> HIDE DEF b
    <3>5. Behind(b, handled')
      BY <3>1, <3>2, <3>3 DEF Behind
    <3> QED
      BY <2>0, <3>1, <3>3, <3>4, <3>5, BehindStep
  <2>6. CASE Crash(w) \/ Restart(w)
    <3>1. PICK b \in {Down, Idle(0)} : worker' = [worker EXCEPT ![w] = b]
      BY <2>6 DEF Crash, Restart
    <3>2. UNCHANGED <<committed, handled>>
      BY <2>6 DEF Crash, Restart, history
    <3>3. b.pc \in {"down", "poll"} /\ b.pos = 0
      BY <3>1 DEF Down, Idle
    <3>4. 1 .. 0 = {}
      OBVIOUS
    <3>5. Behind(b, handled')
      BY <3>3, <3>4 DEF Behind
    <3> QED
      BY <2>0, <3>1, <3>2, <3>5, BehindStep
  <2>7. ~(PollError(w) \/ FirstSeeError(w) \/ IncrByError(w) \/ IncrStatsError(w))
    BY DEF PollError, FirstSeeError, IncrByError, IncrStatsError, Fault
  <2> QED
    BY <1>3, <2>1, <2>2, <2>3, <2>4, <2>5, <2>6, <2>7 DEF Consume, Misfortune
<1> QED
  BY <1>1, <1>2, <1>3 DEF Next

(* counterworker.go:4-5.  Offsets are committed only after effects apply,  *)
(* whoever crashes and however the partition is handed around, as long as  *)
(* no Redis call and no poll reports an error: either of these loses it.   *)
THEOREM CommitsFollowEffects ==
  ASSUME "redis" \notin FaultKinds, "fetch" \notin FaultKinds
  PROVE  Spec => []CommittedHandled
<1>1. Init => CInv
  <2>1. 1 .. 0 = {}
    OBVIOUS
  <2> QED
    BY <2>1 DEF Init, CInv, CommittedHandled, Behind, Idle
<1>2. IInv => TypeOK /\ BatchInLog
  BY DEF IInv
<1>3. CInv => CommittedHandled
  BY DEF CInv
<1> QED
  BY <1>1, <1>2, <1>3, Inductive, StepCommits, PTL DEF Spec
=============================================================================
