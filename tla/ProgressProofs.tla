--------------------------- MODULE ProgressProofs ---------------------------
(***************************************************************************)
(* ProgressGroup, for any users, workers, logs and faults: it implements   *)
(* Tally; an event past the gate is not forgotten; what is stored of       *)
(* streaks, largest batches, unlocks and quests was earned, none of it is  *)
(* granted twice, and, but for the exceptions the properties name, nothing *)
(* is missing.  All of it holds with the reads of PlayerReads between the  *)
(* steps, and what an answer says fits together.                           *)
(***************************************************************************)
EXTENDS PlayerReads, FiniteSetTheorems, TLAPS

Pcs == {"down", "poll", "commit"} \cup InApply

(* On to another place in the loop, with the same batch.                   *)
LEMMA GotoBatch ==
  ASSUME BatchInLog, NEW w \in Workers, NEW pc \in Pcs, Goto(w, pc),
         pc \in InApply => worker[w].pc \in InApply,
         UNCHANGED <<clicks, committed>>
  PROVE  BatchInLog'
<1> USE DEF Pcs
<1>1. worker[w] \in WorkerState
  BY DEF BatchInLog
<1>2. worker'[w] = [worker[w] EXCEPT !.pc = pc]
  BY DEF Goto, BatchInLog
<1>3. worker'[w] = [pc |-> pc, pos |-> worker[w].pos, idx |-> worker[w].idx, hi |-> worker[w].hi]
  BY <1>1, <1>2 DEF WorkerState
<1>4. worker'[w] \in WorkerState
  BY <1>1, <1>3 DEF WorkerState
<1>5. worker' = [worker EXCEPT ![w] = worker'[w]]
  BY <1>2 DEF Goto, BatchInLog
<1>6. WorkerState' = WorkerState
  BY DEF WorkerState
<1> QED
  BY <1>1, <1>3, <1>4, <1>5, <1>6 DEF BatchInLog

(* On to the next record, or to the commit.                                *)
LEMMA AppliedBatch ==
  ASSUME BatchInLog, NEW w \in Workers, Applied(w), worker[w].pc \in InApply,
         UNCHANGED <<clicks, committed>>
  PROVE  /\ BatchInLog'
         /\ worker' = [worker EXCEPT ![w] = worker'[w]]
         /\ worker'[w].pc \in {"apply", "commit"}
<1> DEFINE b == worker[w]
<1>1. b \in WorkerState /\ b.idx \in 1 .. b.hi
  BY DEF BatchInLog
<1>2. worker' = [worker EXCEPT ![w] = NextRecord(b)]
  BY DEF Applied
<1>3. worker'[w] = NextRecord(b)
  BY <1>2 DEF BatchInLog
<1>4. /\ NextRecord(b) \in WorkerState
      /\ NextRecord(b).pc \in {"apply", "commit"}
      /\ NextRecord(b).pc = "apply" => NextRecord(b).idx \in 1 .. NextRecord(b).hi
  <2>1. CASE b.idx < b.hi
    <3>1. NextRecord(b) = [b EXCEPT !.pc = "apply", !.idx = b.idx + 1]
      BY <2>1 DEF NextRecord
    <3>2. NextRecord(b) = [pc |-> "apply", pos |-> b.pos, idx |-> b.idx + 1, hi |-> b.hi]
      BY <1>1, <3>1 DEF WorkerState
    <3>3. b.idx + 1 \in 0 .. Len(clicks) /\ b.idx + 1 \in 1 .. b.hi
      BY <1>1, <2>1 DEF WorkerState
    <3> QED
      BY <1>1, <3>2, <3>3 DEF WorkerState, InApply
  <2>2. CASE ~(b.idx < b.hi)
    <3>1. NextRecord(b) = [b EXCEPT !.pc = "commit"]
      BY <2>2 DEF NextRecord
    <3>2. NextRecord(b) = [pc |-> "commit", pos |-> b.pos, idx |-> b.idx, hi |-> b.hi]
      BY <1>1, <3>1 DEF WorkerState
    <3> QED
      BY <1>1, <3>2 DEF WorkerState, InApply
  <2> QED
    BY <2>1, <2>2
<1>5. WorkerState' = WorkerState
  BY DEF WorkerState
<1> QED
  BY <1>2, <1>3, <1>4, <1>5 DEF BatchInLog, InApply, Engine, BeforeStreak

(* Back to the poll.                                                       *)
LEMMA IdleBatch ==
  ASSUME BatchInLog, NEW w \in Workers, NEW pos \in 0 .. Len(clicks),
         worker' = [worker EXCEPT ![w] = Idle(pos)],
         clicks' = clicks, committed' \in 0 .. Len(clicks)
  PROVE  BatchInLog'
<1>1. Idle(pos) \in WorkerState
  <2>1. Len(clicks) \in Nat
    BY LogsTyped DEF BatchInLog
  <2> QED
    BY <2>1 DEF Idle, WorkerState
<1>2. WorkerState' = WorkerState
  BY DEF WorkerState
<1> QED
  BY <1>1, <1>2 DEF BatchInLog, Idle, InApply, Engine, BeforeStreak

(* A record in hand is one of the log, of a user and a day.                *)
LEMMA RecordTyped ==
  ASSUME BatchInLog, NEW w \in Workers, worker[w].pc \in InApply
  PROVE  worker[w].idx \in DOMAIN clicks /\ User(w) \in Users /\ Today(w) \in Nat
<1> DEFINE Event == [ch : Nat \cup {Poison}, sub : Users, count : Nat, ts : Nat]
<1>1. clicks \in Seq(Event)
  BY LogsTyped DEF BatchInLog
<1>2. worker[w].idx \in 1 .. Len(clicks)
  <2>1. worker[w].idx \in 1 .. worker[w].hi /\ worker[w].hi \in 0 .. Len(clicks)
    BY DEF BatchInLog, WorkerState
  <2>2. Len(clicks) \in Nat
    BY <1>1
  <2> QED
    BY <2>1, <2>2
<1>3. Record(w) \in Event
  <2> HIDE DEF Event
  <2> QED
    BY <1>1, <1>2 DEF Record
<1>4. \A t \in Nat : (t + 7 * 60) \div 1440 \in Nat
  OBVIOUS
<1> QED
  BY <1>1, <1>2, <1>3, <1>4 DEF User, Today, DateHCM, LocalMinute

-----------------------------------------------------------------------------
(* The shape of the steps.                                                 *)

EngineStep(w) ==
  \/ GetTotal(w) \/ GetDay(w) \/ GetWeek(w) \/ Claim(w) \/ ClaimError(w)
  \/ LoadStreak(w) \/ LoadStreakError(w) \/ SaveStreak(w)
  \/ ClaimQuests(w) \/ ClaimQuestsError(w) \/ ExpireDay(w) \/ ExpireWeek(w)

(* A step of the engine layer stays in it and touches no counter.          *)
LEMMA EngineShape ==
  ASSUME NEW w \in Workers, EngineStep(w)
  PROVE  /\ worker[w].pc \in Engine
         /\ \E pc \in Engine \ {"total"} : Goto(w, pc)
         /\ UNCHANGED <<clicks, seen, counts, group>>
<1> USE DEF At, Engine, BeforeStreak
<1>1. CASE GetTotal(w)
  <2>1. At(w, "total") /\ Goto(w, "day") /\ UNCHANGED <<clicks, seen, counts, group>>
    BY <1>1 DEF GetTotal, redis
  <2> QED
    BY <2>1
<1>2. CASE GetDay(w)
  <2>1. At(w, "day") /\ Goto(w, "week") /\ UNCHANGED <<clicks, seen, counts, group>>
    BY <1>2 DEF GetDay, redis
  <2> QED
    BY <2>1
<1>3. CASE GetWeek(w)
  <2>1. At(w, "week") /\ Goto(w, "claims") /\ UNCHANGED <<clicks, seen, counts, group>>
    BY <1>3 DEF GetWeek, redis
  <2> QED
    BY <2>1
<1>4. CASE Claim(w)
  <2>1. At(w, "claims") /\ Goto(w, "load") /\ UNCHANGED <<clicks, seen, counts, group>>
    BY <1>4 DEF Claim
  <2> QED
    BY <2>1
<1>5. CASE ClaimError(w)
  <2>1. At(w, "claims") /\ Goto(w, "load") /\ UNCHANGED <<clicks, seen, counts, group>>
    BY <1>5 DEF ClaimError
  <2> QED
    BY <2>1
<1>6. CASE LoadStreak(w)
  <2>1. At(w, "load") /\ Goto(w, "streak") /\ UNCHANGED <<clicks, seen, counts, group>>
    BY <1>6 DEF LoadStreak, redis
  <2> QED
    BY <2>1
<1>7. CASE LoadStreakError(w)
  <2>1. At(w, "load") /\ Goto(w, "streak") /\ UNCHANGED <<clicks, seen, counts, group>>
    BY <1>7 DEF LoadStreakError, redis
  <2> QED
    BY <2>1
<1>8. CASE SaveStreak(w)
  <2>1. At(w, "streak") /\ Goto(w, "quests") /\ UNCHANGED <<clicks, seen, counts, group>>
    BY <1>8 DEF SaveStreak
  <2> QED
    BY <2>1
<1>9. CASE ClaimQuests(w)
  <2>1. At(w, "quests") /\ Goto(w, "expday") /\ UNCHANGED <<clicks, seen, counts, group>>
    BY <1>9 DEF ClaimQuests
  <2> QED
    BY <2>1
<1>10. CASE ClaimQuestsError(w)
  <2>1. At(w, "quests") /\ Goto(w, "expday") /\ UNCHANGED <<clicks, seen, counts, group>>
    BY <1>10 DEF ClaimQuestsError
  <2> QED
    BY <2>1
<1>11. CASE ExpireDay(w)
  <2>1. At(w, "expday") /\ Goto(w, "expweek") /\ UNCHANGED <<clicks, seen, counts, group>>
    BY <1>11 DEF ExpireDay
  <2> QED
    BY <2>1
<1>12. CASE ExpireWeek(w)
  <2>1. At(w, "expweek") /\ Goto(w, "frame") /\ UNCHANGED <<clicks, seen, counts, group>>
    BY <1>12 DEF ExpireWeek
  <2> QED
    BY <2>1
<1> QED
  BY <1>1, <1>2, <1>3, <1>4, <1>5, <1>6, <1>7, <1>8, <1>9, <1>10, <1>11, <1>12 DEF EngineStep

(* The steps that go back to the poll, forward to the next record, or that *)
(* start a batch: no counter is touched, and a key may be set but not      *)
(* taken back.                                                             *)
Quiet ==
  /\ UNCHANGED <<clicks, applied, tally>>
  /\ seen \subseteq seen'
  /\ \A v \in Workers : worker'[v].pc \in {"max", "tx"} =>
       worker[v].pc \in {"max", "tx"} /\ worker'[v].idx = worker[v].idx

GroupStep(w) ==
  Poll(w) \/ PollError(w) \/ Commit(w) \/ CommitError(w) \/ Assign(w) \/ Crash(w) \/ Restart(w)

(* The group protocol is quiet.                                            *)
LEMMA GroupShape ==
  ASSUME BatchInLog, NEW w \in Workers, GroupStep(w)
  PROVE  BatchInLog' /\ Quiet
<1>0. /\ Len(clicks) \in Nat
      /\ worker[w].pos \in 0 .. Len(clicks) /\ worker[w].hi \in 0 .. Len(clicks)
      /\ worker[w].idx \in 0 .. Len(clicks)
  BY LogsTyped DEF BatchInLog, WorkerState
<1>1. WorkerState' = WorkerState \/ clicks' # clicks
  BY DEF WorkerState
<1> USE DEF InApply, Engine, BeforeStreak
<1>2. CASE Poll(w)
  <2>1. PICK hi \in worker[w].pos + 1 .. Len(clicks) :
          worker' = [worker EXCEPT ![w] =
            [pc |-> "apply", pos |-> hi, idx |-> worker[w].pos + 1, hi |-> hi]]
    BY <1>2 DEF Poll
  <2>2. [pc |-> "apply", pos |-> hi, idx |-> worker[w].pos + 1, hi |-> hi] \in WorkerState
    BY <1>0, <2>1 DEF WorkerState
  <2>3. worker[w].pos + 1 \in 1 .. hi
    BY <1>0, <2>1
  <2>4. UNCHANGED <<clicks, committed, applied, tally, seen>>
    BY <1>2 DEF Poll, redis, counts, group
  <2> QED
    BY <1>1, <2>1, <2>2, <2>3, <2>4 DEF BatchInLog, Quiet
<1>3. CASE PollError(w) \/ Assign(w)
  <2>1. PICK pos \in 0 .. Len(clicks) : worker' = [worker EXCEPT ![w].pos = pos]
    BY <1>0, <1>3 DEF PollError, Assign, BatchInLog
  <2>2. UNCHANGED <<clicks, committed, applied, tally, seen>>
    BY <1>3 DEF PollError, Assign, redis, counts, group
  <2>3. [worker[w] EXCEPT !.pos = pos] =
          [pc |-> worker[w].pc, pos |-> pos, idx |-> worker[w].idx, hi |-> worker[w].hi]
    BY DEF BatchInLog, WorkerState
  <2>4. [pc |-> worker[w].pc, pos |-> pos, idx |-> worker[w].idx, hi |-> worker[w].hi]
          \in WorkerState
    BY <1>0, <2>1 DEF BatchInLog, WorkerState
  <2>5. worker' = [worker EXCEPT ![w] =
          [pc |-> worker[w].pc, pos |-> pos, idx |-> worker[w].idx, hi |-> worker[w].hi]]
    BY <2>1, <2>3 DEF BatchInLog
  <2> QED
    BY <1>1, <2>2, <2>4, <2>5 DEF BatchInLog, Quiet
<1>4. CASE Commit(w) \/ CommitError(w) \/ Crash(w) \/ Restart(w)
  <2>1. PICK pos \in 0 .. Len(clicks) : worker' = [worker EXCEPT ![w] = Idle(pos)]
                                        \/ worker' = [worker EXCEPT ![w] = Down]
    BY <1>0, <1>4 DEF Commit, CommitError, Crash, Restart
  <2>2. UNCHANGED <<clicks, applied, tally, seen>> /\ committed' \in 0 .. Len(clicks)
    BY <1>0, <1>4 DEF Commit, CommitError, Crash, Restart, redis, counts, group, BatchInLog
  <2>3. Down \in WorkerState /\ Idle(pos) \in WorkerState
    BY <1>0 DEF Down, Idle, WorkerState
  <2> QED
    BY <1>1, <2>1, <2>2, <2>3 DEF BatchInLog, Quiet, Down, Idle
<1> QED
  BY <1>2, <1>3, <1>4 DEF GroupStep

(* The steps that end an event without counting it.                        *)
EndStep(w) ==
  \/ SkipMalformed(w) \/ FirstSeeRepeat(w) \/ FirstSeeError(w) \/ GetMaxError(w)
  \/ Frame(w) \/ FrameError(w)

(* So is the end of an event.                                              *)
LEMMA EndShape ==
  ASSUME BatchInLog, NEW w \in Workers, EndStep(w)
  PROVE  BatchInLog' /\ Quiet
<1> USE DEF InApply, Engine, BeforeStreak, At
<1>1. worker[w].pc \in InApply /\ (Applied(w) \/ Abandon(w))
  BY DEF EndStep, SkipMalformed, FirstSeeRepeat, FirstSeeError, GetMaxError, Frame, FrameError
<1>2. UNCHANGED <<clicks, counts, group>> /\ seen \subseteq seen'
  <2>1. CASE SkipMalformed(w) \/ FirstSeeRepeat(w) \/ GetMaxError(w) \/ Frame(w) \/ FrameError(w)
    BY <2>1 DEF SkipMalformed, FirstSeeRepeat, GetMaxError, Frame, FrameError, redis
  <2>2. CASE FirstSeeError(w)
    BY <2>2 DEF FirstSeeError
  <2> QED
    BY <2>1, <2>2 DEF EndStep
<1>3. CASE Applied(w)
  BY <1>1, <1>2, <1>3, AppliedBatch DEF Quiet, counts, group, BatchInLog
<1>4. CASE Abandon(w)
  <2>1. /\ worker[w].pos \in 0 .. Len(clicks)
        /\ worker' = [worker EXCEPT ![w] = Idle(worker[w].pos)]
    BY <1>4 DEF Abandon, BatchInLog, WorkerState
  <2>2. BatchInLog'
    BY <1>2, <2>1, IdleBatch DEF group, BatchInLog
  <2> QED
    BY <1>2, <2>1, <2>2 DEF Quiet, counts, BatchInLog, Idle
<1> QED
  BY <1>1, <1>3, <1>4

(* The transaction took effect: the worker leaves for the engine layer or, *)
(* if the reply was lost, for the poll.                                    *)
Counts(w) ==
  /\ At(w, "tx")
  /\ Transaction(w)
  /\ Goto(w, "total") \/ worker' = [worker EXCEPT ![w] = Idle(worker[w].pos)]
  /\ UNCHANGED <<clicks, seen>>

(* And what leads to the transaction or fails in it.                       *)
LEMMA TransactionShape ==
  ASSUME BatchInLog, NEW w \in Workers, GetMax(w) \/ Exec(w) \/ ExecError(w)
  PROVE  BatchInLog' /\ (Quiet \/ Counts(w))
<1> USE DEF InApply, Engine, BeforeStreak, At
<1>1. CASE GetMax(w)
  <2>1. At(w, "max") /\ Goto(w, "tx") /\ UNCHANGED <<clicks, seen, counts, group>>
    BY <1>1 DEF GetMax, redis
  <2>2. BatchInLog'
    BY <2>1, GotoBatch DEF Pcs, group
  <2> QED
    BY <2>1, <2>2 DEF Quiet, counts, Goto, BatchInLog, WorkerState
<1>2. CASE Exec(w)
  <2>1. At(w, "tx") /\ Goto(w, "total") /\ UNCHANGED <<clicks, seen, group>> /\ Transaction(w)
    BY <1>2 DEF Exec
  <2>2. BatchInLog'
    BY <2>1, GotoBatch DEF Pcs, group
  <2> QED
    BY <2>1, <2>2 DEF Counts
<1>3. CASE ExecError(w)
  <2>1. /\ At(w, "tx") /\ UNCHANGED <<clicks, seen, group>>
        /\ worker[w].pos \in 0 .. Len(clicks)
        /\ worker' = [worker EXCEPT ![w] = Idle(worker[w].pos)]
        /\ Transaction(w) \/ UNCHANGED counts
    BY <1>3 DEF ExecError, Abandon, BatchInLog, WorkerState
  <2>2. BatchInLog'
    BY <2>1, IdleBatch DEF group, BatchInLog
  <2> QED
    BY <2>1, <2>2 DEF Quiet, Counts, counts, Idle, BatchInLog
<1> QED
  BY <1>1, <1>2, <1>3

(* Every step is quiet, wins the gate, or counts an event.                 *)
LEMMA StepShape ==
  ASSUME BatchInLog, [Next]_vars
  PROVE  BatchInLog' /\ (Quiet \/ \E w \in Workers : FirstSeeWins(w) \/ Counts(w))
<1>1. CASE UNCHANGED vars
  BY <1>1 DEF vars, redis, counts, group, BatchInLog, WorkerState, Quiet
<1>2. ASSUME NEW w \in Workers, Consume(w) \/ Misfortune(w) \/ Assign(w) \/ Restart(w)
      PROVE  BatchInLog' /\ (Quiet \/ FirstSeeWins(w) \/ Counts(w))
  <2>1. \/ EngineStep(w) \/ GroupStep(w) \/ EndStep(w)
        \/ GetMax(w) \/ Exec(w) \/ ExecError(w) \/ FirstSeeWins(w)
    BY <1>2 DEF Consume, Misfortune, EngineStep, GroupStep, EndStep
  <2>2. CASE EngineStep(w)
    <3>1. PICK pc \in Engine \ {"total"} : Goto(w, pc)
      BY <2>2, EngineShape
    <3>2. worker[w].pc \in Engine /\ UNCHANGED <<clicks, seen, counts, group>>
      BY <2>2, EngineShape
    <3>3. BatchInLog'
      BY <3>1, <3>2, GotoBatch DEF Pcs, group, InApply
    <3> QED
      BY <3>1, <3>2, <3>3 DEF Quiet, counts, Goto, BatchInLog, WorkerState, Engine, BeforeStreak
  <2>3. CASE FirstSeeWins(w)
    <3>1. At(w, "apply") /\ Goto(w, "max") /\ UNCHANGED <<clicks, group>>
      BY <2>3 DEF FirstSeeWins
    <3>2. BatchInLog'
      BY <3>1, GotoBatch DEF Pcs, InApply, group, At
    <3> QED
      BY <2>3, <3>2
  <2> QED
    BY <2>1, <2>2, <2>3, GroupShape, EndShape, TransactionShape
<1>3. ASSUME NEW u \in Users, NEW d \in Days, KeyExpires(u, d)
      PROVE  BatchInLog' /\ Quiet
  BY <1>3 DEF KeyExpires, counts, group, BatchInLog, WorkerState, Quiet
<1> QED
  BY <1>1, <1>2, <1>3 DEF Next

-----------------------------------------------------------------------------
(* The gate.                                                               *)

(* At the start nobody is past the gate.                                   *)
LEMMA InitGate == Init => BatchInLog /\ OneWinner
<1> SUFFICES ASSUME Init PROVE BatchInLog /\ OneWinner
  OBVIOUS
<1>1. clicks \in Logs /\ Len(clicks) \in Nat
  BY LogsTyped DEF Init
<1> QED
  BY <1>1 DEF Init, BatchInLog, OneWinner, WorkerState, Idle, Gated, InApply, Engine, BeforeStreak

(* A worker that counts its event lets go of it.                           *)
LEMMA CountsShape ==
  ASSUME BatchInLog, NEW w \in Workers, Counts(w)
  PROVE  /\ worker[w].idx \in DOMAIN clicks
         /\ applied' = applied \cup {worker[w].idx}
         /\ ~Gated(w)'
         /\ \A v \in Workers \ {w} : worker'[v] = worker[v]
         /\ UNCHANGED <<clicks, seen>>
<1>1. worker[w].idx \in 1 .. worker[w].hi /\ worker[w].hi \in 0 .. Len(clicks)
  BY DEF Counts, BatchInLog, WorkerState, At, InApply
<1>2. clicks \in Seq([ch : Nat \cup {Poison}, sub : Users, count : Nat, ts : Nat])
  BY LogsTyped DEF BatchInLog
<1> QED
  BY <1>1, <1>2 DEF Counts, Transaction, Goto, Gated, Idle, BatchInLog, WorkerState

(* The gate has one winner after every step.                               *)
LEMMA StepGate == BatchInLog /\ OneWinner /\ [Next]_vars => OneWinner'
<1> SUFFICES ASSUME BatchInLog, OneWinner, [Next]_vars PROVE OneWinner'
  OBVIOUS
<1> USE DEF OneWinner, Record
<1>1. CASE Quiet
  <2>1. \A v \in Workers : Gated(v)' => Gated(v) /\ Record(v)' = Record(v)
    BY <1>1 DEF Quiet, Gated
  <2> QED
    BY <1>1, <2>1 DEF Quiet
<1>2. ASSUME NEW w \in Workers, FirstSeeWins(w) PROVE OneWinner'
  <2>1. /\ \A v \in Workers \ {w} : worker'[v] = worker[v]
        /\ Gated(w)' /\ worker'[w].idx = worker[w].idx
    BY <1>2 DEF FirstSeeWins, Goto, Gated, BatchInLog, WorkerState
  <2>2. /\ Record(w).ch \notin seen /\ Record(w).ch # Poison
        /\ seen' = seen \cup {Record(w).ch}
        /\ UNCHANGED <<clicks, applied>>
    BY <1>2 DEF FirstSeeWins, counts
  <2>3. \A v \in Workers \ {w} : Gated(v)' = Gated(v) /\ Record(v)' = Record(v)
    BY <2>1, <2>2 DEF Gated
  <2>4. Record(w)' = Record(w)
    BY <2>1, <2>2
  <2> QED
    BY <2>1, <2>2, <2>3, <2>4
<1>3. ASSUME NEW w \in Workers, Counts(w) PROVE OneWinner'
  <2>1. Gated(w) /\ Record(w).ch \in seen
    BY <1>3 DEF Counts, Gated, At
  <2>2. \A v \in Workers : Gated(v)' => v # w /\ Gated(v) /\ Record(v)' = Record(v)
    BY <1>3, CountsShape DEF Gated
  <2> QED
    BY <1>3, <2>1, <2>2, CountsShape
<1> QED
  BY <1>1, <1>2, <1>3, StepShape

(* Between its SET NX and its transaction an event has one worker.         *)
THEOREM GateHolds == Spec => [](BatchInLog /\ OneWinner)
<1>1. BatchInLog /\ OneWinner /\ [Next]_vars => (BatchInLog /\ OneWinner)'
  BY StepShape, StepGate
<1> QED
  BY InitGate, <1>1, PTL DEF Spec

-----------------------------------------------------------------------------
(* What the gate let through.                                              *)

(* The event of w is still w's, or counted, or a failure is on record.     *)
Left(w) ==
  \/ Gated(w)' /\ worker'[w].idx = worker[w].idx
  \/ worker[w].idx \in applied'
  \/ <<User(w), "event">> \in torn'

(* No event that has passed the gate, or passes it now, is just forgotten. *)
Remembered ==
  /\ clicks' = clicks /\ applied \subseteq applied' /\ torn \subseteq torn'
  /\ \A w \in Workers : Gated(w) => Left(w)
  /\ \A ch \in seen' \ seen :
       \E w \in Workers : At(w, "apply") /\ Record(w).ch = ch /\ Left(w)

(* The same for the one worker that moves.                                 *)
LEMMA OneRemembers ==
  ASSUME NEW w \in Workers,
         clicks' = clicks, applied \subseteq applied', torn \subseteq torn',
         \A v \in Workers \ {w} : worker'[v] = worker[v],
         Gated(w) => Left(w),
         seen' = seen \/ (At(w, "apply") /\ seen' = seen \cup {Record(w).ch} /\ Left(w))
  PROVE  Remembered
BY DEF Remembered, Left, Gated

(* The group protocol: a worker that dies with an event leaves a record.   *)
LEMMA GroupRemembers ==
  ASSUME BatchInLog, NEW w \in Workers, GroupStep(w)
  PROVE  Remembered
<1> USE DEF Gated, At
<1>1. UNCHANGED <<clicks, applied, seen>> /\ torn \subseteq torn'
  BY DEF GroupStep, Poll, PollError, Commit, CommitError, Assign, Crash, Restart, redis, counts
<1>2. \A v \in Workers \ {w} : worker'[v] = worker[v]
  BY DEF GroupStep, Poll, PollError, Commit, CommitError, Assign, Crash, Restart, BatchInLog
<1>3. Gated(w) => Left(w)
  <2>1. CASE Crash(w)
    BY <2>1 DEF Crash, Left, Unfinished
  <2>2. CASE PollError(w) \/ Assign(w)
    <3>1. PICK pos : worker' = [worker EXCEPT ![w].pos = pos]
      BY <2>2 DEF PollError, Assign
    <3> QED
      BY <3>1 DEF Left, BatchInLog, WorkerState
  <2>3. CASE Poll(w) \/ Commit(w) \/ CommitError(w) \/ Restart(w)
    BY <2>3 DEF Poll, Commit, CommitError, Restart
  <2> QED
    BY <2>1, <2>2, <2>3 DEF GroupStep
<1> QED
  BY <1>1, <1>2, <1>3, OneRemembers

(* The gate and the transaction.                                           *)
LEMMA GateRemembers ==
  ASSUME BatchInLog, NEW w \in Workers,
         EndStep(w) \/ GetMax(w) \/ Exec(w) \/ ExecError(w) \/ FirstSeeWins(w)
  PROVE  Remembered
<1> USE DEF Gated, At, Tear
<1>0. \A v \in Workers \ {w} : worker'[v] = worker[v]
  BY DEF EndStep, SkipMalformed, FirstSeeRepeat, FirstSeeError, GetMaxError, Frame, FrameError,
         GetMax, Exec, ExecError, FirstSeeWins, Applied, Abandon, Goto, BatchInLog
<1>1. CASE SkipMalformed(w) \/ FirstSeeRepeat(w) \/ Frame(w) \/ FrameError(w)
  <2>1. UNCHANGED <<clicks, applied, seen>> /\ torn \subseteq torn' /\ ~Gated(w)
    BY <1>1 DEF SkipMalformed, FirstSeeRepeat, Frame, FrameError, redis, counts
  <2> QED
    BY <1>0, <2>1, OneRemembers
<1>2. CASE FirstSeeError(w)
  <2>1. UNCHANGED <<clicks, applied>> /\ torn \subseteq torn' /\ ~Gated(w)
    BY <1>2 DEF FirstSeeError, counts
  <2>2. seen' = seen \/ (At(w, "apply") /\ seen' = seen \cup {Record(w).ch} /\ Left(w))
    BY <1>2 DEF FirstSeeError, Left
  <2> QED
    BY <1>0, <2>1, <2>2, OneRemembers
<1>3. CASE GetMaxError(w)
  <2>1. UNCHANGED <<clicks, applied, seen>> /\ torn \subseteq torn' /\ Left(w)
    BY <1>3 DEF GetMaxError, redis, counts, Left
  <2> QED
    BY <1>0, <2>1, OneRemembers
<1>4. CASE GetMax(w) \/ FirstSeeWins(w)
  <2>1. UNCHANGED <<clicks, applied, torn>> /\ Left(w)
    BY <1>4 DEF GetMax, FirstSeeWins, redis, counts, Left, Goto, BatchInLog, WorkerState
  <2>2. seen' = seen \/ (At(w, "apply") /\ seen' = seen \cup {Record(w).ch} /\ Left(w))
    BY <1>4, <2>1 DEF GetMax, FirstSeeWins, redis
  <2> QED
    BY <1>0, <2>1, <2>2, OneRemembers
<1>5. CASE Exec(w) \/ ExecError(w)
  <2>1. UNCHANGED <<clicks, seen>> /\ applied \subseteq applied' /\ torn \subseteq torn'
    BY <1>5 DEF Exec, ExecError, Transaction, counts
  <2>2. Left(w)
    BY <1>5 DEF Exec, ExecError, Transaction, Left
  <2> QED
    BY <1>0, <2>1, <2>2, OneRemembers
<1> QED
  BY <1>1, <1>2, <1>3, <1>4, <1>5 DEF EndStep

(* A step of the engine layer takes no record of a failure back.           *)
LEMMA EngineTorn ==
  ASSUME NEW w \in Workers, EngineStep(w)
  PROVE  torn \subseteq torn'
BY DEF EngineStep, GetTotal, GetDay, GetWeek, Claim, ClaimError, LoadStreak, LoadStreakError,
       SaveStreak, ClaimQuests, ClaimQuestsError, ExpireDay, ExpireWeek, Tear

(* Every step remembers.                                                   *)
LEMMA StepRemembers ==
  ASSUME BatchInLog, [Next]_vars
  PROVE  Remembered
<1>1. CASE UNCHANGED vars
  BY <1>1 DEF vars, redis, counts, Remembered, Left, Gated
<1>2. ASSUME NEW w \in Workers, Consume(w) \/ Misfortune(w) \/ Assign(w) \/ Restart(w)
      PROVE  Remembered
  <2>1. \/ EngineStep(w) \/ GroupStep(w) \/ EndStep(w)
        \/ GetMax(w) \/ Exec(w) \/ ExecError(w) \/ FirstSeeWins(w)
    BY <1>2 DEF Consume, Misfortune, EngineStep, GroupStep, EndStep
  <2>2. CASE EngineStep(w)
    <3>1. worker[w].pc \in Engine /\ UNCHANGED <<clicks, seen, counts, group>>
      BY <2>2, EngineShape
    <3>2. \A v \in Workers \ {w} : worker'[v] = worker[v]
      BY <2>2, EngineShape DEF Goto, BatchInLog
    <3> QED
      BY <2>2, <3>1, <3>2, EngineTorn, OneRemembers DEF counts, Gated, Engine, BeforeStreak
  <2> QED
    BY <2>1, <2>2, GroupRemembers, GateRemembers
<1>3. ASSUME NEW u \in Users, NEW d \in Days, KeyExpires(u, d) PROVE Remembered
  BY <1>3 DEF KeyExpires, counts, Remembered, Left, Gated
<1> QED
  BY <1>1, <1>2, <1>3 DEF Next

(* No step loses sight of an event whose key is set.                       *)
LEMMA StepSeen == BatchInLog /\ SeenApplied /\ [Next]_vars => SeenApplied'
<1> SUFFICES ASSUME BatchInLog, SeenApplied, [Next]_vars,
                    NEW o \in DOMAIN clicks', (clicks[o].ch \in seen)'
             PROVE  \/ \E p \in applied' : clicks'[p].ch = clicks'[o].ch
                    \/ \E w \in Workers : Gated(w)' /\ Record(w)'.ch = clicks'[o].ch
                    \/ \E p \in DOMAIN clicks' : clicks'[p].ch = clicks'[o].ch
                                               /\ <<clicks'[p].sub, "event">> \in torn'
  BY DEF SeenApplied, Gated
<1>1. Remembered
  BY StepRemembers
<1>2. ASSUME NEW w \in Workers, worker[w].pc \in InApply, Left(w), Record(w).ch = clicks[o].ch
      PROVE  \/ \E p \in applied' : clicks'[p].ch = clicks'[o].ch
             \/ \E v \in Workers : Gated(v)' /\ Record(v)'.ch = clicks'[o].ch
             \/ \E p \in DOMAIN clicks' : clicks'[p].ch = clicks'[o].ch
                                        /\ <<clicks'[p].sub, "event">> \in torn'
  <2>1. worker[w].idx \in DOMAIN clicks /\ User(w) = clicks[worker[w].idx].sub
    BY <1>2, RecordTyped DEF User, Record
  <2> QED
    BY <1>1, <1>2, <2>1 DEF Left, Remembered, Record
<1>3. CASE clicks[o].ch \in seen
  BY <1>1, <1>2, <1>3 DEF SeenApplied, Remembered, Gated, InApply
<1>4. CASE clicks[o].ch \notin seen
  BY <1>1, <1>2, <1>4 DEF Remembered, At, InApply
<1> QED
  BY <1>3, <1>4

(* progressworker.go:130-131.  An event whose seen key is set is counted,  *)
(* or its worker is about to count it, or its worker failed in between.    *)
THEOREM SeenIsApplied == Spec => []SeenApplied
<1>1. Init => SeenApplied
  BY DEF Init, SeenApplied
<1>2. Spec => [](BatchInLog /\ OneWinner)
  BY GateHolds
<1> QED
  BY <1>1, <1>2, StepSeen, PTL DEF Spec

-----------------------------------------------------------------------------
(* The refinement.                                                         *)

(* Both modules have the calendar of Engines.                              *)
LEMMA SameCalendar ==
  /\ \A t : DateHCM(t) = Abstract!DateHCM(t)
  /\ \A d : WeekStart(d) = Abstract!WeekStart(d)
  /\ Weeks = Abstract!Weeks
<1>1. \A t : DateHCM(t) = Abstract!DateHCM(t)
  BY DEF DateHCM, LocalMinute, Abstract!DateHCM, Abstract!LocalMinute
<1>2. \A d : WeekStart(d) = Abstract!WeekStart(d)
  BY DEF WeekStart, Weekday, Abstract!WeekStart, Abstract!Weekday
<1> QED
  BY <1>1, <1>2 DEF Weeks, Abstract!Weeks

(* The initial states are Tally's.                                         *)
LEMMA InitImplements == Init => Abstract!Init
BY SameCalendar DEF Init, Abstract!Init

(* A step counts an event as Tally does, or changes nothing Tally sees.    *)
LEMMA StepImplements ==
  BatchInLog /\ OneWinner /\ [Next]_vars => [Abstract!Next]_(Abstract!vars)
<1> SUFFICES ASSUME BatchInLog, OneWinner, [Next]_vars
             PROVE  Abstract!Next \/ UNCHANGED Abstract!vars
  OBVIOUS
<1>1. CASE Quiet
  BY <1>1 DEF Quiet, tally, Abstract!vars, Abstract!views
<1>2. ASSUME NEW w \in Workers, FirstSeeWins(w) PROVE UNCHANGED Abstract!vars
  BY <1>2 DEF FirstSeeWins, counts, tally, Abstract!vars, Abstract!views
<1>3. ASSUME NEW w \in Workers, Counts(w) PROVE Abstract!Next
  <2> DEFINE o == worker[w].idx
  <2>1. o \in DOMAIN clicks /\ applied' = applied \cup {o} /\ UNCHANGED clicks
    BY <1>3, CountsShape
  <2>2. /\ clicks[o].ch # Poison
        /\ \A p \in applied : clicks[p].ch # clicks[o].ch
    BY <1>3 DEF Counts, OneWinner, Gated, At, Record
  <2>3. Abstract!CountEvent(clicks[o])
    BY <1>3, SameCalendar DEF Counts, Transaction, Tally, User, Today, Record, Abstract!CountEvent
  <2> QED
    BY <2>1, <2>2, <2>3 DEF Abstract!Count, Abstract!Next
<1> QED
  BY <1>1, <1>2, <1>3, StepShape

(* Every behaviour of the group is one of Tally: an event is counted       *)
(* everywhere in one step, and at most once per challenge.                 *)
THEOREM ImplementsTally == Spec => TallySpec
<1>1. Spec => [](BatchInLog /\ OneWinner)
  BY GateHolds
<1> QED
  BY <1>1, InitImplements, StepImplements, PTL DEF Spec, TallySpec, Abstract!Spec

-----------------------------------------------------------------------------
(* Streaks are earned.                                                     *)

(* A worker between the transaction and the store of the streak counted an *)
(* event of today, and a streak it holds is one its user has earned.       *)
Holds(w) ==
  /\ job[w].st \in Streak
  /\ job[w].st # NoStreak => /\ worker[w].pc \in Engine
                             /\ EarnedStreak(User(w), job[w].st)
  /\ worker[w].pc \in BeforeStreak => Today(w) \in DaysOf(User(w))

StreakInv ==
  /\ job = [w \in Workers |-> job[w]]
  /\ \A w \in Workers : "st" \in DOMAIN job[w] /\ Holds(w)
  /\ streak \in [Users -> Streak]
  /\ StreakEarned

(* Nobody has earned less by having contributed more.                      *)
LEMMA EarnedStays ==
  ASSUME clicks' = clicks, applied \subseteq applied', NEW u, NEW st, EarnedStreak(u, st)
  PROVE  EarnedStreak(u, st)'
<1>1. DaysOf(u) \subseteq DaysOf(u)'
  BY DEF DaysOf
<1> QED
  BY <1>1 DEF EarnedStreak, RunOf

(* The empty streak is earned by anybody.                                  *)
LEMMA NoneEarned == \A u : EarnedStreak(u, NoStreak)
BY DEF EarnedStreak, RunOf, NoStreak

(* Advance on a day of a contribution gives a streak that is earned.       *)
LEMMA AdvanceEarned ==
  ASSUME NEW u, NEW st \in Streak, EarnedStreak(u, st),
         NEW d \in Nat, d \in DaysOf(u), st.last # d
  PROVE  Advance(st, d) \in Streak /\ EarnedStreak(u, Advance(st, d))
<1> DEFINE n == IF st.last # Never /\ IsNextDay(st.last, d) THEN st.count + 1 ELSE 1
<1>1. /\ Advance(st, d) = [count |-> n, best |-> IF n > st.best THEN n ELSE st.best, last |-> d]
      /\ n \in Nat
  BY DEF Advance, Streak
<1>2. RunOf(u, d, n)
  <2>1. CASE st.last # Never /\ IsNextDay(st.last, d)
    <3>1. n = st.count + 1 /\ d = st.last + 1 /\ st.last \in Nat /\ st.count \in Nat
      BY <2>1 DEF IsNextDay, Streak
    <3>2. ASSUME NEW k \in 0 .. n - 1 PROVE d - k \in DaysOf(u)
      <4>1. CASE k = 0
        <5>1. d - k = d
          BY <4>1
        <5> QED
          BY <5>1
      <4>2. CASE k # 0
        <5>1. k - 1 \in 0 .. st.count - 1 /\ d - k = st.last - (k - 1)
          BY <3>1, <4>2
        <5> QED
          BY <5>1 DEF EarnedStreak, RunOf
      <4> QED
        BY <4>1, <4>2
    <3> QED
      BY <3>2 DEF RunOf
  <2>2. CASE ~(st.last # Never /\ IsNextDay(st.last, d))
    <3>1. n = 1 /\ \A k \in 0 .. n - 1 : d - k = d
      BY <2>2
    <3> QED
      BY <3>1 DEF RunOf
  <2> QED
    BY <2>1, <2>2
<1> HIDE DEF n
<1>3. st.best > 0 => \E e \in DaysOf(u) : RunOf(u, e, st.best)
  BY DEF EarnedStreak
<1>4. (IF n > st.best THEN n ELSE st.best) \in Nat
  BY <1>1 DEF Streak
<1>5. CASE n > st.best
  BY <1>1, <1>2, <1>4, <1>5 DEF EarnedStreak, Streak
<1>6. CASE ~(n > st.best)
  BY <1>1, <1>2, <1>3, <1>4, <1>6 DEF EarnedStreak, Streak
<1> QED
  BY <1>5, <1>6

-----------------------------------------------------------------------------
(* How the steps change what a worker holds.                               *)

(* A step of w after which w holds a streak of its user again, and nobody  *)
(* else's job or place is touched.                                         *)
LEMMA Carry ==
  ASSUME BatchInLog, StreakInv, NEW w \in Workers,
         clicks' = clicks, applied \subseteq applied',
         job' = [job EXCEPT ![w] = job'[w]],
         worker' = [worker EXCEPT ![w] = worker'[w]],
         "st" \in DOMAIN job'[w], Holds(w)',
         streak' \in [Users -> Streak], StreakEarned'
  PROVE  StreakInv'
<1>1. ASSUME NEW v \in Workers, v # w PROVE "st" \in DOMAIN job'[v] /\ Holds(v)'
  <2>1. job'[v] = job[v] /\ worker'[v] = worker[v] /\ Holds(v) /\ "st" \in DOMAIN job[v]
    BY <1>1 DEF StreakInv, BatchInLog
  <2>2. User(v)' = User(v) /\ Today(v)' = Today(v)
    BY <2>1 DEF User, Today, Record
  <2>3. DaysOf(User(v)) \subseteq DaysOf(User(v))'
    BY <2>2 DEF DaysOf
  <2>4. EarnedStreak(User(v), job[v].st) => EarnedStreak(User(v), job[v].st)'
    BY <2>1, <2>2, <2>3 DEF EarnedStreak, RunOf
  <2> QED
    BY <2>1, <2>2, <2>3, <2>4 DEF Holds
<1>2. job' = [v \in Workers |-> job'[v]]
  BY DEF StreakInv
<1> QED
  BY <1>1, <1>2 DEF StreakInv

(* The streaks of the users are earned by more contributions too.          *)
LEMMA StreaksStay ==
  ASSUME StreakInv, clicks' = clicks, applied \subseteq applied', streak' = streak
  PROVE  streak' \in [Users -> Streak] /\ StreakEarned'
<1>1. \A u \in Users : EarnedStreak(u, streak[u])'
  <2> TAKE u \in Users
  <2>1. EarnedStreak(u, streak[u])
    BY DEF StreakInv, StreakEarned
  <2> QED
    BY <2>1, EarnedStays DEF EarnedStreak, RunOf
<1> QED
  BY <1>1 DEF StreakInv, StreakEarned

(* The local variables of w change, but not the streak it holds.           *)
KeepsStreak(w) ==
  /\ job' = [job EXCEPT ![w] = job'[w]]
  /\ "st" \in DOMAIN job'[w]
  /\ job'[w].st = job[w].st

(* An assignment to another variable of applyEvent is such a change.       *)
LEMMA FieldChange ==
  ASSUME StreakInv, NEW w \in Workers, NEW x,
         \/ job' = [job EXCEPT ![w].max = x]
         \/ job' = [job EXCEPT ![w].total = x]
         \/ job' = [job EXCEPT ![w].sig = x]
         \/ job' = [job EXCEPT ![w].news = x]
         \/ job' = job
  PROVE  KeepsStreak(w)
<1> DEFINE j == job[w]
<1>1. job = [v \in Workers |-> job[v]] /\ "st" \in DOMAIN j
  BY DEF StreakInv
<1>2. PICK r : /\ job' = [job EXCEPT ![w] = r]
               /\ r \in {[j EXCEPT !.max = x], [j EXCEPT !.total = x], [j EXCEPT !.sig = x],
                          [j EXCEPT !.news = x], j}
  BY <1>1
<1>3. job'[w] = r
  BY <1>1, <1>2
<1>4. DOMAIN r = DOMAIN j /\ r.st = j.st
  BY <1>1, <1>2
<1> QED
  BY <1>1, <1>2, <1>3, <1>4 DEF KeepsStreak

(* A worker that loses its job holds nothing.                              *)
LEMMA JobEnds ==
  ASSUME StreakInv, NEW w \in Workers, job' = [job EXCEPT ![w] = NoJob],
         worker'[w].pc \notin Engine
  PROVE  /\ job' = [job EXCEPT ![w] = job'[w]]
         /\ "st" \in DOMAIN job'[w]
         /\ Holds(w)'
<1>1. job = [v \in Workers |-> job[v]]
  BY DEF StreakInv
<1>2. job'[w] = NoJob
  BY <1>1
<1>3. "st" \in DOMAIN NoJob /\ NoJob.st = NoStreak
  BY DEF NoJob
<1>4. NoStreak \in Streak
  BY DEF NoStreak, Streak
<1> QED
  BY <1>2, <1>3, <1>4 DEF Holds, Engine

(* A worker goes to another place with the same record.                    *)
LEMMA Moves ==
  ASSUME BatchInLog, NEW w \in Workers, NEW pc, Goto(w, pc)
  PROVE  /\ worker' = [worker EXCEPT ![w] = worker'[w]]
         /\ worker'[w].pc = pc /\ worker'[w].idx = worker[w].idx
BY DEF Goto, BatchInLog, WorkerState

-----------------------------------------------------------------------------
(* How the steps change the streaks.                                       *)

(* A step that keeps the streak w holds, on the way to or through the      *)
(* engine layer.                                                           *)
LEMMA KeepStep ==
  ASSUME BatchInLog, StreakInv, NEW w \in Workers, NEW pc, Goto(w, pc),
         KeepsStreak(w), UNCHANGED <<clicks, applied, streak>>,
         worker[w].pc \in Engine => pc \in Engine,
         pc \in BeforeStreak => worker[w].pc \in BeforeStreak
  PROVE  StreakInv'
<1>1. /\ worker' = [worker EXCEPT ![w] = worker'[w]]
      /\ worker'[w].pc = pc /\ worker'[w].idx = worker[w].idx
  BY Moves
<1>2. User(w)' = User(w) /\ Today(w)' = Today(w) /\ DaysOf(User(w))' = DaysOf(User(w))
  BY <1>1 DEF User, Today, Record, DaysOf
<1>3. EarnedStreak(User(w), job[w].st) => EarnedStreak(User(w), job[w].st)'
  BY <1>2 DEF EarnedStreak, RunOf, KeepsStreak
<1>4. Holds(w)'
  BY <1>1, <1>2, <1>3 DEF Holds, StreakInv, KeepsStreak, EarnedStreak, RunOf
<1> QED
  BY <1>1, <1>4, StreaksStay, Carry DEF KeepsStreak

(* The engine layer, but for the streak itself.                            *)
LEMMA EngineKeeps ==
  ASSUME BatchInLog, StreakInv, NEW w \in Workers,
         \/ GetTotal(w) \/ GetDay(w) \/ GetWeek(w) \/ Claim(w) \/ ClaimError(w)
         \/ LoadStreakError(w) \/ ClaimQuests(w) \/ ClaimQuestsError(w)
         \/ ExpireDay(w) \/ ExpireWeek(w)
  PROVE  StreakInv'
<1> USE DEF At, Engine, BeforeStreak, redis, counts
<1>1. CASE GetTotal(w)
  <2>1. KeepsStreak(w)
    BY <1>1, FieldChange DEF GetTotal
  <2> QED
    BY <1>1, <2>1, KeepStep DEF GetTotal
<1>2. CASE GetDay(w)
  <2>1. KeepsStreak(w)
    BY <1>2, FieldChange DEF GetDay
  <2> QED
    BY <1>2, <2>1, KeepStep DEF GetDay
<1>3. CASE GetWeek(w)
  <2>1. KeepsStreak(w)
    BY <1>3, FieldChange DEF GetWeek
  <2> QED
    BY <1>3, <2>1, KeepStep DEF GetWeek
<1>4. CASE Claim(w)
  <2>1. KeepsStreak(w)
    BY <1>4, FieldChange DEF Claim
  <2> QED
    BY <1>4, <2>1, KeepStep DEF Claim
<1>5. CASE ClaimError(w)
  <2>1. KeepsStreak(w)
    BY <1>5, FieldChange DEF ClaimError
  <2> QED
    BY <1>5, <2>1, KeepStep DEF ClaimError
<1>6. CASE LoadStreakError(w)
  <2>1. KeepsStreak(w)
    BY <1>6, FieldChange DEF LoadStreakError
  <2> QED
    BY <1>6, <2>1, KeepStep DEF LoadStreakError
<1>7. CASE ClaimQuests(w)
  <2>1. KeepsStreak(w)
    BY <1>7, FieldChange DEF ClaimQuests, Grant
  <2> QED
    BY <1>7, <2>1, KeepStep DEF ClaimQuests
<1>8. CASE ClaimQuestsError(w)
  <2>1. KeepsStreak(w)
    BY <1>8, FieldChange DEF ClaimQuestsError, Grant
  <2> QED
    BY <1>8, <2>1, KeepStep DEF ClaimQuestsError
<1>9. CASE ExpireDay(w)
  <2>1. KeepsStreak(w)
    BY <1>9, FieldChange DEF ExpireDay
  <2> QED
    BY <1>9, <2>1, KeepStep DEF ExpireDay
<1>10. CASE ExpireWeek(w)
  <2>1. KeepsStreak(w)
    BY <1>10, FieldChange DEF ExpireWeek
  <2> QED
    BY <1>10, <2>1, KeepStep DEF ExpireWeek
<1> QED
  BY <1>1, <1>2, <1>3, <1>4, <1>5, <1>6, <1>7, <1>8, <1>9, <1>10

(* On to the transaction.                                                  *)
LEMMA GateKeeps ==
  ASSUME BatchInLog, StreakInv, NEW w \in Workers, FirstSeeWins(w) \/ GetMax(w)
  PROVE  StreakInv'
<1> USE DEF At, Engine, BeforeStreak, redis, counts
<1>1. CASE FirstSeeWins(w)
  <2>1. KeepsStreak(w)
    BY <1>1, FieldChange DEF FirstSeeWins
  <2> QED
    BY <1>1, <2>1, KeepStep DEF FirstSeeWins
<1>2. CASE GetMax(w)
  <2>1. KeepsStreak(w)
    BY <1>2, FieldChange DEF GetMax
  <2> QED
    BY <1>2, <2>1, KeepStep DEF GetMax
<1> QED
  BY <1>1, <1>2

(* The transaction makes today a day of the user.                          *)
LEMMA ExecKeeps ==
  ASSUME BatchInLog, StreakInv, NEW w \in Workers, Exec(w)
  PROVE  StreakInv'
<1>1. /\ At(w, "tx") /\ Goto(w, "total")
      /\ applied' = applied \cup {worker[w].idx}
      /\ UNCHANGED <<clicks, streak, job>>
  BY DEF Exec, Transaction
<1>2. KeepsStreak(w)
  BY <1>1, FieldChange
<1>3. /\ worker' = [worker EXCEPT ![w] = worker'[w]]
      /\ worker'[w].pc = "total" /\ worker'[w].idx = worker[w].idx
  BY <1>1, Moves
<1>4. User(w)' = User(w) /\ Today(w)' = Today(w)
  BY <1>1, <1>3 DEF User, Today, Record
<1>5. Today(w)' \in DaysOf(User(w))'
  BY <1>1, <1>4 DEF DaysOf, User, Today, Record
<1>6. job[w].st = NoStreak
  BY <1>1 DEF StreakInv, Holds, At, Engine, BeforeStreak
<1>7. Holds(w)'
  BY <1>2, <1>5, <1>6 DEF Holds, StreakInv, KeepsStreak
<1> QED
  BY <1>1, <1>2, <1>3, <1>7, StreaksStay, Carry DEF KeepsStreak

(* The streak is read: it is the user's.                                   *)
LEMMA LoadKeeps ==
  ASSUME BatchInLog, StreakInv, NEW w \in Workers, LoadStreak(w)
  PROVE  StreakInv'
<1>1. /\ At(w, "load") /\ Goto(w, "streak")
      /\ job' = [job EXCEPT ![w].st = streak[User(w)]]
      /\ UNCHANGED <<clicks, applied, streak>>
  BY DEF LoadStreak, redis, counts
<1>2. /\ job' = [job EXCEPT ![w] = job'[w]]
      /\ "st" \in DOMAIN job'[w]
      /\ job'[w].st = streak[User(w)]
  <2>1. job = [v \in Workers |-> job[v]] /\ "st" \in DOMAIN job[w]
    BY DEF StreakInv
  <2>2. job' = [job EXCEPT ![w] = [job[w] EXCEPT !.st = streak[User(w)]]]
    BY <1>1
  <2>3. job'[w] = [job[w] EXCEPT !.st = streak[User(w)]]
    BY <2>1, <2>2
  <2> QED
    BY <2>1, <2>2, <2>3
<1>3. /\ worker' = [worker EXCEPT ![w] = worker'[w]]
      /\ worker'[w].pc = "streak" /\ worker'[w].idx = worker[w].idx
  BY <1>1, Moves
<1>4. User(w)' = User(w) /\ Today(w)' = Today(w) /\ DaysOf(User(w))' = DaysOf(User(w))
  BY <1>1, <1>3 DEF User, Today, Record, DaysOf
<1>5. User(w) \in Users
  BY <1>1, RecordTyped DEF At, InApply, Engine, BeforeStreak
<1>6. streak[User(w)] \in Streak /\ EarnedStreak(User(w), streak[User(w)])
  BY <1>5 DEF StreakInv, StreakEarned
<1>7. EarnedStreak(User(w), streak[User(w)])'
  BY <1>1, <1>4, <1>6 DEF EarnedStreak, RunOf
<1>8. Today(w) \in DaysOf(User(w))
  BY <1>1 DEF StreakInv, Holds, At, BeforeStreak
<1>9. Holds(w)'
  <2>1. EarnedStreak(User(w), job[w].st)'
    BY <1>1, <1>2, <1>4, <1>7 DEF EarnedStreak, RunOf
  <2> QED
    BY <1>2, <1>3, <1>4, <1>6, <1>8, <2>1 DEF Holds, Engine, BeforeStreak
<1> QED
  BY <1>1, <1>2, <1>3, <1>9, StreaksStay, Carry

(* The streak is stored: advanced from the one read, it is earned.         *)
LEMMA SaveKeeps ==
  ASSUME BatchInLog, StreakInv, NEW w \in Workers, SaveStreak(w)
  PROVE  StreakInv'
<1>1. /\ At(w, "streak") /\ Goto(w, "quests")
      /\ UNCHANGED <<clicks, applied, job>>
      /\ \/ streak' = streak
         \/ /\ job[w].st.last # Today(w)
            /\ streak' = [streak EXCEPT ![User(w)] = Advance(job[w].st, Today(w))]
  BY DEF SaveStreak, counts
<1>2. KeepsStreak(w)
  BY <1>1, FieldChange
<1>3. CASE streak' = streak
  BY <1>1, <1>2, <1>3, KeepStep DEF At, Engine, BeforeStreak
<1>4. CASE /\ job[w].st.last # Today(w)
           /\ streak' = [streak EXCEPT ![User(w)] = Advance(job[w].st, Today(w))]
  <2> DEFINE u == User(w)
  <2>1. u \in Users /\ Today(w) \in Nat
    BY <1>1, RecordTyped DEF At, InApply, Engine, BeforeStreak
  <2>2. job[w].st \in Streak /\ EarnedStreak(u, job[w].st) /\ Today(w) \in DaysOf(u)
    BY <1>1, NoneEarned DEF StreakInv, Holds, At, BeforeStreak
  <2>3. /\ Advance(job[w].st, Today(w)) \in Streak
        /\ EarnedStreak(u, Advance(job[w].st, Today(w)))
    BY <1>4, <2>1, <2>2, AdvanceEarned
  <2>4. \A v \in Users : streak'[v] \in Streak /\ EarnedStreak(v, streak'[v])
    BY <1>4, <2>1, <2>3 DEF StreakInv, StreakEarned
  <2>5. streak' \in [Users -> Streak] /\ StreakEarned'
    <3>1. streak' \in [Users -> Streak]
      BY <1>4, <2>4 DEF StreakInv
    <3>2. ASSUME NEW v \in Users PROVE EarnedStreak(v, streak[v])'
      <4>1. DaysOf(v)' = DaysOf(v)
        BY <1>1 DEF DaysOf
      <4> QED
        BY <2>4, <4>1 DEF EarnedStreak, RunOf
    <3> QED
      BY <3>1, <3>2 DEF StreakEarned
  <2>6. /\ worker' = [worker EXCEPT ![w] = worker'[w]]
        /\ worker'[w].pc = "quests" /\ worker'[w].idx = worker[w].idx
    BY <1>1, Moves
  <2>7. EarnedStreak(User(w), job[w].st)'
    BY <1>1, <2>2, <2>6 DEF EarnedStreak, RunOf, DaysOf, User, Record
  <2>8. Holds(w)'
    BY <1>1, <2>2, <2>6, <2>7 DEF Holds, Engine, BeforeStreak
  <2> QED
    BY <1>1, <1>2, <2>5, <2>6, <2>8, Carry DEF KeepsStreak
<1> QED
  BY <1>1, <1>3, <1>4

(* The end of apply(), with or without an error, and the end of a worker.  *)
LEMMA EndKeeps ==
  ASSUME BatchInLog, StreakInv, NEW w \in Workers,
         EndStep(w) \/ ExecError(w) \/ Crash(w)
  PROVE  StreakInv'
<1>1. /\ job' = [job EXCEPT ![w] = NoJob]
      /\ \/ worker' = [worker EXCEPT ![w] = NextRecord(worker[w])]
         \/ worker' = [worker EXCEPT ![w] = Idle(worker[w].pos)]
         \/ worker' = [worker EXCEPT ![w] = Down]
  BY DEF EndStep, SkipMalformed, FirstSeeRepeat, FirstSeeError, GetMaxError, Frame, FrameError,
         ExecError, Crash, Applied, Abandon
<1>2. /\ worker' = [worker EXCEPT ![w] = worker'[w]]
      /\ worker'[w].pc \in {"apply", "commit", "poll", "down"}
  <2>1. worker[w] \in WorkerState /\ worker = [v \in Workers |-> worker[v]]
    BY DEF BatchInLog
  <2>2. NextRecord(worker[w]).pc \in {"apply", "commit"}
    BY <2>1 DEF NextRecord, WorkerState
  <2> QED
    BY <1>1, <2>1, <2>2 DEF Idle, Down
<1>3. UNCHANGED <<clicks, streak>> /\ applied \subseteq applied'
  <2>1. CASE EndStep(w)
    BY <2>1 DEF EndStep, SkipMalformed, FirstSeeRepeat, FirstSeeError, GetMaxError, Frame,
                FrameError, redis, counts
  <2>2. CASE ExecError(w)
    BY <2>2 DEF ExecError, Transaction, counts
  <2>3. CASE Crash(w)
    BY <2>3 DEF Crash, redis, counts
  <2> QED
    BY <2>1, <2>2, <2>3
<1> QED
  BY <1>1, <1>2, <1>3, JobEnds, StreaksStay, Carry DEF Engine, BeforeStreak

(* The consumer group protocol touches no job.                             *)
LEMMA GroupKeeps ==
  ASSUME BatchInLog, StreakInv, NEW w \in Workers, GroupStep(w), ~Crash(w)
  PROVE  StreakInv'
<1>1. UNCHANGED <<clicks, applied, streak, job>>
  BY DEF GroupStep, Poll, PollError, Commit, CommitError, Assign, Restart, redis, counts
<1>2. /\ worker' = [worker EXCEPT ![w] = worker'[w]]
      /\ \/ worker[w].pc \notin Engine /\ worker'[w].pc \notin Engine
         \/ worker'[w].pc = worker[w].pc /\ worker'[w].idx = worker[w].idx
  <2> USE DEF Engine, BeforeStreak, At
  <2>1. worker = [v \in Workers |-> worker[v]] /\ worker[w] \in WorkerState
    BY DEF BatchInLog
  <2>2. CASE Poll(w)
    BY <2>1, <2>2 DEF Poll
  <2>3. CASE Commit(w) \/ CommitError(w) \/ Restart(w)
    BY <2>1, <2>3 DEF Commit, CommitError, Restart, Idle
  <2>4. CASE PollError(w) \/ Assign(w)
    <3>1. PICK pos : worker' = [worker EXCEPT ![w].pos = pos]
      BY <2>4 DEF PollError, Assign
    <3> QED
      BY <2>1, <3>1 DEF WorkerState
  <2> QED
    BY <2>2, <2>3, <2>4 DEF GroupStep
<1>3. KeepsStreak(w)
  BY <1>1, FieldChange
<1>4. Holds(w)'
  <2>1. CASE worker[w].pc \notin Engine /\ worker'[w].pc \notin Engine
    BY <1>1, <1>2, <2>1 DEF Holds, StreakInv, Engine
  <2>2. CASE worker'[w].pc = worker[w].pc /\ worker'[w].idx = worker[w].idx
    <3>1. User(w)' = User(w) /\ Today(w)' = Today(w) /\ DaysOf(User(w))' = DaysOf(User(w))
      BY <1>1, <2>2 DEF User, Today, Record, DaysOf
    <3>2. EarnedStreak(User(w), job[w].st) => EarnedStreak(User(w), job[w].st)'
      BY <1>1, <3>1 DEF EarnedStreak, RunOf
    <3> QED
      BY <1>1, <2>2, <3>1, <3>2 DEF Holds, StreakInv
  <2> QED
    BY <1>2, <2>1, <2>2
<1> QED
  BY <1>1, <1>2, <1>3, <1>4, StreaksStay, Carry DEF KeepsStreak

(* Steps that leave the engine layer's variables alone.                    *)
LEMMA IdleKeeps ==
  ASSUME StreakInv, UNCHANGED <<clicks, applied, streak, worker, job>>
  PROVE  StreakInv'
<1>1. \A u : DaysOf(u)' = DaysOf(u)
  BY DEF DaysOf
<1>2. ASSUME NEW w \in Workers PROVE Holds(w)'
  <2>1. Holds(w)
    BY DEF StreakInv
  <2>2. User(w)' = User(w) /\ Today(w)' = Today(w)
    BY DEF User, Today, Record
  <2>3. DaysOf(User(w))' = DaysOf(User(w))
    BY <2>2 DEF DaysOf
  <2> QED
    BY <2>1, <2>2, <2>3 DEF Holds, EarnedStreak, RunOf
<1> QED
  BY <1>2, StreaksStay DEF StreakInv

(* Every step keeps the invariant.                                         *)
LEMMA StepKeepsStreaks ==
  BatchInLog /\ StreakInv /\ [Next]_vars => StreakInv'
<1> SUFFICES ASSUME BatchInLog, StreakInv, [Next]_vars PROVE StreakInv'
  OBVIOUS
<1>1. CASE UNCHANGED vars
  BY <1>1, IdleKeeps DEF vars, redis, counts
<1>2. ASSUME NEW w \in Workers, Consume(w) \/ Misfortune(w) \/ Assign(w) \/ Restart(w)
      PROVE  StreakInv'
  <2>1. \/ EngineStep(w) \/ GroupStep(w) \/ EndStep(w)
        \/ GetMax(w) \/ Exec(w) \/ ExecError(w) \/ FirstSeeWins(w)
    BY <1>2 DEF Consume, Misfortune, EngineStep, GroupStep, EndStep
  <2>2. CASE EngineStep(w)
    BY <2>2, EngineKeeps, LoadKeeps, SaveKeeps DEF EngineStep
  <2>3. CASE GroupStep(w)
    BY <2>3, GroupKeeps, EndKeeps
  <2>4. CASE EndStep(w) \/ ExecError(w)
    BY <2>4, EndKeeps
  <2>5. CASE FirstSeeWins(w) \/ GetMax(w)
    BY <2>5, GateKeeps
  <2>6. CASE Exec(w)
    BY <2>6, ExecKeeps
  <2> QED
    BY <2>1, <2>2, <2>3, <2>4, <2>5, <2>6
<1>3. ASSUME NEW u \in Users, NEW d \in Days, KeyExpires(u, d) PROVE StreakInv'
  BY <1>3, IdleKeeps DEF KeyExpires, counts
<1> QED
  BY <1>1, <1>2, <1>3 DEF Next

(* At the start nobody holds a streak, and nobody has one.                 *)
LEMMA InitStreaks == Init => StreakInv
<1> SUFFICES ASSUME Init PROVE StreakInv
  OBVIOUS
<1>1. NoStreak \in Streak /\ "st" \in DOMAIN NoJob /\ NoJob.st = NoStreak
  BY DEF NoStreak, Streak, NoJob
<1>2. /\ job = [w \in Workers |-> NoJob]
      /\ worker = [w \in Workers |-> Idle(0)]
      /\ streak = [u \in Users |-> NoStreak]
  BY DEF Init
<1>3. \A w \in Workers : Holds(w)
  BY <1>1, <1>2 DEF Holds, Idle, BeforeStreak
<1> QED
  BY <1>1, <1>2, <1>3, NoneEarned DEF StreakInv, StreakEarned

(* streak.go:14-21.  The user has contributed on every day a stored streak *)
(* and its best are made of, whatever the order of the events, overlapping *)
(* owners, crashes and lost reads and writes do.                           *)
THEOREM StreakIsEarned == Spec => []StreakEarned
<1>1. BatchInLog /\ OneWinner /\ StreakInv /\ [Next]_vars
        => (BatchInLog /\ OneWinner /\ StreakInv)'
  BY StepShape, StepGate, StepKeepsStreaks
<1>2. StreakInv => StreakEarned
  BY DEF StreakInv
<1> QED
  BY InitGate, InitStreaks, <1>1, <1>2, PTL DEF Spec

-----------------------------------------------------------------------------
(* Types.                                                                  *)

(* The local variables of applyEvent.                                      *)
IsJob(r) ==
  /\ r = [max |-> r.max, total |-> r.total, sig |-> r.sig, st |-> r.st, news |-> r.news]
  /\ r.max \in Nat /\ r.total \in Nat /\ r.sig \in Signal /\ r.st \in Streak

JobsTyped ==
  /\ job = [w \in Workers |-> job[w]]
  /\ \A w \in Workers : IsJob(job[w])

(* The days of a week on which a user contributed can be counted.          *)
FiniteWeeks == \A u \in Users : \A k \in Weeks : IsFiniteSet(weekdays[u][k])

Types == TypeOK /\ BatchInLog /\ JobsTyped /\ FiniteWeeks

(* The event in hand is one of the log's.                                  *)
LEMMA EventTyped ==
  ASSUME BatchInLog, NEW w \in Workers, worker[w].pc \in InApply
  PROVE  /\ worker[w].idx \in DOMAIN clicks
         /\ Record(w) \in [ch : Nat \cup {Poison}, sub : Users, count : Nat, ts : Nat]
         /\ User(w) \in Users /\ Today(w) \in Days /\ ThisWeek(w) \in Weeks
         /\ Record(w).count \in Nat
<1> DEFINE Event == [ch : Nat \cup {Poison}, sub : Users, count : Nat, ts : Nat]
<1>1. clicks \in Seq(Event) /\ worker[w].idx \in DOMAIN clicks
  BY LogsTyped, RecordTyped DEF BatchInLog
<1>2. Record(w) \in Event
  <2> HIDE DEF Event
  <2> QED
    BY <1>1 DEF Record
<1>3. Today(w) \in Days
  BY <1>1, LogsTyped DEF BatchInLog, Today, Record
<1>4. ThisWeek(w) \in Weeks
  BY <1>3 DEF ThisWeek, Weeks
<1> QED
  BY <1>1, <1>2, <1>3, <1>4 DEF User

(* An assignment to the job of w.                                          *)
LEMMA JobSet ==
  ASSUME JobsTyped, NEW w \in Workers, NEW r, job' = [job EXCEPT ![w] = r]
  PROVE  /\ job'[w] = r
         /\ \A v \in Workers : v # w => job'[v] = job[v]
         /\ IsJob(r) => JobsTyped'
<1>1. job = [v \in Workers |-> job[v]] /\ \A v \in Workers : IsJob(job[v])
  BY DEF JobsTyped
<1>2. job'[w] = r /\ \A v \in Workers : v # w => job'[v] = job[v]
  BY <1>1
<1>3. job' = [v \in Workers |-> job'[v]]
  BY <1>1
<1>4. IsJob(r) => \A v \in Workers : IsJob(job'[v])
  BY <1>1, <1>2
<1> QED
  BY <1>2, <1>3, <1>4 DEF JobsTyped, IsJob

(* An assignment to one of its fields.                                     *)
LEMMA FieldSet ==
  ASSUME NEW r, IsJob(r), NEW x
  PROVE  /\ [r EXCEPT !.max = x] =
              [max |-> x, total |-> r.total, sig |-> r.sig, st |-> r.st, news |-> r.news]
         /\ [r EXCEPT !.total = x] =
              [max |-> r.max, total |-> x, sig |-> r.sig, st |-> r.st, news |-> r.news]
         /\ [r EXCEPT !.sig = x] =
              [max |-> r.max, total |-> r.total, sig |-> x, st |-> r.st, news |-> r.news]
         /\ [r EXCEPT !.st = x] =
              [max |-> r.max, total |-> r.total, sig |-> r.sig, st |-> x, news |-> r.news]
         /\ [r EXCEPT !.news = x] =
              [max |-> r.max, total |-> r.total, sig |-> r.sig, st |-> r.st, news |-> x]
         /\ x \in Nat => IsJob([r EXCEPT !.max = x]) /\ IsJob([r EXCEPT !.total = x])
         /\ x \in Signal => IsJob([r EXCEPT !.sig = x])
         /\ x \in Streak => IsJob([r EXCEPT !.st = x])
         /\ IsJob([r EXCEPT !.news = x])
<1>1. r = [max |-> r.max, total |-> r.total, sig |-> r.sig, st |-> r.st, news |-> r.news]
  BY DEF IsJob
<1>2. /\ [r EXCEPT !.max = x] =
           [max |-> x, total |-> r.total, sig |-> r.sig, st |-> r.st, news |-> r.news]
      /\ [r EXCEPT !.total = x] =
           [max |-> r.max, total |-> x, sig |-> r.sig, st |-> r.st, news |-> r.news]
  BY <1>1
<1>3. /\ [r EXCEPT !.sig = x] =
           [max |-> r.max, total |-> r.total, sig |-> x, st |-> r.st, news |-> r.news]
      /\ [r EXCEPT !.st = x] =
           [max |-> r.max, total |-> r.total, sig |-> r.sig, st |-> x, news |-> r.news]
  BY <1>1
<1>4. [r EXCEPT !.news = x] =
        [max |-> r.max, total |-> r.total, sig |-> r.sig, st |-> r.st, news |-> x]
  BY <1>1
<1> QED
  BY <1>2, <1>3, <1>4 DEF IsJob

(* What is read back has its type.                                         *)
LEMMA SignalsTyped ==
  ASSUME Types, NEW s \in Signal, NEW u \in Users, NEW d \in Days
  PROVE  DaySignals(s, u, d) \in Signal /\ WeekSignals(s, u, d) \in Signal
<1> DEFINE k == WeekStart(d)
           score == [v \in Users |-> week[v][k]]
           days == Cardinality(weekdays[u][k])
           rank == RankOf(score, u)
<1>1. k \in Weeks
  BY DEF Weeks
<1>2. /\ daily[u][d].clicks \in Nat /\ daily[u][d].batches \in Nat
      /\ maxbatch[u][d] \in Nat /\ week[u][k] \in Nat
  BY <1>1 DEF Types, TypeOK
<1>3. days \in Nat
  <2>1. IsFiniteSet(weekdays[u][k])
    BY <1>1 DEF Types, FiniteWeeks
  <2> QED
    BY <2>1, FS_CardinalityType
<1>4. rank \in Nat
  <2> DEFINE ahead == {v \in Ranked(score) : Before(score, v, u)}
  <2>1. ahead \in SUBSET Users
    BY DEF Ranked
  <2>2. IsFiniteSet(ahead)
    BY <2>1, FinitelyMany, FS_Subset, Zenon
  <2>3. Cardinality(ahead) \in Nat
    BY <2>2, FS_CardinalityType, Zenon
  <2> HIDE DEF ahead
  <2>4. rank = 1 + Cardinality(ahead) \/ rank = 0
    BY DEF RankOf, ahead
  <2> QED
    BY <2>3, <2>4
<1> HIDE DEF k, days, rank
<1>5. DaySignals(s, u, d) \in Signal
  BY <1>2, <1>3 DEF DaySignals, Signal, days, k
<1>6. WeekSignals(s, u, d) \in Signal
  BY <1>2, <1>4 DEF WeekSignals, Signal, rank, k
<1> QED
  BY <1>5, <1>6

(* And so does it with a zero in place of a field.                         *)
LEMMA BlankTyped ==
  ASSUME NEW s \in Signal, NEW f \in {"clicks", "batches", "maxbatch", "days", "week", "rank"}
  PROVE  [s EXCEPT ![f] = 0] \in Signal
BY DEF Signal

-----------------------------------------------------------------------------
(* What one worker's step leaves alone.                                    *)

WorkerStep(w) == Consume(w) \/ Misfortune(w) \/ Assign(w) \/ Restart(w)

(* The engine's steps that only read.                                      *)
ReadStep(w) ==
  GetTotal(w) \/ GetDay(w) \/ GetWeek(w) \/ LoadStreak(w) \/ LoadStreakError(w)

(* The log stays, counts and records of failures are not taken back, and   *)
(* nobody but w is touched.                                                *)
Frame1(w) ==
  /\ clicks' = clicks /\ applied \subseteq applied' /\ torn \subseteq torn'
  /\ \A v \in Workers \ {w} : worker'[v] = worker[v] /\ job'[v] = job[v]

(* What every step of a worker is one of.                                  *)
LEMMA StepKinds ==
  ASSUME NEW w \in Workers, WorkerStep(w)
  PROVE  \/ ReadStep(w) \/ Claim(w) \/ ClaimError(w) \/ SaveStreak(w)
         \/ ClaimQuests(w) \/ ClaimQuestsError(w) \/ ExpireDay(w) \/ ExpireWeek(w)
         \/ GroupStep(w) \/ EndStep(w) \/ GetMax(w) \/ Exec(w) \/ ExecError(w)
         \/ FirstSeeWins(w)
BY DEF WorkerStep, Consume, Misfortune, ReadStep, GroupStep, EndStep

(* Where a step puts the worker, and what it does to its job.              *)
LEMMA StepFrame ==
  ASSUME Types, NEW w \in Workers, WorkerStep(w)
  PROVE  Frame1(w)
<1>1. worker = [v \in Workers |-> worker[v]] /\ job = [v \in Workers |-> job[v]]
  BY DEF Types, BatchInLog, JobsTyped
<1> USE DEF Frame1, Tear
<1>2. CASE ReadStep(w)
  BY <1>1, <1>2 DEF ReadStep, GetTotal, GetDay, GetWeek, LoadStreak, LoadStreakError,
                    Goto, redis, counts
<1>3. CASE Claim(w) \/ ClaimError(w) \/ SaveStreak(w)
  BY <1>1, <1>3 DEF Claim, ClaimError, SaveStreak, Goto, counts
<1>4. CASE ClaimQuests(w) \/ ClaimQuestsError(w) \/ ExpireDay(w) \/ ExpireWeek(w)
  BY <1>1, <1>4 DEF ClaimQuests, ClaimQuestsError, ExpireDay, ExpireWeek, Grant, Goto, counts
<1>5. CASE GroupStep(w)
  BY <1>1, <1>5 DEF GroupStep, Poll, PollError, Commit, CommitError, Assign, Crash, Restart,
                    redis, counts
<1>6. CASE EndStep(w)
  BY <1>1, <1>6 DEF EndStep, SkipMalformed, FirstSeeRepeat, FirstSeeError, GetMaxError, Frame,
                    FrameError, Applied, Abandon, redis, counts
<1>7. CASE GetMax(w) \/ FirstSeeWins(w)
  BY <1>1, <1>7 DEF GetMax, FirstSeeWins, Goto, redis, counts
<1>8. CASE Exec(w) \/ ExecError(w)
  BY <1>1, <1>8 DEF Exec, ExecError, Transaction, Abandon, Goto, counts
<1> QED
  BY <1>2, <1>3, <1>4, <1>5, <1>6, <1>7, <1>8, StepKinds

(* The transaction took effect, and was seen to or not.                    *)
CountStep(w) == Exec(w) \/ (ExecError(w) /\ ~UNCHANGED counts)

(* Only a transaction changes a counter.                                   *)
LEMMA StepCounts ==
  ASSUME NEW w \in Workers, WorkerStep(w)
  PROVE  UNCHANGED counts \/ CountStep(w)
<1>1. CASE ReadStep(w)
  BY <1>1 DEF ReadStep, GetTotal, GetDay, GetWeek, LoadStreak, LoadStreakError, redis
<1>2. CASE Claim(w) \/ ClaimError(w) \/ SaveStreak(w)
  BY <1>2 DEF Claim, ClaimError, SaveStreak
<1>3. CASE ClaimQuests(w) \/ ClaimQuestsError(w) \/ ExpireDay(w) \/ ExpireWeek(w)
  BY <1>3 DEF ClaimQuests, ClaimQuestsError, ExpireDay, ExpireWeek
<1>4. CASE GroupStep(w)
  BY <1>4 DEF GroupStep, Poll, PollError, Commit, CommitError, Assign, Crash, Restart, redis
<1>5. CASE EndStep(w)
  BY <1>5 DEF EndStep, SkipMalformed, FirstSeeRepeat, FirstSeeError, GetMaxError, Frame,
              FrameError, redis
<1>6. CASE GetMax(w) \/ FirstSeeWins(w)
  BY <1>6 DEF GetMax, FirstSeeWins, redis
<1>7. CASE Exec(w) \/ ExecError(w)
  BY <1>7 DEF ExecError, CountStep
<1> QED
  BY <1>1, <1>2, <1>3, <1>4, <1>5, <1>6, <1>7, StepKinds

(* Only the claims and the streak change what is awarded.                  *)
LEMMA StepAwards ==
  ASSUME NEW w \in Workers, WorkerStep(w)
  PROVE  \/ UNCHANGED <<unlocks, streak, quests>>
         \/ (Claim(w) \/ ClaimError(w)) /\ UNCHANGED <<streak, quests>>
         \/ SaveStreak(w) /\ UNCHANGED <<unlocks, quests>>
         \/ /\ ClaimQuests(w) \/ ClaimQuestsError(w) \/ ExpireDay(w) \/ ExpireWeek(w)
            /\ UNCHANGED <<unlocks, streak>>
<1>1. CASE ReadStep(w)
  BY <1>1 DEF ReadStep, GetTotal, GetDay, GetWeek, LoadStreak, LoadStreakError, redis
<1>2. CASE Claim(w) \/ ClaimError(w) \/ SaveStreak(w)
  BY <1>2 DEF Claim, ClaimError, SaveStreak
<1>3. CASE ClaimQuests(w) \/ ClaimQuestsError(w) \/ ExpireDay(w) \/ ExpireWeek(w)
  BY <1>3 DEF ClaimQuests, ClaimQuestsError, ExpireDay, ExpireWeek
<1>4. CASE GroupStep(w)
  BY <1>4 DEF GroupStep, Poll, PollError, Commit, CommitError, Assign, Crash, Restart, redis
<1>5. CASE EndStep(w)
  BY <1>5 DEF EndStep, SkipMalformed, FirstSeeRepeat, FirstSeeError, GetMaxError, Frame,
              FrameError, redis
<1>6. CASE GetMax(w) \/ FirstSeeWins(w)
  BY <1>6 DEF GetMax, FirstSeeWins, redis
<1>7. CASE Exec(w) \/ ExecError(w)
  BY <1>7 DEF Exec, ExecError
<1> QED
  BY <1>1, <1>2, <1>3, <1>4, <1>5, <1>6, <1>7, StepKinds

-----------------------------------------------------------------------------
(* Every step keeps the types.                                             *)

(* A new job has the type of one.                                          *)
LEMMA StepJobs ==
  ASSUME Types, NEW w \in Workers, WorkerStep(w)
  PROVE  JobsTyped'
<1> DEFINE j == job[w]
<1>1. JobsTyped /\ IsJob(j)
  BY DEF Types, JobsTyped
<1>2. ASSUME NEW r, IsJob(r), job' = [job EXCEPT ![w] = r] PROVE JobsTyped'
  BY <1>1, <1>2, JobSet
<1>3. CASE job' = job
  BY <1>1, <1>3 DEF JobsTyped, IsJob
<1>4. CASE job' = [job EXCEPT ![w] = NoJob]
  <2>1. IsJob(NoJob)
    BY DEF IsJob, NoJob, NoSignals, Signal, NoStreak, Streak
  <2> QED
    BY <1>2, <1>4, <2>1
<1>5. ASSUME NEW x \in Nat,
             job' = [job EXCEPT ![w].max = x] \/ job' = [job EXCEPT ![w].total = x]
      PROVE  JobsTyped'
  <2>1. CASE job' = [job EXCEPT ![w].max = x]
    <3>1. job' = [job EXCEPT ![w] = [j EXCEPT !.max = x]]
      BY <2>1
    <3> QED
      BY <1>1, <1>2, <3>1, FieldSet
  <2>2. CASE job' = [job EXCEPT ![w].total = x]
    <3>1. job' = [job EXCEPT ![w] = [j EXCEPT !.total = x]]
      BY <2>2
    <3> QED
      BY <1>1, <1>2, <3>1, FieldSet
  <2> QED
    BY <1>5, <2>1, <2>2
<1>6. ASSUME NEW x \in Signal, job' = [job EXCEPT ![w].sig = x] PROVE JobsTyped'
  <2>1. job' = [job EXCEPT ![w] = [j EXCEPT !.sig = x]]
    BY <1>6
  <2> QED
    BY <1>1, <1>2, <2>1, FieldSet
<1>7. ASSUME NEW x \in Streak, job' = [job EXCEPT ![w].st = x] PROVE JobsTyped'
  <2>1. job' = [job EXCEPT ![w] = [j EXCEPT !.st = x]]
    BY <1>7
  <2> QED
    BY <1>1, <1>2, <2>1, FieldSet
<1>8. ASSUME NEW x, job' = [job EXCEPT ![w].news = x] PROVE JobsTyped'
  <2>1. job' = [job EXCEPT ![w] = [j EXCEPT !.news = x]]
    BY <1>8
  <2> QED
    BY <1>1, <1>2, <2>1, FieldSet
<1> HIDE DEF j
<1>9. CASE GetTotal(w)
  <2>1. board[User(w)] \in Nat
    BY <1>9, EventTyped DEF Types, TypeOK, GetTotal, At, InApply, Engine, BeforeStreak
  <2> QED
    BY <1>3, <1>5, <1>9, <2>1 DEF GetTotal
<1>10. CASE GetDay(w)
  <2> DEFINE sig == DaySignals(job[w].sig, User(w), Today(w))
  <2>1. sig \in Signal
    BY <1>1, <1>10, EventTyped, SignalsTyped
       DEF Types, IsJob, GetDay, At, InApply, Engine, BeforeStreak, j
  <2> HIDE DEF sig
  <2>2. \A s \in Blanked(sig, {"clicks", "batches", "maxbatch", "days"}) : s \in Signal
    BY <2>1, BlankTyped DEF Blanked
  <2>3. \E s \in Signal : job' = [job EXCEPT ![w].sig = s]
    BY <1>10, <2>1, <2>2 DEF GetDay, sig
  <2> QED
    BY <1>6, <2>3
<1>11. CASE GetWeek(w)
  <2> DEFINE sig == WeekSignals(job[w].sig, User(w), Today(w))
  <2>1. sig \in Signal
    BY <1>1, <1>11, EventTyped, SignalsTyped
       DEF Types, IsJob, GetWeek, At, InApply, Engine, BeforeStreak, j
  <2> HIDE DEF sig
  <2>2. \A s \in Blanked(sig, {"week", "rank"}) : s \in Signal
    BY <2>1, BlankTyped DEF Blanked
  <2>3. \E s \in Signal : job' = [job EXCEPT ![w].sig = s]
    BY <1>11, <2>1, <2>2 DEF GetWeek, sig
  <2> QED
    BY <1>6, <2>3
<1>12. CASE LoadStreak(w)
  <2>1. streak[User(w)] \in Streak
    BY <1>12, EventTyped DEF Types, TypeOK, LoadStreak, At, InApply, Engine, BeforeStreak
  <2> QED
    BY <1>7, <1>12, <2>1 DEF LoadStreak
<1>13. CASE LoadStreakError(w) \/ SaveStreak(w) \/ ExpireDay(w) \/ ExpireWeek(w)
  BY <1>3, <1>13 DEF LoadStreakError, SaveStreak, ExpireDay, ExpireWeek
<1>14. CASE Claim(w) \/ ClaimError(w)
  BY <1>8, <1>14 DEF Claim, ClaimError
<1>15. CASE ClaimQuests(w) \/ ClaimQuestsError(w)
  <2>1. PICK new : Grant(w, new)
    BY <1>15 DEF ClaimQuests, ClaimQuestsError
  <2>2. job' = [job EXCEPT ![w].news = job[w].news \cup new]
    BY <2>1 DEF Grant
  <2> QED
    BY <1>8, <2>2
<1>16. CASE GroupStep(w)
  BY <1>3, <1>4, <1>16 DEF GroupStep, Poll, PollError, Commit, CommitError, Assign, Crash, Restart
<1>17. CASE EndStep(w) \/ ExecError(w)
  BY <1>4, <1>17 DEF EndStep, SkipMalformed, FirstSeeRepeat, FirstSeeError, GetMaxError, Frame,
                     FrameError, ExecError, Applied, Abandon
<1>18. CASE Exec(w) \/ FirstSeeWins(w)
  BY <1>3, <1>18 DEF Exec, FirstSeeWins
<1>19. CASE GetMax(w)
  <2>1. maxbatch[User(w)][Today(w)] \in Nat
    BY <1>19, EventTyped DEF Types, TypeOK, GetMax, At, InApply
  <2> QED
    BY <1>5, <1>19, <2>1 DEF GetMax
<1> QED
  BY <1>9, <1>10, <1>11, <1>12, <1>13, <1>14, <1>15, <1>16, <1>17, <1>18, <1>19, StepKinds
     DEF ReadStep

CountsTyped ==
  /\ applied \subseteq DOMAIN clicks
  /\ board \in [Users -> Nat]
  /\ week \in [Users -> [Weeks -> Nat]]
  /\ daily \in [Users -> [Days -> [clicks : Nat, batches : Nat]]]
  /\ maxbatch \in [Users -> [Days -> Nat]]
  /\ weekdays \in [Users -> [Weeks -> SUBSET Days]]
  /\ names \subseteq Users
  /\ FiniteWeeks

(* So has a counter to which an event was added.                           *)
LEMMA TransactionTyped ==
  ASSUME Types, NEW w \in Workers, At(w, "tx"), Transaction(w), clicks' = clicks
  PROVE  CountsTyped'
<1> DEFINE u == User(w)
           d == Today(w)
           k == WeekStart(d)
           n == Record(w).count
<1>1. /\ u \in Users /\ d \in Days /\ k \in Weeks /\ n \in Nat
      /\ worker[w].idx \in DOMAIN clicks
  BY EventTyped DEF At, InApply, Types, ThisWeek
<1>2. /\ applied' = applied \cup {worker[w].idx}
      /\ Tally(u, d, n) /\ RaiseMax(u, d, n, job[w].max)
      /\ names' = names \cup {u}
  BY DEF Transaction
<1> HIDE DEF u, d, n
<1>3. applied' \subseteq DOMAIN clicks' /\ names' \subseteq Users
  BY <1>1, <1>2 DEF Types, TypeOK
<1>4. board' \in [Users -> Nat] /\ week' \in [Users -> [Weeks -> Nat]]
  BY <1>1, <1>2 DEF Types, TypeOK, Tally
<1>5. daily' \in [Users -> [Days -> [clicks : Nat, batches : Nat]]]
  BY <1>1, <1>2 DEF Types, TypeOK, Tally
<1>6. maxbatch' \in [Users -> [Days -> Nat]]
  BY <1>1, <1>2 DEF Types, TypeOK, RaiseMax
<1>7. weekdays' \in [Users -> [Weeks -> SUBSET Days]]
  BY <1>1, <1>2 DEF Types, TypeOK, Tally
<1>8. ASSUME NEW v \in Users, NEW m \in Weeks PROVE IsFiniteSet(weekdays'[v][m])
  <2>1. weekdays'[v][m] = weekdays[v][m] \/ weekdays'[v][m] = weekdays[v][m] \cup {d}
    BY <1>1, <1>2 DEF Types, TypeOK, Tally
  <2>2. IsFiniteSet(weekdays[v][m])
    BY DEF Types, FiniteWeeks
  <2>3. IsFiniteSet(weekdays[v][m] \cup {d})
    BY <2>2, FS_AddElement
  <2> QED
    BY <2>1, <2>2, <2>3
<1> QED
  BY <1>3, <1>4, <1>5, <1>6, <1>7, <1>8 DEF CountsTyped, FiniteWeeks

AwardsTyped ==
  /\ \A x \in unlocks : x[1] \in Users
  /\ streak \in [Users -> Streak]
  /\ DoneKeys \cup short \subseteq Users \X (Days \cup Weeks)
  /\ again \subseteq granted

(* What is awarded is awarded to users.                                    *)
LEMMA StepAwardsTyped ==
  ASSUME Types, NEW w \in Workers, WorkerStep(w)
  PROVE  AwardsTyped'
<1> USE DEF At, InApply, Engine, BeforeStreak
<1>1. AwardsTyped
  BY DEF Types, TypeOK, AwardsTyped
<1>2. CASE UNCHANGED <<unlocks, streak, quests>>
  BY <1>1, <1>2 DEF quests, AwardsTyped, DoneKeys
<1>3. CASE (Claim(w) \/ ClaimError(w)) /\ UNCHANGED <<streak, quests>>
  <2>1. User(w) \in Users
    BY <1>3, EventTyped DEF Claim, ClaimError, Types
  <2>2. \A x \in Earned(w) : x[1] = User(w)
    BY DEF Earned
  <2>3. unlocks' \subseteq unlocks \cup Earned(w)
    BY <1>3 DEF Claim, ClaimError
  <2>4. \A x \in unlocks' : x[1] \in Users
    BY <1>1, <2>1, <2>2, <2>3, Zenon DEF AwardsTyped
  <2> QED
    BY <1>1, <1>3, <2>4 DEF quests, AwardsTyped, DoneKeys
<1>4. CASE SaveStreak(w) /\ UNCHANGED <<unlocks, quests>>
  <2>1. User(w) \in Users /\ Today(w) \in Nat /\ job[w].st \in Streak
    BY <1>4, EventTyped, RecordTyped DEF SaveStreak, Types, JobsTyped, IsJob
  <2>2. job[w].st.last # Today(w) => Advance(job[w].st, Today(w)) \in Streak
    BY <2>1 DEF Advance, Streak
  <2>3. streak' \in [Users -> Streak]
    BY <1>1, <1>4, <2>1, <2>2 DEF SaveStreak, AwardsTyped
  <2> QED
    BY <1>1, <1>4, <2>3 DEF quests, AwardsTyped, DoneKeys
<1>5. CASE /\ ClaimQuests(w) \/ ClaimQuestsError(w) \/ ExpireDay(w) \/ ExpireWeek(w)
           /\ UNCHANGED <<unlocks, streak>>
  <2>1. User(w) \in Users /\ Today(w) \in Days /\ ThisWeek(w) \in Weeks
    BY <1>5, EventTyped DEF ClaimQuests, ClaimQuestsError, ExpireDay, ExpireWeek, Types
  <2>2. \A x \in Completed(w) : <<x[1], x[2]>> \in Users \X (Days \cup Weeks)
    BY <2>1 DEF Completed
  <2>3. done' \subseteq done \cup Completed(w)
    BY <1>5 DEF ClaimQuests, ClaimQuestsError, ExpireDay, ExpireWeek
  <2>4. short' \subseteq short \cup {<<User(w), Today(w)>>}
    BY <1>5 DEF ClaimQuests, ClaimQuestsError, ExpireDay, ExpireWeek
  <2>5. again' \subseteq granted'
    BY <1>1, <1>5 DEF ClaimQuests, ClaimQuestsError, ExpireDay, ExpireWeek, Grant, AwardsTyped
  <2>6. DoneKeys' \subseteq Users \X (Days \cup Weeks)
    BY <1>1, <2>2, <2>3 DEF AwardsTyped, DoneKeys
  <2>7. short' \subseteq Users \X (Days \cup Weeks)
    BY <1>1, <2>1, <2>4 DEF AwardsTyped
  <2> QED
    BY <1>1, <1>5, <2>5, <2>6, <2>7 DEF AwardsTyped
<1> QED
  BY <1>2, <1>3, <1>4, <1>5, StepAwards

Parts == {"event", "claims", "streak", "maxbatch", "quests"}

(* The record of failures is about users, and faults are counted.          *)
LEMMA StepTorn ==
  ASSUME Types, NEW w \in Workers, WorkerStep(w)
  PROVE  torn' \subseteq Users \X Parts /\ faults' \in Nat
<1> USE DEF At, InApply, Engine, BeforeStreak, Parts
<1>0. torn \subseteq Users \X Parts /\ faults \in Nat
  BY DEF Types, TypeOK
<1>1. worker[w].pc \in InApply => User(w) \in Users
  BY EventTyped DEF Types
<1>2. ASSUME NEW parts \in SUBSET Parts, worker[w].pc \in InApply, Tear(w, parts)
      PROVE  torn' \subseteq Users \X Parts
  BY <1>0, <1>1, <1>2 DEF Tear
<1>3. CASE ReadStep(w)
  <2>1. faults' = faults \/ faults' = faults + 1
    BY <1>3 DEF ReadStep, GetTotal, GetDay, GetWeek, LoadStreak, LoadStreakError, Fault
  <2>2. torn' = torn \/ \E parts \in SUBSET Parts : Tear(w, parts)
    BY <1>3 DEF ReadStep, GetTotal, GetDay, GetWeek, LoadStreak, LoadStreakError
  <2>3. worker[w].pc \in InApply
    BY <1>3 DEF ReadStep, GetTotal, GetDay, GetWeek, LoadStreak, LoadStreakError
  <2> QED
    BY <1>0, <1>2, <2>1, <2>2, <2>3
<1>4. CASE Claim(w) \/ ClaimError(w) \/ SaveStreak(w)
  <2>1. faults' = faults \/ faults' = faults + 1
    BY <1>4 DEF Claim, ClaimError, SaveStreak, Fault
  <2>2. torn' = torn \/ \E parts \in SUBSET Parts : Tear(w, parts)
    BY <1>4 DEF Claim, ClaimError, SaveStreak
  <2>3. worker[w].pc \in InApply
    BY <1>4 DEF Claim, ClaimError, SaveStreak
  <2> QED
    BY <1>0, <1>2, <2>1, <2>2, <2>3
<1>5. CASE ClaimQuests(w) \/ ClaimQuestsError(w) \/ ExpireDay(w) \/ ExpireWeek(w)
  <2>1. faults' = faults \/ faults' = faults + 1
    BY <1>5 DEF ClaimQuests, ClaimQuestsError, ExpireDay, ExpireWeek, Fault
  <2>2. torn' = torn \/ \E parts \in SUBSET Parts : Tear(w, parts)
    BY <1>5 DEF ClaimQuests, ClaimQuestsError, ExpireDay, ExpireWeek
  <2>3. worker[w].pc \in InApply
    BY <1>5 DEF ClaimQuests, ClaimQuestsError, ExpireDay, ExpireWeek
  <2> QED
    BY <1>0, <1>2, <2>1, <2>2, <2>3
<1>6. CASE GroupStep(w)
  <2>1. faults' = faults \/ faults' = faults + 1
    BY <1>6 DEF GroupStep, Poll, PollError, Commit, CommitError, Assign, Crash, Restart, Fault
  <2>2. CASE torn' = torn
    BY <1>0, <2>1, <2>2
  <2>3. CASE Crash(w)
    <3>1. torn' = torn \cup {<<User(w), p>> : p \in Unfinished(w)}
      BY <2>3 DEF Crash
    <3>2. Unfinished(w) \subseteq Parts
      BY DEF Unfinished
    <3>3. Unfinished(w) # {} => worker[w].pc \in InApply
      BY DEF Unfinished
    <3> QED
      BY <1>0, <1>1, <2>1, <3>1, <3>2, <3>3
  <2> QED
    BY <1>6, <2>2, <2>3 DEF GroupStep, Poll, PollError, Commit, CommitError, Assign, Restart
<1>7. CASE EndStep(w)
  <2>1. faults' = faults \/ faults' = faults + 1
    BY <1>7 DEF EndStep, SkipMalformed, FirstSeeRepeat, FirstSeeError, GetMaxError, Frame,
                FrameError, Fault
  <2>2. torn' = torn \/ \E parts \in SUBSET Parts : Tear(w, parts)
    BY <1>7 DEF EndStep, SkipMalformed, FirstSeeRepeat, FirstSeeError, GetMaxError, Frame,
                FrameError
  <2>3. worker[w].pc \in InApply
    BY <1>7 DEF EndStep, SkipMalformed, FirstSeeRepeat, FirstSeeError, GetMaxError, Frame,
                FrameError
  <2> QED
    BY <1>0, <1>2, <2>1, <2>2, <2>3
<1>8. CASE GetMax(w) \/ FirstSeeWins(w)
  BY <1>0, <1>8 DEF GetMax, FirstSeeWins
<1>9. CASE Exec(w) \/ ExecError(w)
  <2>1. faults' = faults \/ faults' = faults + 1
    BY <1>9 DEF Exec, ExecError, Fault
  <2>2. Raced(w) \subseteq Parts
    BY DEF Raced
  <2>3. \E parts \in SUBSET Parts : Tear(w, parts)
    BY <1>9, <2>2 DEF Exec, ExecError
  <2>4. worker[w].pc \in InApply
    BY <1>9 DEF Exec, ExecError
  <2> QED
    BY <1>0, <1>2, <2>1, <2>3, <2>4
<1> QED
  BY <1>3, <1>4, <1>5, <1>6, <1>7, <1>8, <1>9, StepKinds

(* Only challenges get a key.                                              *)
LEMMA StepSeenTyped ==
  ASSUME Types, NEW w \in Workers, WorkerStep(w)
  PROVE  seen' \subseteq Nat
<1> USE DEF At, InApply
<1>0. seen \subseteq Nat
  BY DEF Types, TypeOK
<1>1. CASE FirstSeeWins(w) \/ FirstSeeError(w)
  <2>1. Record(w).ch \in Nat
    <3>1. worker[w].pc \in InApply /\ Record(w).ch # Poison
      BY <1>1 DEF FirstSeeWins, FirstSeeError
    <3> QED
      BY <3>1, EventTyped DEF Types
  <2>2. seen' \subseteq seen \cup {Record(w).ch}
    BY <1>1 DEF FirstSeeWins, FirstSeeError
  <2> QED
    BY <1>0, <2>1, <2>2
<1>2. CASE ReadStep(w)
  BY <1>0, <1>2 DEF ReadStep, GetTotal, GetDay, GetWeek, LoadStreak, LoadStreakError, redis
<1>3. CASE Claim(w) \/ ClaimError(w) \/ SaveStreak(w)
  BY <1>0, <1>3 DEF Claim, ClaimError, SaveStreak
<1>4. CASE ClaimQuests(w) \/ ClaimQuestsError(w) \/ ExpireDay(w) \/ ExpireWeek(w)
  BY <1>0, <1>4 DEF ClaimQuests, ClaimQuestsError, ExpireDay, ExpireWeek
<1>5. CASE GroupStep(w)
  BY <1>0, <1>5 DEF GroupStep, Poll, PollError, Commit, CommitError, Assign, Crash, Restart, redis
<1>6. CASE EndStep(w) /\ ~FirstSeeError(w)
  BY <1>0, <1>6 DEF EndStep, SkipMalformed, FirstSeeRepeat, GetMaxError, Frame, FrameError, redis
<1>7. CASE GetMax(w) \/ Exec(w) \/ ExecError(w)
  BY <1>0, <1>7 DEF GetMax, Exec, ExecError, redis
<1> QED
  BY <1>1, <1>2, <1>3, <1>4, <1>5, <1>6, <1>7, StepKinds

(* Nobody owns the partition but a worker.                                 *)
LEMMA StepOwner ==
  ASSUME Types, NEW w \in Workers, WorkerStep(w)
  PROVE  owner' \in Workers \cup {None}
<1>0. owner \in Workers \cup {None}
  BY DEF Types, TypeOK
<1>1. CASE GroupStep(w)
  BY <1>0, <1>1 DEF GroupStep, Poll, PollError, Commit, CommitError, Assign, Crash, Restart, group
<1>2. CASE ReadStep(w)
  BY <1>0, <1>2 DEF ReadStep, GetTotal, GetDay, GetWeek, LoadStreak, LoadStreakError, group
<1>3. CASE Claim(w) \/ ClaimError(w) \/ SaveStreak(w)
  BY <1>0, <1>3 DEF Claim, ClaimError, SaveStreak, group
<1>4. CASE ClaimQuests(w) \/ ClaimQuestsError(w) \/ ExpireDay(w) \/ ExpireWeek(w)
  BY <1>0, <1>4 DEF ClaimQuests, ClaimQuestsError, ExpireDay, ExpireWeek, group
<1>5. CASE EndStep(w)
  BY <1>0, <1>5 DEF EndStep, SkipMalformed, FirstSeeRepeat, FirstSeeError, GetMaxError, Frame,
                    FrameError, group
<1>6. CASE GetMax(w) \/ Exec(w) \/ ExecError(w) \/ FirstSeeWins(w)
  BY <1>0, <1>6 DEF GetMax, Exec, ExecError, FirstSeeWins, group
<1> QED
  BY <1>1, <1>2, <1>3, <1>4, <1>5, <1>6, StepKinds

(* Types is the sum of these parts.                                        *)
LEMMA TypesParts ==
  Types <=> /\ BatchInLog /\ JobsTyped /\ CountsTyped /\ AwardsTyped
            /\ seen \subseteq Nat /\ owner \in Workers \cup {None}
            /\ torn \subseteq Users \X Parts /\ faults \in Nat
<1>1. JobsTyped => \A w \in Workers :
        /\ job[w].max \in Nat /\ job[w].total \in Nat
        /\ job[w].sig \in Signal /\ job[w].st \in Streak
  BY DEF JobsTyped, IsJob
<1> QED
  BY <1>1 DEF Types, TypeOK, BatchInLog, CountsTyped, AwardsTyped, Parts

(* Every step keeps the types.                                             *)
LEMMA StepTypes == Types /\ [Next]_vars => Types'
<1> SUFFICES ASSUME Types, [Next]_vars PROVE Types'
  OBVIOUS
<1>1. BatchInLog'
  BY StepShape DEF Types
<1>2. CountsTyped /\ AwardsTyped /\ JobsTyped
  BY TypesParts
<1>3. CASE UNCHANGED vars
  <2>1. JobsTyped' /\ CountsTyped' /\ AwardsTyped'
    BY <1>2, <1>3 DEF vars, redis, counts, tally, quests, JobsTyped, IsJob, CountsTyped,
                      FiniteWeeks, AwardsTyped, DoneKeys
  <2>2. /\ seen' \subseteq Nat /\ owner' \in Workers \cup {None}
        /\ torn' \subseteq Users \X Parts /\ faults' \in Nat
    BY <1>3, TypesParts DEF vars, redis, group
  <2> QED
    BY <1>1, <2>1, <2>2, TypesParts DEF Types, TypeOK, BatchInLog, CountsTyped, AwardsTyped, Parts,
         JobsTyped, IsJob
<1>4. ASSUME NEW w \in Workers, WorkerStep(w) PROVE Types'
  <2>1. CountsTyped'
    <3>1. CASE UNCHANGED counts
      BY <1>2, <1>4, <3>1, StepFrame DEF counts, tally, CountsTyped, FiniteWeeks, Frame1
    <3>2. CASE CountStep(w)
      <4>1. At(w, "tx") /\ Transaction(w)
        BY <3>2 DEF CountStep, Exec, ExecError, At
      <4> QED
        BY <1>4, <4>1, TransactionTyped, StepFrame DEF Frame1
    <3> QED
      BY <1>4, <3>1, <3>2, StepCounts
  <2>2. JobsTyped' /\ AwardsTyped' /\ torn' \subseteq Users \X Parts /\ faults' \in Nat
    BY <1>4, StepJobs, StepAwardsTyped, StepTorn
  <2>3. seen' \subseteq Nat /\ owner' \in Workers \cup {None}
    BY <1>4, StepSeenTyped, StepOwner
  <2> QED
    BY <1>1, <2>1, <2>2, <2>3 DEF Types, TypeOK, BatchInLog, CountsTyped, AwardsTyped, Parts,
         JobsTyped, IsJob
<1>5. ASSUME NEW u \in Users, NEW d \in Days, KeyExpires(u, d) PROVE Types'
  <2>1. JobsTyped' /\ CountsTyped'
    BY <1>2, <1>5 DEF KeyExpires, counts, tally, JobsTyped, IsJob, CountsTyped, FiniteWeeks
  <2>2. AwardsTyped'
    BY <1>2, <1>5 DEF KeyExpires, AwardsTyped, DoneKeys
  <2>3. /\ seen' \subseteq Nat /\ owner' \in Workers \cup {None}
        /\ torn' \subseteq Users \X Parts /\ faults' \in Nat
    BY <1>5, TypesParts DEF KeyExpires, group
  <2> QED
    BY <1>1, <2>1, <2>2, <2>3 DEF Types, TypeOK, BatchInLog, CountsTyped, AwardsTyped, Parts,
         JobsTyped, IsJob
<1> QED
  BY <1>3, <1>4, <1>5 DEF Next, WorkerStep

(* The types at the start.                                                 *)
LEMMA InitTypes == Init => Types
<1> SUFFICES ASSUME Init PROVE Types
  OBVIOUS
<1>1. BatchInLog
  BY InitGate
<1>2. JobsTyped
  BY DEF Init, JobsTyped, IsJob, NoJob, NoSignals, Signal, NoStreak, Streak
<1>3. CountsTyped
  BY FS_EmptySet DEF Init, CountsTyped, FiniteWeeks
<1>4. AwardsTyped
  BY DEF Init, AwardsTyped, DoneKeys, NoStreak, Streak
<1> QED
  BY <1>1, <1>2, <1>3, <1>4, TypesParts DEF Init

(* Every variable of the group has its type.                               *)
THEOREM ProgressTypeCorrect == Spec => []TypeOK
<1>1. Types => TypeOK
  BY DEF Types
<1> QED
  BY InitTypes, StepTypes, <1>1, PTL DEF Spec

-----------------------------------------------------------------------------
(* The largest batch.                                                      *)

Spoiled(u, part) == <<u, part>> \in torn

(* The batches of u on day d.                                              *)
Batches(u, d) ==
  {clicks[o].count : o \in {o \in applied : clicks[o].sub = u /\ DateHCM(clicks[o].ts) = d}}

(* The field is one of them, or zero, and none is larger.                  *)
IsLargest(u, d) ==
  /\ maxbatch[u][d] \in {0} \cup Batches(u, d)
  /\ \A n \in Batches(u, d) : n <= maxbatch[u][d]

(* A worker before its transaction knows the field as it is.               *)
KnowsMax(w) ==
  At(w, "tx") => job[w].max = maxbatch[User(w)][Today(w)] \/ Spoiled(User(w), "maxbatch")

MaxInv ==
  /\ \A u \in Users : \A d \in Days : Spoiled(u, "maxbatch") \/ IsLargest(u, d)
  /\ \A w \in Workers : KnowsMax(w)

(* Only GetMax brings a worker to its transaction.                         *)
LEMMA ToTx ==
  ASSUME Types, NEW w \in Workers, WorkerStep(w), At(w, "tx")'
  PROVE  \/ GetMax(w)
         \/ At(w, "tx") /\ worker'[w].idx = worker[w].idx /\ job'[w] = job[w]
<1>1. /\ worker = [v \in Workers |-> worker[v]] /\ job = [v \in Workers |-> job[v]]
      /\ worker[w] \in WorkerState
  BY DEF Types, BatchInLog, JobsTyped
<1> USE DEF At
<1>2. ASSUME NEW pc, Goto(w, pc), pc # "tx" PROVE FALSE
  BY <1>2, Moves DEF Types
<1>3. CASE ReadStep(w)
  BY <1>2, <1>3 DEF ReadStep, GetTotal, GetDay, GetWeek, LoadStreak, LoadStreakError
<1>4. CASE \/ Claim(w) \/ ClaimError(w) \/ SaveStreak(w) \/ Exec(w) \/ FirstSeeWins(w)
           \/ ClaimQuests(w) \/ ClaimQuestsError(w) \/ ExpireDay(w) \/ ExpireWeek(w)
  BY <1>2, <1>4 DEF Claim, ClaimError, SaveStreak, ClaimQuests, ClaimQuestsError, ExpireDay,
                    ExpireWeek, Exec, FirstSeeWins
<1>5. CASE GroupStep(w)
  <2>1. CASE Poll(w) \/ Commit(w) \/ CommitError(w) \/ Crash(w) \/ Restart(w)
    BY <1>1, <2>1 DEF Poll, Commit, CommitError, Crash, Restart, Idle, Down
  <2>2. CASE PollError(w) \/ Assign(w)
    <3>1. PICK pos : worker' = [worker EXCEPT ![w].pos = pos]
      BY <2>2 DEF PollError, Assign
    <3>2. job' = job
      BY <2>2 DEF PollError, Assign
    <3> QED
      BY <1>1, <3>1, <3>2 DEF WorkerState
  <2> QED
    BY <1>5, <2>1, <2>2 DEF GroupStep
<1>6. CASE EndStep(w) \/ ExecError(w)
  <2>1. \/ worker' = [worker EXCEPT ![w] = NextRecord(worker[w])]
        \/ worker' = [worker EXCEPT ![w] = Idle(worker[w].pos)]
    BY <1>6 DEF EndStep, SkipMalformed, FirstSeeRepeat, FirstSeeError, GetMaxError, Frame,
                FrameError, ExecError, Applied, Abandon
  <2>2. NextRecord(worker[w]).pc \in {"apply", "commit"}
    BY <1>1 DEF NextRecord, WorkerState
  <2> QED
    BY <1>1, <2>1, <2>2 DEF Idle
<1> QED
  BY <1>3, <1>4, <1>5, <1>6, StepKinds

(* A worker that counted its event, and those it passes.                   *)
LEMMA CountShape ==
  ASSUME Types, NEW w \in Workers, CountStep(w)
  PROVE  /\ At(w, "tx") /\ Transaction(w) /\ UNCHANGED <<clicks, unlocks, streak, quests, told>>
         /\ \A part \in Raced(w) : <<User(w), part>> \in torn'
         /\ \/ Exec(w) /\ At(w, "total")' /\ worker'[w].idx = worker[w].idx /\ job' = job
            \/ /\ At(w, "poll")' /\ job' = [job EXCEPT ![w] = NoJob]
               /\ <<User(w), "claims">> \in torn' /\ <<User(w), "streak">> \in torn'
<1>1. CASE Exec(w)
  <2>1. At(w, "total")' /\ worker'[w].idx = worker[w].idx
    BY <1>1, Moves DEF Exec, At, Types
  <2> QED
    BY <1>1, <2>1 DEF Exec, Tear
<1>2. CASE ExecError(w) /\ ~UNCHANGED counts
  <2>1. At(w, "poll")' /\ job' = [job EXCEPT ![w] = NoJob]
    BY <1>2 DEF ExecError, Abandon, Idle, At, Types, BatchInLog
  <2> QED
    BY <1>2, <2>1 DEF ExecError, Tear
<1> QED
  BY <1>1, <1>2 DEF CountStep

(* The record of another worker stays.                                     *)
LEMMA OthersStay ==
  ASSUME NEW w, NEW v \in Workers \ {w}, Frame1(w)
  PROVE  /\ worker'[v] = worker[v] /\ job'[v] = job[v]
         /\ Record(v)' = Record(v) /\ User(v)' = User(v)
         /\ Today(v)' = Today(v) /\ ThisWeek(v)' = ThisWeek(v)
BY DEF Frame1, Record, User, Today, ThisWeek

(* The batches of the log are numbers.                                     *)
LEMMA CountsInLog ==
  ASSUME BatchInLog
  PROVE  \A o \in DOMAIN clicks : clicks[o].count \in Nat /\ clicks[o].sub \in Users
<1> DEFINE Event == [ch : Nat \cup {Poison}, sub : Users, count : Nat, ts : Nat]
<1>1. clicks \in Seq(Event)
  BY LogsTyped DEF BatchInLog
<1>2. \A o \in DOMAIN clicks : clicks[o] \in Event
  <2> HIDE DEF Event
  <2> QED
    BY <1>1
<1> QED
  BY <1>2

(* A step that leaves the fields alone.                                    *)
LEMMA MaxStays ==
  ASSUME Types, MaxInv, NEW w \in Workers, WorkerStep(w), UNCHANGED counts
  PROVE  MaxInv'
<1>1. Frame1(w) /\ UNCHANGED <<applied, maxbatch>>
  BY StepFrame DEF counts
<1>2. ASSUME NEW u \in Users, NEW d \in Days PROVE (Spoiled(u, "maxbatch") \/ IsLargest(u, d))'
  <2>1. Batches(u, d)' = Batches(u, d)
    BY <1>1 DEF Batches, Frame1
  <2> QED
    BY <1>1, <2>1 DEF MaxInv, Spoiled, IsLargest, Frame1
<1>3. ASSUME NEW v \in Workers PROVE KnowsMax(v)'
  <2>1. CASE v # w
    BY <1>1, <2>1, OthersStay DEF MaxInv, KnowsMax, At, Spoiled, Frame1
  <2>2. CASE v = w /\ GetMax(w)
    <3>1. /\ At(w, "max") /\ Goto(w, "tx")
          /\ job' = [job EXCEPT ![w].max = maxbatch[User(w)][Today(w)]]
      BY <2>2 DEF GetMax
    <3>2. worker'[w].idx = worker[w].idx
      BY <3>1, Moves DEF Types
    <3>3. job'[w].max = maxbatch[User(w)][Today(w)]
      BY <3>1 DEF Types, JobsTyped, IsJob
    <3>4. User(w)' = User(w) /\ Today(w)' = Today(w)
      BY <1>1, <3>2 DEF User, Today, Record, Frame1
    <3> QED
      BY <1>1, <2>2, <3>3, <3>4 DEF KnowsMax
  <2>3. CASE v = w /\ ~GetMax(w)
    <3>1. SUFFICES ASSUME At(w, "tx")' PROVE KnowsMax(w)'
      BY <2>3 DEF KnowsMax
    <3>2. At(w, "tx") /\ worker'[w].idx = worker[w].idx /\ job'[w] = job[w]
      BY <2>3, <3>1, ToTx
    <3>3. User(w)' = User(w) /\ Today(w)' = Today(w)
      BY <1>1, <3>2 DEF User, Today, Record, Frame1
    <3> QED
      BY <1>1, <3>2, <3>3 DEF MaxInv, KnowsMax, Spoiled, Frame1
  <2> QED
    BY <2>1, <2>2, <2>3
<1> QED
  BY <1>2, <1>3 DEF MaxInv

(* A transaction raises the field if its batch is larger, and the workers  *)
(* it passes have lost it.                                                 *)
LEMMA MaxRaised ==
  ASSUME Types, MaxInv, NEW w \in Workers, WorkerStep(w), CountStep(w)
  PROVE  MaxInv'
<1>1. Frame1(w)
  BY StepFrame
<1>2. PICK u \in Users, d \in Days, n \in Nat, max \in Nat, o \in DOMAIN clicks :
        u = User(w) /\ d = Today(w) /\ n = Record(w).count /\ max = job[w].max
          /\ o = worker[w].idx
  BY EventTyped, CountShape DEF At, InApply, Types, JobsTyped, IsJob
<1>3. /\ applied' = applied \cup {o}
      /\ maxbatch' = IF n > max THEN [maxbatch EXCEPT ![u][d] = n] ELSE maxbatch
  BY <1>2, CountShape DEF Transaction, RaiseMax
<1>4. max = maxbatch[u][d] \/ Spoiled(u, "maxbatch")
  BY <1>2, CountShape DEF MaxInv, KnowsMax
<1>5. \A v \in Users : Spoiled(v, "maxbatch") => Spoiled(v, "maxbatch")'
  BY <1>1 DEF Frame1, Spoiled
<1>6. maxbatch \in [Users -> [Days -> Nat]]
  BY DEF Types, TypeOK
<1>7. clicks[o].sub = u /\ DateHCM(clicks[o].ts) = d /\ clicks[o].count = n /\ clicks' = clicks
  BY <1>1, <1>2 DEF User, Today, Record, Frame1
<1>8. ASSUME NEW v \in Users, NEW e \in Days, v # u \/ e # d
      PROVE  (Spoiled(v, "maxbatch") \/ IsLargest(v, e))'
  <2>1. Batches(v, e)' = Batches(v, e)
    BY <1>3, <1>7, <1>8 DEF Batches
  <2>2. maxbatch'[v][e] = maxbatch[v][e]
    BY <1>3, <1>6, <1>8
  <2> QED
    BY <1>5, <2>1, <2>2 DEF MaxInv, IsLargest
<1>9. (Spoiled(u, "maxbatch") \/ IsLargest(u, d))'
  <2>1. CASE Spoiled(u, "maxbatch")
    BY <1>5, <2>1
  <2>2. CASE ~Spoiled(u, "maxbatch")
    <3>1. max = maxbatch[u][d] /\ IsLargest(u, d)
      BY <1>4, <2>2 DEF MaxInv
    <3>2. maxbatch'[u][d] = IF n > max THEN n ELSE max
      BY <1>3, <1>6, <3>1
    <3>3. Batches(u, d)' = Batches(u, d) \cup {n}
      BY <1>3, <1>7 DEF Batches
    <3>4. Batches(u, d) \subseteq Nat
      <4>1. \A p \in DOMAIN clicks : clicks[p].count \in Nat
        BY CountsInLog DEF Types
      <4> QED
        BY <4>1 DEF Batches, Types, TypeOK
    <3>5. maxbatch'[u][d] \in {0} \cup Batches(u, d)'
      BY <3>1, <3>2, <3>3 DEF IsLargest
    <3>6. \A m \in Batches(u, d)' : m <= maxbatch'[u][d]
      BY <3>1, <3>2, <3>3, <3>4 DEF IsLargest
    <3> QED
      BY <3>5, <3>6 DEF IsLargest
  <2> QED
    BY <2>1, <2>2
<1>10. ASSUME NEW v \in Workers PROVE KnowsMax(v)'
  <2>1. CASE v = w
    <3>1. ~At(w, "tx")'
      BY CountShape DEF At
    <3> QED
      BY <2>1, <3>1 DEF KnowsMax
  <2>2. CASE v # w /\ At(v, "tx") /\ User(v) = u
    <3>1. "maxbatch" \in Raced(w)
      BY <1>2, <2>2 DEF Raced, Overlaps, At
    <3>2. Spoiled(u, "maxbatch")'
      BY <1>2, <3>1, CountShape DEF Spoiled
    <3>3. User(v)' = u
      BY <1>1, <2>2, OthersStay
    <3> QED
      BY <3>2, <3>3 DEF KnowsMax, Spoiled
  <2>3. CASE v # w /\ ~(At(v, "tx") /\ User(v) = u)
    <3>1. At(v, "tx") => User(v) \in Users /\ Today(v) \in Days
      BY EventTyped DEF At, InApply, Types
    <3>2. At(v, "tx") => maxbatch'[User(v)][Today(v)] = maxbatch[User(v)][Today(v)]
      BY <1>3, <1>6, <2>3, <3>1
    <3> QED
      BY <1>1, <2>3, <3>2, OthersStay DEF MaxInv, KnowsMax, At, Spoiled, Frame1
  <2> QED
    BY <2>1, <2>2, <2>3
<1> QED
  BY <1>8, <1>9, <1>10 DEF MaxInv

(* A step of nobody.                                                       *)
LEMMA MaxIdle ==
  ASSUME MaxInv, UNCHANGED <<clicks, counts, worker, job, torn>>
  PROVE  MaxInv'
<1>1. \A u \in Users : \A d \in Days : Batches(u, d)' = Batches(u, d)
  BY DEF counts, Batches
<1>2. \A w \in Workers : User(w)' = User(w) /\ Today(w)' = Today(w)
  BY DEF User, Today, Record
<1> QED
  BY <1>1, <1>2 DEF MaxInv, IsLargest, KnowsMax, Spoiled, At, counts

(* Every step keeps maxbatch the largest batch.                            *)
LEMMA StepMax == Types /\ MaxInv /\ [Next]_vars => MaxInv'
<1> SUFFICES ASSUME Types, MaxInv, [Next]_vars PROVE MaxInv'
  OBVIOUS
<1>1. CASE UNCHANGED vars
  BY <1>1, MaxIdle DEF vars, redis
<1>2. ASSUME NEW w \in Workers, WorkerStep(w) PROVE MaxInv'
  BY <1>2, StepCounts, MaxStays, MaxRaised
<1>3. ASSUME NEW u \in Users, NEW d \in Days, KeyExpires(u, d) PROVE MaxInv'
  BY <1>3, MaxIdle DEF KeyExpires
<1> QED
  BY <1>1, <1>2, <1>3 DEF Next, WorkerStep

(* At the start there is no batch.                                         *)
LEMMA InitMax == Init => MaxInv
BY DEF Init, MaxInv, IsLargest, Batches, KnowsMax, At, Idle

(* What is the largest is the maximum.                                     *)
LEMMA LargestIsMax ==
  ASSUME Types, MaxInv
  PROVE  MaxBatchIsMax
<1> SUFFICES ASSUME NEW u \in Users, NEW d \in Days, IsLargest(u, d)
             PROVE  maxbatch[u][d] = Max({0} \cup Batches(u, d))
  BY DEF MaxInv, MaxBatchIsMax, Spoiled, Batches
<1> DEFINE S == {0} \cup Batches(u, d)
           m == maxbatch[u][d]
<1>1. S \subseteq Nat
  BY CountsInLog DEF Batches, Types, TypeOK
<1>2. m \in S /\ \A n \in S : m >= n
  <2>1. m \in Nat
    BY DEF Types, TypeOK
  <2> QED
    BY <1>1, <2>1 DEF IsLargest
<1> HIDE DEF S, m
<1>3. \A x \in S : (\A n \in S : x >= n) => x = m
  BY <1>1, <1>2
<1>4. Max(S) = m
  BY <1>2, <1>3 DEF Max
<1> QED
  BY <1>4 DEF S, m

(* progressworker.go:123-124, "raise-only maxbatch".  The field is the     *)
(* largest batch of the day for any log and any workers, unless another    *)
(* owner's transaction came between a worker's read and its own.           *)
THEOREM MaxBatchIsLargest == Spec => []MaxBatchIsMax
<1>1. Types /\ MaxInv /\ [Next]_vars => (Types /\ MaxInv)'
  BY StepTypes, StepMax
<1>2. Types /\ MaxInv => MaxBatchIsMax
  BY LargestIsMax
<1> QED
  BY InitTypes, InitMax, <1>1, <1>2, PTL DEF Spec

-----------------------------------------------------------------------------
(* Counters grow.                                                          *)

(* No counter falls; maxbatch does only where two owners raced for it.     *)
Grown ==
  \A u \in Users :
    /\ board[u] <= board'[u]
    /\ \A k \in Weeks :
         /\ week[u][k] <= week'[u][k]
         /\ Cardinality(weekdays[u][k]) <= Cardinality(weekdays'[u][k])
    /\ \A d \in Days :
         /\ daily[u][d].clicks <= daily'[u][d].clicks
         /\ daily[u][d].batches <= daily'[u][d].batches
         /\ maxbatch[u][d] <= maxbatch'[u][d] \/ <<u, "maxbatch">> \in torn'

(* A number is not below itself, and a set is not larger with one more.    *)
LEMMA NothingFalls ==
  ASSUME Types, UNCHANGED counts
  PROVE  Grown
<1>1. \A u \in Users : \A k \in Weeks : Cardinality(weekdays[u][k]) \in Nat
  BY FS_CardinalityType DEF Types, FiniteWeeks
<1> QED
  BY <1>1 DEF Grown, counts, tally, Types, TypeOK

(* A transaction only adds.                                                *)
LEMMA CountersGrow ==
  ASSUME Types, MaxInv, NEW w \in Workers, WorkerStep(w)
  PROVE  Grown
<1>1. CASE UNCHANGED counts
  BY <1>1, NothingFalls
<1>2. CASE CountStep(w)
  <2>1. PICK u \in Users, d \in Days, n \in Nat, max \in Nat :
          u = User(w) /\ d = Today(w) /\ n = Record(w).count /\ max = job[w].max
    BY <1>2, EventTyped, CountShape DEF At, InApply, Types, JobsTyped, IsJob
  <2>2. PICK k \in Weeks : k = WeekStart(d)
    BY DEF Weeks
  <2>3. /\ board' = [board EXCEPT ![u] = @ + n]
        /\ week' = [week EXCEPT ![u][k] = @ + n]
        /\ daily' = [daily EXCEPT ![u][d] = [clicks |-> @.clicks + n, batches |-> @.batches + 1]]
        /\ weekdays' = [weekdays EXCEPT ![u][k] = @ \cup {d}]
        /\ maxbatch' = IF n > max THEN [maxbatch EXCEPT ![u][d] = n] ELSE maxbatch
    BY <1>2, <2>1, <2>2, CountShape DEF Transaction, Tally, RaiseMax
  <2>4. /\ board \in [Users -> Nat]
        /\ week \in [Users -> [Weeks -> Nat]]
        /\ daily \in [Users -> [Days -> [clicks : Nat, batches : Nat]]]
        /\ maxbatch \in [Users -> [Days -> Nat]]
        /\ weekdays \in [Users -> [Weeks -> SUBSET Days]]
    BY DEF Types, TypeOK
  <2> SUFFICES ASSUME NEW v \in Users
               PROVE  /\ board[v] <= board'[v]
                      /\ \A m \in Weeks :
                           /\ week[v][m] <= week'[v][m]
                           /\ Cardinality(weekdays[v][m]) <= Cardinality(weekdays'[v][m])
                      /\ \A e \in Days :
                           /\ daily[v][e].clicks <= daily'[v][e].clicks
                           /\ daily[v][e].batches <= daily'[v][e].batches
                           /\ \/ maxbatch[v][e] <= maxbatch'[v][e]
                              \/ <<v, "maxbatch">> \in torn'
    BY DEF Grown
  <2>5. board[v] <= board'[v]
    BY <2>3, <2>4
  <2>6. ASSUME NEW m \in Weeks
        PROVE  /\ week[v][m] <= week'[v][m]
               /\ Cardinality(weekdays[v][m]) <= Cardinality(weekdays'[v][m])
    <3>1. week[v][m] <= week'[v][m]
      BY <2>3, <2>4
    <3>2. weekdays'[v][m] = weekdays[v][m] \/ weekdays'[v][m] = weekdays[v][m] \cup {d}
      BY <2>3, <2>4
    <3>3. /\ IsFiniteSet(weekdays[v][m])
          /\ Cardinality(weekdays[v][m]) \in Nat
      BY FS_CardinalityType DEF Types, FiniteWeeks
    <3>4. Cardinality(weekdays[v][m] \cup {d}) =
            IF d \in weekdays[v][m] THEN Cardinality(weekdays[v][m])
                                    ELSE Cardinality(weekdays[v][m]) + 1
      BY <3>3, FS_AddElement
    <3>5. Cardinality(weekdays[v][m]) <= Cardinality(weekdays'[v][m])
      <4> DEFINE a == Cardinality(weekdays[v][m])
                 b == Cardinality(weekdays'[v][m])
      <4>1. a \in Nat /\ (b = a \/ b = a + 1)
        BY <3>2, <3>3, <3>4
      <4> HIDE DEF a, b
      <4>2. a <= b
        BY <4>1
      <4> QED
        BY <4>2 DEF a, b
    <3> QED
      BY <3>1, <3>5
  <2>7. ASSUME NEW e \in Days
        PROVE  /\ daily[v][e].clicks <= daily'[v][e].clicks
               /\ daily[v][e].batches <= daily'[v][e].batches
               /\ maxbatch[v][e] <= maxbatch'[v][e] \/ <<v, "maxbatch">> \in torn'
    <3>1. /\ daily[v][e].clicks <= daily'[v][e].clicks
          /\ daily[v][e].batches <= daily'[v][e].batches
      BY <2>3, <2>4
    <3>2. max = maxbatch[u][d] \/ <<u, "maxbatch">> \in torn
      BY <1>2, <2>1, CountShape DEF MaxInv, KnowsMax, Spoiled
    <3>3. torn \subseteq torn'
      BY StepFrame DEF Frame1
    <3>4. CASE v = u /\ <<u, "maxbatch">> \in torn
      BY <3>1, <3>3, <3>4
    <3>5. CASE ~(v = u /\ <<u, "maxbatch">> \in torn)
      BY <2>3, <2>4, <3>1, <3>2, <3>5
    <3> QED
      BY <3>4, <3>5
  <2> QED
    BY <2>5, <2>6, <2>7
<1> QED
  BY <1>1, <1>2, StepCounts

-----------------------------------------------------------------------------
(* What the engine layer read.                                             *)

Thinks(w) == worker[w].pc \in Engine

(* Of what a signal counts there is at least as much.                      *)
Below(s, u, d) ==
  /\ s.clicks <= daily[u][d].clicks
  /\ s.batches <= daily[u][d].batches
  /\ s.maxbatch <= maxbatch[u][d] \/ Spoiled(u, "maxbatch")
  /\ s.days <= Cardinality(weekdays[u][WeekStart(d)])
  /\ s.week <= week[u][WeekStart(d)]

(* A worker has read nothing that is not there, and nothing too early.     *)
Real(w) ==
  IF Thinks(w) THEN /\ job[w].total <= board[User(w)]
                    /\ Below(job[w].sig, User(w), Today(w))
               ELSE job[w].total = 0 /\ job[w].sig = NoSignals

(* A step that reads nothing: it keeps what was read, or drops it.         *)
KeepsReads(w) ==
  /\ job'[w].total = job[w].total /\ job'[w].sig = job[w].sig
  /\ Thinks(w)' => worker'[w].idx = worker[w].idx /\ (Thinks(w) \/ Exec(w))
  /\ ~Thinks(w)' => ~Thinks(w)

DropsReads(w) == job'[w] = NoJob /\ ~Thinks(w)'

(* Steps are of these kinds.                                               *)
LEMMA ReadKinds ==
  ASSUME Types, NEW w \in Workers, WorkerStep(w)
  PROVE  GetTotal(w) \/ GetDay(w) \/ GetWeek(w) \/ KeepsReads(w) \/ DropsReads(w)
<1>1. /\ worker = [v \in Workers |-> worker[v]] /\ job = [v \in Workers |-> job[v]]
      /\ worker[w] \in WorkerState /\ IsJob(job[w])
  BY DEF Types, BatchInLog, JobsTyped
<1> USE DEF At, Thinks, Engine, BeforeStreak
<1>2. ASSUME NEW pc, Goto(w, pc), Thinks(w) \/ Exec(w), pc \in Engine,
             job'[w].total = job[w].total, job'[w].sig = job[w].sig
      PROVE  KeepsReads(w)
  BY <1>2, Moves DEF KeepsReads, Types
<1>3. ASSUME NEW x, \/ job' = [job EXCEPT ![w].news = x]
                    \/ job' = [job EXCEPT ![w].st = x]
                    \/ job' = [job EXCEPT ![w].max = x]
                    \/ job' = job
      PROVE  job'[w].total = job[w].total /\ job'[w].sig = job[w].sig
  BY <1>1, <1>3 DEF IsJob
<1>4. CASE Claim(w) \/ ClaimError(w) \/ SaveStreak(w) \/ LoadStreak(w) \/ LoadStreakError(w)
  BY <1>2, <1>3, <1>4 DEF Claim, ClaimError, SaveStreak, LoadStreak, LoadStreakError
<1>5. CASE ClaimQuests(w) \/ ClaimQuestsError(w)
  <2>1. PICK new : Grant(w, new)
    BY <1>5 DEF ClaimQuests, ClaimQuestsError
  <2>2. job' = [job EXCEPT ![w].news = job[w].news \cup new]
    BY <2>1 DEF Grant
  <2>3. Goto(w, "expday") /\ Thinks(w)
    BY <1>5 DEF ClaimQuests, ClaimQuestsError
  <2> QED
    BY <1>2, <1>3, <2>2, <2>3
<1>6. CASE ExpireDay(w) \/ ExpireWeek(w) \/ Exec(w)
  BY <1>2, <1>3, <1>6 DEF ExpireDay, ExpireWeek, Exec
<1>7. CASE GetMax(w) \/ FirstSeeWins(w)
  <2>1. PICK pc : Goto(w, pc) /\ pc \notin Engine /\ ~Thinks(w)
    BY <1>7 DEF GetMax, FirstSeeWins
  <2>2. ~Thinks(w)'
    BY <2>1, Moves DEF Types
  <2>3. job'[w].total = job[w].total /\ job'[w].sig = job[w].sig
    BY <1>3, <1>7 DEF GetMax, FirstSeeWins
  <2> QED
    BY <2>1, <2>2, <2>3 DEF KeepsReads
<1>8. CASE GroupStep(w)
  <2>1. CASE Poll(w) \/ Commit(w) \/ CommitError(w) \/ Restart(w)
    <3>1. ~Thinks(w) /\ job' = job
      BY <2>1 DEF Poll, Commit, CommitError, Restart
    <3>2. ~Thinks(w)'
      BY <1>1, <2>1 DEF Poll, Commit, CommitError, Restart, Idle
    <3> QED
      BY <3>1, <3>2 DEF KeepsReads
  <2>2. CASE Crash(w)
    BY <1>1, <2>2 DEF Crash, Down, DropsReads
  <2>3. CASE PollError(w) \/ Assign(w)
    <3>1. PICK pos : worker' = [worker EXCEPT ![w].pos = pos]
      BY <2>3 DEF PollError, Assign
    <3>2. job' = job
      BY <2>3 DEF PollError, Assign
    <3>3. worker'[w].pc = worker[w].pc /\ worker'[w].idx = worker[w].idx
      BY <1>1, <3>1 DEF WorkerState
    <3> QED
      BY <3>2, <3>3 DEF KeepsReads
  <2> QED
    BY <1>8, <2>1, <2>2, <2>3 DEF GroupStep
<1>9. CASE EndStep(w) \/ ExecError(w)
  <2>1. \/ worker' = [worker EXCEPT ![w] = NextRecord(worker[w])]
        \/ worker' = [worker EXCEPT ![w] = Idle(worker[w].pos)]
    BY <1>9 DEF EndStep, SkipMalformed, FirstSeeRepeat, FirstSeeError, GetMaxError, Frame,
                FrameError, ExecError, Applied, Abandon
  <2>2. NextRecord(worker[w]).pc \in {"apply", "commit"}
    BY <1>1 DEF NextRecord, WorkerState
  <2>3. job' = [job EXCEPT ![w] = NoJob]
    BY <1>9 DEF EndStep, SkipMalformed, FirstSeeRepeat, FirstSeeError, GetMaxError, Frame,
                FrameError, ExecError, Applied, Abandon
  <2> QED
    BY <1>1, <2>1, <2>2, <2>3 DEF Idle, DropsReads
<1> QED
  BY <1>4, <1>5, <1>6, <1>7, <1>8, <1>9, StepKinds DEF ReadStep

(* What counters a signal is below, they are above as they grow.           *)
LEMMA BelowGrown ==
  ASSUME Types, Types', Grown, torn \subseteq torn',
         NEW s \in Signal, NEW u \in Users, NEW d \in Days, Below(s, u, d)
  PROVE  Below(s, u, d)'
<1>1. PICK k \in Weeks : k = WeekStart(d)
  BY DEF Weeks
<1> DEFINE a == Cardinality(weekdays[u][k])
           b == Cardinality(weekdays'[u][k])
<1>2. a \in Nat /\ b \in Nat /\ a <= b /\ s.days <= a /\ s.days \in Nat
  BY <1>1, FS_CardinalityType DEF Types, FiniteWeeks, Below, Grown, Signal
<1> HIDE DEF a, b
<1>3. s.days <= b
  BY <1>2
<1>4. /\ daily[u][d] \in [clicks : Nat, batches : Nat]
      /\ daily'[u][d] \in [clicks : Nat, batches : Nat]
      /\ week[u][k] \in Nat /\ week'[u][k] \in Nat
      /\ maxbatch[u][d] \in Nat /\ maxbatch'[u][d] \in Nat
  BY DEF Types, TypeOK
<1>5. /\ s.clicks \in Nat /\ s.batches \in Nat /\ s.maxbatch \in Nat /\ s.week \in Nat
  BY DEF Signal
<1>6. /\ week[u][k] <= week'[u][k]
      /\ daily[u][d].clicks <= daily'[u][d].clicks
      /\ daily[u][d].batches <= daily'[u][d].batches
      /\ maxbatch[u][d] <= maxbatch'[u][d] \/ Spoiled(u, "maxbatch")'
  BY Zenon DEF Grown, Spoiled
<1>7. /\ s.clicks <= daily[u][d].clicks /\ s.batches <= daily[u][d].batches
      /\ s.maxbatch <= maxbatch[u][d] \/ Spoiled(u, "maxbatch")
      /\ s.week <= week[u][k]
  BY <1>1, Zenon DEF Below
<1>8. Spoiled(u, "maxbatch") => Spoiled(u, "maxbatch")'
  BY DEF Spoiled
<1>9. s.week <= week'[u][k] /\ s.clicks <= daily'[u][d].clicks /\ s.batches <= daily'[u][d].batches
  BY <1>4, <1>5, <1>6, <1>7
<1>10. s.maxbatch <= maxbatch'[u][d] \/ Spoiled(u, "maxbatch")'
  BY <1>4, <1>5, <1>6, <1>7, <1>8
<1> QED
  BY <1>1, <1>3, <1>9, <1>10 DEF Below, b

(* Nothing is below everything.                                            *)
LEMMA NothingBelow ==
  ASSUME Types, NEW u \in Users, NEW d \in Days
  PROVE  Below(NoSignals, u, d)
<1>1. PICK k \in Weeks : k = WeekStart(d)
  BY DEF Weeks
<1>2. Cardinality(weekdays[u][k]) \in Nat
  BY FS_CardinalityType DEF Types, FiniteWeeks
<1> QED
  BY <1>1, <1>2 DEF Below, NoSignals, Types, TypeOK

(* What is read back is there, with some of it zero as well.               *)
LEMMA ReadBelow ==
  ASSUME Types, NEW s \in Signal, NEW u \in Users, NEW d \in Days, Below(s, u, d)
  PROVE  /\ Below(DaySignals(s, u, d), u, d) /\ Below(WeekSignals(s, u, d), u, d)
         /\ \A f \in {"clicks", "batches", "maxbatch", "days", "week", "rank"} :
              Below([s EXCEPT ![f] = 0], u, d)
<1>1. PICK k \in Weeks : k = WeekStart(d)
  BY DEF Weeks
<1> DEFINE a == Cardinality(weekdays[u][k])
<1>2. a \in Nat
  BY FS_CardinalityType DEF Types, FiniteWeeks
<1>3. /\ daily[u][d].clicks \in Nat /\ daily[u][d].batches \in Nat
      /\ maxbatch[u][d] \in Nat /\ week[u][k] \in Nat
  BY DEF Types, TypeOK
<1> HIDE DEF a
<1>4. Below(DaySignals(s, u, d), u, d)
  <2>1. s.week <= week[u][k]
    BY <1>1 DEF Below
  <2> QED
    BY <1>1, <1>2, <1>3, <2>1 DEF Below, DaySignals, a
<1>5. Below(WeekSignals(s, u, d), u, d)
  BY <1>1, <1>3 DEF Below, WeekSignals
<1>6. ASSUME NEW f \in {"clicks", "batches", "maxbatch", "days", "week", "rank"}
      PROVE  Below([s EXCEPT ![f] = 0], u, d)
  <2>1. PICK z \in Signal : z = [s EXCEPT ![f] = 0]
    BY BlankTyped
  <2>2. /\ z.clicks = 0 \/ z.clicks = s.clicks
        /\ z.batches = 0 \/ z.batches = s.batches
        /\ z.maxbatch = 0 \/ z.maxbatch = s.maxbatch
        /\ z.days = 0 \/ z.days = s.days
        /\ z.week = 0 \/ z.week = s.week
    BY <2>1 DEF Signal
  <2>3. Below(z, u, d)
    BY <1>1, <1>2, <1>3, <2>2 DEF Below, a
  <2> QED
    BY <2>1, <2>3
<1> QED
  BY <1>4, <1>5, <1>6

(* What a read adds is real.                                               *)
LEMMA ReadsReal ==
  ASSUME Types, NEW w \in Workers, GetTotal(w) \/ GetDay(w) \/ GetWeek(w),
         NEW u \in Users, NEW d \in Days, u = User(w), d = Today(w),
         job[w].total <= board[u], Below(job[w].sig, u, d)
  PROVE  job'[w].total <= board[u] /\ Below(job'[w].sig, u, d)
<1>1. IsJob(job[w]) /\ job = [v \in Workers |-> job[v]]
  BY DEF Types, JobsTyped
<1>2. PICK s \in Signal : s = job[w].sig
  BY <1>1 DEF IsJob
<1>3. ASSUME NEW z, job' = [job EXCEPT ![w].sig = z], Below(z, u, d)
      PROVE  job'[w].total <= board[u] /\ Below(job'[w].sig, u, d)
  <2>1. job'[w].total = job[w].total /\ job'[w].sig = z
    BY <1>1, <1>3 DEF IsJob
  <2> QED
    BY <1>3, <2>1
<1>4. CASE GetTotal(w)
  <2>1. job' = job \/ job' = [job EXCEPT ![w].total = board[u]]
    BY <1>4 DEF GetTotal
  <2>2. job'[w].sig = job[w].sig /\ (job'[w].total = job[w].total \/ job'[w].total = board[u])
    BY <1>1, <2>1 DEF IsJob
  <2>3. board[u] \in Nat
    BY DEF Types, TypeOK
  <2> QED
    BY <2>2, <2>3
<1>5. CASE GetDay(w)
  <2>1. PICK sig \in Signal : sig = DaySignals(s, u, d)
    BY SignalsTyped
  <2>2. Below(sig, u, d)
    BY <1>2, <2>1, ReadBelow
  <2>3. \A z \in Blanked(sig, {"clicks", "batches", "maxbatch", "days"}) : Below(z, u, d)
    <3>1. \A f \in {"clicks", "batches", "maxbatch", "days"} : Below([sig EXCEPT ![f] = 0], u, d)
      BY <2>2, ReadBelow
    <3> QED
      BY <3>1, Zenon DEF Blanked
  <2>4. \E z : job' = [job EXCEPT ![w].sig = z] /\ Below(z, u, d)
    BY <1>2, <1>5, <2>1, <2>2, <2>3 DEF GetDay
  <2> QED
    BY <1>3, <2>4
<1>6. CASE GetWeek(w)
  <2>1. PICK sig \in Signal : sig = WeekSignals(s, u, d)
    BY SignalsTyped
  <2>2. Below(sig, u, d)
    BY <1>2, <2>1, ReadBelow
  <2>3. \A z \in Blanked(sig, {"week", "rank"}) : Below(z, u, d)
    <3>1. \A f \in {"week", "rank"} : Below([sig EXCEPT ![f] = 0], u, d)
      BY <2>2, ReadBelow
    <3> QED
      BY <3>1, Zenon DEF Blanked
  <2>4. \E z : job' = [job EXCEPT ![w].sig = z] /\ Below(z, u, d)
    BY <1>2, <1>6, <2>1, <2>2, <2>3 DEF GetWeek
  <2> QED
    BY <1>3, <2>4
<1> QED
  BY <1>4, <1>5, <1>6

(* Every step keeps what the workers read real.                            *)
LEMMA StepReal ==
  ASSUME Types, Types', MaxInv, NEW w \in Workers, WorkerStep(w),
         \A v \in Workers : Real(v)
  PROVE  \A v \in Workers : Real(v)'
<1>1. Frame1(w) /\ Grown /\ torn \subseteq torn'
  BY StepFrame, CountersGrow DEF Frame1
<1>2. ASSUME NEW u \in Users, NEW n \in Nat, n <= board[u] PROVE n <= board'[u]
  <2>1. board[u] \in Nat /\ board'[u] \in Nat
    BY DEF Types, TypeOK
  <2>2. board[u] <= board'[u]
    BY <1>1, Zenon DEF Grown
  <2> QED
    BY <1>2, <2>1, <2>2
<1>3. \A v \in Workers : job[v].total \in Nat /\ job[v].sig \in Signal
  BY DEF Types, JobsTyped, IsJob
<1>4. \A v \in Workers : Thinks(v) => User(v) \in Users /\ Today(v) \in Days
  BY EventTyped DEF Types, Thinks, InApply
<1>5. ASSUME NEW v \in Workers, Thinks(v)
      PROVE  /\ job[v].total <= board'[User(v)]
             /\ Below(job[v].sig, User(v), Today(v)) =>
                  (\A s \in Signal, u \in Users, d \in Days :
                     s = job[v].sig /\ u = User(v) /\ d = Today(v) => Below(s, u, d)')
  <2>1. job[v].total <= board[User(v)]
    BY <1>5 DEF Real
  <2> QED
    BY <1>1, <1>2, <1>3, <1>4, <1>5, <2>1, BelowGrown
<1>6. ASSUME NEW v \in Workers, v # w PROVE Real(v)'
  <2>1. /\ worker'[v] = worker[v] /\ job'[v] = job[v]
        /\ User(v)' = User(v) /\ Today(v)' = Today(v)
    BY <1>1, <1>6, OthersStay
  <2>2. CASE Thinks(v)
    <3>1. PICK s \in Signal, u \in Users, d \in Days :
            s = job[v].sig /\ u = User(v) /\ d = Today(v)
      BY <1>3, <1>4, <2>2
    <3>2. Below(s, u, d)'
      BY <1>5, <2>2, <3>1 DEF Real
    <3> QED
      BY <1>5, <2>1, <2>2, <3>1, <3>2 DEF Real, Thinks
  <2>3. CASE ~Thinks(v)
    BY <2>1, <2>3 DEF Real, Thinks
  <2> QED
    BY <2>2, <2>3
<1> SUFFICES Real(w)'
  BY <1>6
<1>7. ASSUME Thinks(w), Thinks(w)', worker'[w].idx = worker[w].idx
      PROVE  User(w)' = User(w) /\ Today(w)' = Today(w)
  BY <1>1, <1>7 DEF User, Today, Record, Frame1
<1>8. CASE GetTotal(w) \/ GetDay(w) \/ GetWeek(w)
  <2>1. PICK s \in Signal, u \in Users, d \in Days :
          s = job[w].sig /\ u = User(w) /\ d = Today(w)
    BY <1>3, <1>4, <1>8 DEF GetTotal, GetDay, GetWeek, Thinks, At, Engine, BeforeStreak
  <2>2. Thinks(w) /\ Thinks(w)' /\ worker'[w].idx = worker[w].idx /\ UNCHANGED counts
    <3>1. PICK pc \in Engine : Goto(w, pc)
      BY <1>8 DEF GetTotal, GetDay, GetWeek, Engine, BeforeStreak
    <3> QED
      BY <1>8, <3>1, Moves
         DEF GetTotal, GetDay, GetWeek, Thinks, At, Engine, BeforeStreak, redis, Types
  <2>3. job'[w].total <= board[u] /\ Below(job'[w].sig, u, d)
    <3>1. job[w].total <= board[u] /\ Below(job[w].sig, u, d)
      BY <2>1, <2>2 DEF Real
    <3> QED
      BY <1>8, <2>1, <3>1, ReadsReal
  <2>4. PICK z \in Signal, n \in Nat : z = job'[w].sig /\ n = job'[w].total
    BY DEF Types, JobsTyped, IsJob
  <2>5. n <= board'[u]
    BY <1>2, <2>3, <2>4
  <2>6. Below(z, u, d)'
    BY <1>1, <2>3, <2>4, BelowGrown
  <2> QED
    BY <1>7, <2>1, <2>2, <2>4, <2>5, <2>6 DEF Real
<1>9. CASE KeepsReads(w)
  <2>1. CASE Thinks(w) /\ Thinks(w)'
    <3>1. PICK s \in Signal, u \in Users, d \in Days :
            s = job[w].sig /\ u = User(w) /\ d = Today(w)
      BY <1>3, <1>4, <2>1
    <3>2. Below(s, u, d)' /\ job[w].total <= board'[u]
      BY <1>5, <2>1, <3>1 DEF Real
    <3> QED
      BY <1>7, <1>9, <2>1, <3>1, <3>2 DEF Real, KeepsReads
  <2>2. CASE ~Thinks(w) /\ Thinks(w)'
    <3>1. Exec(w) /\ worker'[w].idx = worker[w].idx
      BY <1>9, <2>2 DEF KeepsReads
    <3>2. User(w)' = User(w) /\ Today(w)' = Today(w)
      BY <1>1, <3>1 DEF User, Today, Record, Frame1
    <3>3. PICK u \in Users, d \in Days : u = User(w) /\ d = Today(w)
      BY <3>1, EventTyped DEF Exec, At, InApply, Types
    <3>4. Below(NoSignals, u, d)' /\ board'[u] \in Nat
      <4>1. board'[u] \in Nat
        BY DEF Types, TypeOK
      <4>2. NoSignals \in Signal
        BY DEF NoSignals, Signal
      <4>3. Below(NoSignals, u, d)'
        BY <1>1, <4>2, NothingBelow, BelowGrown
      <4> QED
        BY <4>1, <4>3
    <3>5. job'[w].total = 0 /\ job'[w].sig = NoSignals
      BY <1>9, <2>2 DEF KeepsReads, Real
    <3> QED
      BY <2>2, <3>2, <3>3, <3>4, <3>5 DEF Real
  <2>3. CASE ~Thinks(w)'
    BY <1>9, <2>3 DEF KeepsReads, Real
  <2> QED
    BY <2>1, <2>2, <2>3
<1>10. CASE DropsReads(w)
  BY <1>10 DEF DropsReads, Real, NoJob
<1> QED
  BY <1>8, <1>9, <1>10, ReadKinds

-----------------------------------------------------------------------------
(* Rewards are earned.                                                     *)

DailyAll == {DailyPool[i] : i \in 1 .. 6}
WeeklyAll == {WeeklyPool[i] : i \in 1 .. 3}

(* A date's quests are of the pools.                                       *)
LEMMA PickInPool ==
  ASSUME NEW d, Hash[d] \in Nat
  PROVE  DailyQuests(d) \subseteq DailyAll /\ WeeklyQuests(d) \subseteq WeeklyAll
<1>1. Len(DailyPool) = 6 /\ Len(WeeklyPool) = 3
  BY DEF DailyPool, WeeklyPool
<1>2. \A i \in Nat : ((Hash[d] + i) % 6) + 1 \in 1 .. 6 /\ ((Hash[d] + i) % 3) + 1 \in 1 .. 3
  OBVIOUS
<1>3. Smaller(3, 6) = 3 /\ Smaller(2, 3) = 2
  BY DEF Smaller
<1>4. DailyQuests(d) \subseteq DailyAll
  BY <1>1, <1>2, <1>3 DEF DailyQuests, Pick, DailyAll
<1>5. WeeklyQuests(d) \subseteq WeeklyAll
  BY <1>1, <1>2, <1>3 DEF WeeklyQuests, Pick, WeeklyAll
<1> QED
  BY <1>4, <1>5

(* No two quests have an id in common.                                     *)
LEMMA QuestIds ==
  /\ \A q \in DailyAll : q.metric \in {"clicks", "batches", "maxbatch"} /\ q.target \in Nat
  /\ \A q \in WeeklyAll : q.metric \in {"days", "week", "rank"} /\ q.target \in Nat
  /\ \A p, q \in DailyAll : p.id = q.id => p = q
  /\ \A p, q \in WeeklyAll : p.id = q.id => p = q
  /\ \A p \in DailyAll, q \in WeeklyAll : p.id # q.id
<1>1. DailyAll = {[id |-> "warmup", metric |-> "clicks", target |-> 100],
                  [id |-> "marathon", metric |-> "clicks", target |-> 1000],
                  [id |-> "grinder", metric |-> "clicks", target |-> 5000],
                  [id |-> "assembly", metric |-> "batches", target |-> 10],
                  [id |-> "go_big", metric |-> "maxbatch", target |-> 500],
                  [id |-> "overachiever", metric |-> "batches", target |-> 50]}
  BY DEF DailyAll, DailyPool, Quest
<1>2. WeeklyAll = {[id |-> "everyday", metric |-> "days", target |-> 7],
                   [id |-> "weekly_grind", metric |-> "week", target |-> 50000],
                   [id |-> "top100", metric |-> "rank", target |-> 100]}
  BY DEF WeeklyAll, WeeklyPool, Quest
<1>3. \A q \in DailyAll : q.metric \in {"clicks", "batches", "maxbatch"} /\ q.target \in Nat
  BY <1>1
<1>4. \A q \in WeeklyAll : q.metric \in {"days", "week", "rank"} /\ q.target \in Nat
  BY <1>2
<1>5. \A p, q \in DailyAll : p.id = q.id => p = q
  BY <1>1
<1>6. \A p, q \in WeeklyAll : p.id = q.id => p = q
  BY <1>2
<1>7. \A p \in DailyAll, q \in WeeklyAll : p.id # q.id
  BY <1>1, <1>2
<1> QED
  BY <1>3, <1>4, <1>5, <1>6, <1>7

(* Thresholds are the ids the total decides.                               *)
LEMMA ThresholdIds ==
  /\ \A id \in DOMAIN Thresholds : Thresholds[id] \in Nat \ {0}
  /\ \A n, t : BatchRules(n, t) \cap DOMAIN Thresholds = {}
  /\ \A n, t : TrollEvaluate(n, t) \cap DOMAIN Thresholds = {}
<1>1. DOMAIN Thresholds =
        {"mvh", "ten", "deep_thought", "nice", "century", "irrational", "blaze", "cursed",
         "comma", "elite", "over9000", "carpal", "stretch"}
  BY DEF Thresholds
<1>2. \A id \in DOMAIN Thresholds : Thresholds[id] \in Nat \ {0}
  BY <1>1 DEF Thresholds
<1>3. \A n, t : BatchRules(n, t) \subseteq
                  {"bigbatch", "chonk", "maxbatch", "witching", "night", "dawn", "lunch"}
  BY DEF BatchRules
<1>4. \A n, t : TrollEvaluate(n, t) \subseteq
                  {"palindrome", "power_of_two", "repdigit", "clock_420"}
  BY Zenon DEF TrollEvaluate
<1>5. \A id \in {"bigbatch", "chonk", "maxbatch", "witching", "night", "dawn", "lunch",
                 "palindrome", "power_of_two", "repdigit", "clock_420"} :
        id \notin DOMAIN Thresholds
  BY <1>1
<1> QED
  BY <1>2, <1>3, <1>4, <1>5

(* A quest of the day, or of the week, shows as done.                      *)
DayHolds(q, u, d) ==
  \/ q.metric = "clicks" /\ q.target <= daily[u][d].clicks
  \/ q.metric = "batches" /\ q.target <= daily[u][d].batches
  \/ q.metric = "maxbatch" /\ (q.target <= maxbatch[u][d] \/ Spoiled(u, "maxbatch"))

WeekHolds(q, u, k) ==
  \/ q.metric = "rank"
  \/ q.metric = "week" /\ q.target <= week[u][k]
  \/ q.metric = "days" /\ q.target <= Cardinality(weekdays[u][k])

(* What is granted is due to the user.                                     *)
Due(x) ==
  /\ x[1] \in Users
  /\ \/ /\ x[2] \in Days
        /\ \E q \in DailyQuests(x[2]) : q.id = x[3] /\ DayHolds(q, x[1], x[2])
     \/ /\ x[2] \in Weeks
        /\ \E q \in WeeklyQuests(x[2]) : q.id = x[3] /\ WeekHolds(q, x[1], x[2])

RewardInv ==
  /\ \A w \in Workers : Real(w)
  /\ \A x \in granted : Due(x)
  /\ UnlocksEarned

(* What shows as done goes on doing so.                                    *)
LEMMA HoldsGrown ==
  ASSUME Types, Types', Grown, torn \subseteq torn', NEW q, q.target \in Nat, NEW u \in Users
  PROVE  /\ \A d \in Days : DayHolds(q, u, d) => DayHolds(q, u, d)'
         /\ \A k \in Weeks : WeekHolds(q, u, k) => WeekHolds(q, u, k)'
<1>1. ASSUME NEW a \in Nat, NEW b \in Nat, a <= b, q.target <= a PROVE q.target <= b
  BY <1>1
<1>2. ASSUME NEW d \in Days, DayHolds(q, u, d) PROVE DayHolds(q, u, d)'
  <2>1. /\ daily[u][d] \in [clicks : Nat, batches : Nat]
        /\ daily'[u][d] \in [clicks : Nat, batches : Nat]
        /\ maxbatch[u][d] \in Nat /\ maxbatch'[u][d] \in Nat
    BY DEF Types, TypeOK
  <2>2. /\ daily[u][d].clicks \in Nat /\ daily'[u][d].clicks \in Nat
        /\ daily[u][d].batches \in Nat /\ daily'[u][d].batches \in Nat
    BY <2>1
  <2>3. /\ daily[u][d].clicks <= daily'[u][d].clicks
        /\ daily[u][d].batches <= daily'[u][d].batches
        /\ maxbatch[u][d] <= maxbatch'[u][d] \/ Spoiled(u, "maxbatch")'
    BY Zenon DEF Grown, Spoiled
  <2>4. Spoiled(u, "maxbatch") => Spoiled(u, "maxbatch")'
    BY DEF Spoiled
  <2> QED
    BY <1>1, <1>2, <2>1, <2>2, <2>3, <2>4, Zenon DEF DayHolds
<1>3. ASSUME NEW k \in Weeks, WeekHolds(q, u, k) PROVE WeekHolds(q, u, k)'
  <2>1. /\ week[u][k] \in Nat /\ week'[u][k] \in Nat
        /\ IsFiniteSet(weekdays[u][k]) /\ IsFiniteSet(weekdays'[u][k])
    BY DEF Types, TypeOK, FiniteWeeks
  <2>2. Cardinality(weekdays[u][k]) \in Nat /\ Cardinality(weekdays'[u][k]) \in Nat
    BY <2>1, FS_CardinalityType, Zenon
  <2>3. /\ week[u][k] <= week'[u][k]
        /\ Cardinality(weekdays[u][k]) <= Cardinality(weekdays'[u][k])
    BY Zenon DEF Grown
  <2> QED
    BY <1>1, <1>3, <2>1, <2>2, <2>3, Zenon DEF WeekHolds
<1> QED
  BY <1>2, <1>3

(* What is due stays due.                                                  *)
LEMMA DueGrown ==
  ASSUME Types, Types', Grown, torn \subseteq torn', NEW x, Due(x)
  PROVE  Due(x)'
<1>1. x[1] \in Users
  BY DEF Due
<1>2. CASE x[2] \in Days /\ \E q \in DailyQuests(x[2]) : q.id = x[3] /\ DayHolds(q, x[1], x[2])
  <2>1. PICK q \in DailyQuests(x[2]) : q.id = x[3] /\ DayHolds(q, x[1], x[2])
    BY <1>2
  <2>2. q.target \in Nat
    BY <1>2, HashTyped, PickInPool, QuestIds
  <2>3. DayHolds(q, x[1], x[2])'
    BY <1>1, <1>2, <2>1, <2>2, HoldsGrown
  <2> QED
    BY <1>1, <1>2, <2>1, <2>3, Zenon DEF Due
<1>3. CASE x[2] \in Weeks /\ \E q \in WeeklyQuests(x[2]) : q.id = x[3] /\ WeekHolds(q, x[1], x[2])
  <2>1. PICK q \in WeeklyQuests(x[2]) : q.id = x[3] /\ WeekHolds(q, x[1], x[2])
    BY <1>3
  <2>2. q.target \in Nat
    BY <1>3, HashTyped, PickInPool, QuestIds
  <2>3. WeekHolds(q, x[1], x[2])'
    BY <1>1, <1>3, <2>1, <2>2, HoldsGrown
  <2> QED
    BY <1>1, <1>3, <2>1, <2>3, Zenon DEF Due
<1> QED
  BY <1>2, <1>3, Zenon DEF Due

(* A quest that a worker finds completed is due.                           *)
LEMMA CompletedDue ==
  ASSUME Types, NEW w \in Workers, Thinks(w), Real(w), NEW x \in Completed(w)
  PROVE  Due(x)
<1>1. PICK s \in Signal, u \in Users, d \in Days, k \in Weeks :
        s = job[w].sig /\ u = User(w) /\ d = Today(w) /\ k = ThisWeek(w)
  BY EventTyped DEF Types, JobsTyped, IsJob, Thinks, InApply
<1>2. Below(s, u, d) /\ k = WeekStart(d)
  BY <1>1 DEF Real, ThisWeek
<1>3. /\ s.clicks \in Nat /\ s.batches \in Nat /\ s.maxbatch \in Nat
      /\ s.days \in Nat /\ s.week \in Nat
  BY DEF Signal
<1>4. ASSUME NEW n \in Nat, NEW a \in Nat, NEW b \in Nat, n <= a, a <= b PROVE n <= b
  BY <1>4
<1>5. CASE \E q \in DailyQuests(d) : x = <<u, d, q.id>> /\ QuestDone(q, s)
  <2>1. PICK q \in DailyQuests(d) : x = <<u, d, q.id>> /\ QuestDone(q, s)
    BY <1>5
  <2>2. q.metric \in {"clicks", "batches", "maxbatch"} /\ q.target \in Nat
    BY HashTyped, PickInPool, QuestIds
  <2>3. \/ q.metric = "clicks" /\ q.target <= s.clicks
        \/ q.metric = "batches" /\ q.target <= s.batches
        \/ q.metric = "maxbatch" /\ q.target <= s.maxbatch
    BY <1>3, <2>1, <2>2 DEF QuestDone
  <2>4. /\ daily[u][d].clicks \in Nat /\ daily[u][d].batches \in Nat /\ maxbatch[u][d] \in Nat
    BY DEF Types, TypeOK
  <2>5. /\ s.clicks <= daily[u][d].clicks /\ s.batches <= daily[u][d].batches
        /\ s.maxbatch <= maxbatch[u][d] \/ Spoiled(u, "maxbatch")
    BY <1>2 DEF Below
  <2>6. DayHolds(q, u, d)
    BY <1>3, <1>4, <2>2, <2>3, <2>4, <2>5, Zenon DEF DayHolds
  <2>7. x[1] = u /\ x[2] = d /\ x[3] = q.id
    BY <2>1
  <2> QED
    BY <2>6, <2>7, Zenon DEF Due
<1>6. CASE \E q \in WeeklyQuests(k) : x = <<u, k, q.id>> /\ QuestDone(q, s)
  <2>1. PICK q \in WeeklyQuests(k) : x = <<u, k, q.id>> /\ QuestDone(q, s)
    BY <1>6
  <2>2. q.metric \in {"days", "week", "rank"} /\ q.target \in Nat
    BY HashTyped, PickInPool, QuestIds
  <2>3. \/ q.metric = "rank"
        \/ q.metric = "week" /\ q.target <= s.week
        \/ q.metric = "days" /\ q.target <= s.days
    BY <1>3, <2>1, <2>2 DEF QuestDone
  <2>4. week[u][k] \in Nat /\ IsFiniteSet(weekdays[u][k])
    BY DEF Types, TypeOK, FiniteWeeks
  <2>5. Cardinality(weekdays[u][k]) \in Nat
    BY <2>4, FS_CardinalityType, Zenon
  <2>6. s.week <= week[u][k] /\ s.days <= Cardinality(weekdays[u][k])
    BY <1>2, Zenon DEF Below
  <2>7. WeekHolds(q, u, k)
    BY <1>3, <1>4, <2>2, <2>3, <2>4, <2>5, <2>6, Zenon DEF WeekHolds
  <2>8. x[1] = u /\ x[2] = k /\ x[3] = q.id
    BY <2>1
  <2> QED
    BY <2>7, <2>8, Zenon DEF Due
<1>7. \/ x \in {<<u, d, q.id>> : q \in {q \in DailyQuests(d) : QuestDone(q, s)}}
      \/ x \in {<<u, k, q.id>> : q \in {q \in WeeklyQuests(k) : QuestDone(q, s)}}
  BY <1>1, Zenon DEF Completed
<1> QED
  BY <1>5, <1>6, <1>7

(* A threshold that a worker finds crossed is reached.                     *)
LEMMA EarnedReached ==
  ASSUME Types, NEW w \in Workers, Thinks(w), Real(w), NEW x \in Earned(w),
         x[2] \in DOMAIN Thresholds
  PROVE  x[1] \in Users /\ Thresholds[x[2]] <= board[x[1]]
<1>1. PICK u \in Users, n \in Nat, batch \in Nat :
        u = User(w) /\ n = job[w].total /\ batch = Record(w).count
  BY EventTyped DEF Types, JobsTyped, IsJob, Thinks, InApply
<1>2. n <= board[u] /\ board[u] \in Nat
  BY <1>1 DEF Real, Types, TypeOK
<1>3. x[1] = u /\ x[2] \in Evaluate(n, batch, Record(w).ts) \cup TrollEvaluate(n, Record(w).ts)
  BY <1>1 DEF Earned
<1>4. Crosses(n, batch, Thresholds[x[2]])
  <2>1. x[2] \in Evaluate(n, batch, Record(w).ts) /\ x[2] \notin BatchRules(batch, Record(w).ts)
    BY <1>3, ThresholdIds
  <2> QED
    BY <2>1, Zenon DEF Evaluate
<1>5. Thresholds[x[2]] <= n /\ Thresholds[x[2]] \in Nat
  BY <1>4, ThresholdIds DEF Crosses
<1> QED
  BY <1>2, <1>3, <1>5

(* A step of a worker.                                                     *)
LEMMA WorkerRewards ==
  ASSUME Types, Types', MaxInv, RewardInv, NEW w \in Workers, WorkerStep(w)
  PROVE  RewardInv'
<1>1. Grown /\ torn \subseteq torn'
  BY StepFrame, CountersGrow DEF Frame1
<1>2. \A v \in Workers : Real(v)'
  BY StepReal DEF RewardInv
<1>3. \A x \in granted : Due(x)'
  BY <1>1, DueGrown DEF RewardInv
<1>4. \A x \in unlocks : x[2] \in DOMAIN Thresholds => Thresholds[x[2]] <= board'[x[1]]
  <2> TAKE x \in unlocks
  <2> HAVE x[2] \in DOMAIN Thresholds
  <2>1. PICK u \in Users, n \in Nat : u = x[1] /\ n = Thresholds[x[2]]
    BY ThresholdIds DEF Types, TypeOK
  <2>2. n <= board[u]
    BY <2>1 DEF RewardInv, UnlocksEarned
  <2>3. board[u] \in Nat /\ board'[u] \in Nat
    BY DEF Types, TypeOK
  <2>4. board[u] <= board'[u]
    BY <1>1, Zenon DEF Grown
  <2> QED
    BY <2>1, <2>2, <2>3, <2>4
<1>5. CASE UNCHANGED <<unlocks, quests>>
  BY <1>2, <1>3, <1>4, <1>5 DEF RewardInv, UnlocksEarned, quests
<1>6. CASE (Claim(w) \/ ClaimError(w)) /\ UNCHANGED quests
  <2>1. unlocks' \subseteq unlocks \cup Earned(w) /\ Thinks(w) /\ board' = board
    BY <1>6 DEF Claim, ClaimError, Thinks, At, Engine, BeforeStreak, counts, tally
  <2>2. \A x \in Earned(w) : x[2] \in DOMAIN Thresholds => Thresholds[x[2]] <= board'[x[1]]
    BY <2>1, EarnedReached DEF RewardInv
  <2>3. UnlocksEarned'
    BY <1>4, <2>1, <2>2, Zenon DEF UnlocksEarned
  <2> QED
    BY <1>2, <1>3, <1>6, <2>3 DEF RewardInv, quests
<1>7. CASE (ClaimQuests(w) \/ ClaimQuestsError(w)) /\ unlocks' = unlocks
  <2>1. granted' \subseteq granted \cup Completed(w) /\ Thinks(w)
    BY <1>7 DEF ClaimQuests, ClaimQuestsError, Grant, Thinks, At, Engine, BeforeStreak
  <2>2. \A x \in Completed(w) : Due(x)'
    BY <1>1, <2>1, CompletedDue, DueGrown DEF RewardInv
  <2>3. \A x \in granted' : Due(x)'
    BY <1>3, <2>1, <2>2
  <2> QED
    BY <1>2, <1>4, <1>7, <2>3 DEF RewardInv, UnlocksEarned
<1>8. CASE (ExpireDay(w) \/ ExpireWeek(w)) /\ unlocks' = unlocks
  BY <1>2, <1>3, <1>4, <1>8 DEF RewardInv, UnlocksEarned, ExpireDay, ExpireWeek
<1> QED
  BY <1>5, <1>6, <1>7, <1>8, StepAwards

(* A step that changes nothing a reward is for.                            *)
LEMMA RewardsStay ==
  ASSUME RewardInv,
         UNCHANGED <<clicks, counts, unlocks, granted, worker, job, torn>>
  PROVE  RewardInv'
<1>1. \A w \in Workers : Real(w)'
  BY DEF RewardInv, Real, Thinks, Below, Spoiled, User, Today, Record, counts, tally
<1>2. \A x \in granted' : Due(x)'
  BY DEF RewardInv, Due, DayHolds, WeekHolds, Spoiled, counts, tally
<1> QED
  BY <1>1, <1>2 DEF RewardInv, UnlocksEarned, counts, tally

(* Every step keeps rewards earned.                                        *)
LEMMA StepRewards == Types /\ Types' /\ MaxInv /\ RewardInv /\ [Next]_vars => RewardInv'
<1> SUFFICES ASSUME Types, Types', MaxInv, RewardInv, [Next]_vars PROVE RewardInv'
  OBVIOUS
<1>1. CASE UNCHANGED vars
  BY <1>1, RewardsStay DEF vars, redis, quests
<1>2. ASSUME NEW w \in Workers, WorkerStep(w) PROVE RewardInv'
  BY <1>2, WorkerRewards
<1>3. ASSUME NEW u \in Users, NEW d \in Days, KeyExpires(u, d) PROVE RewardInv'
  BY <1>3, RewardsStay DEF KeyExpires
<1> QED
  BY <1>1, <1>2, <1>3 DEF Next, WorkerStep

(* At the start nothing is read or awarded.                                *)
LEMMA InitRewards == Init => RewardInv
BY DEF Init, RewardInv, Real, Thinks, Idle, NoJob, Engine, BeforeStreak, UnlocksEarned

(* What is due is what the property asks.                                  *)
LEMMA DueIsEarned ==
  ASSUME Types, RewardInv
  PROVE  RewardsEarned
<1> SUFFICES ASSUME NEW x \in granted
             PROVE  /\ \A q \in DailyQuests(x[2]) :
                         q.id = x[3] =>
                           \/ QuestDone(q, DaySignals(NoSignals, x[1], x[2]))
                           \/ q.metric = "maxbatch" /\ <<x[1], "maxbatch">> \in torn
                    /\ x[2] \in Weeks => \A q \in WeeklyQuests(x[2]) :
                         q.id = x[3] /\ q.metric # "rank" =>
                           \/ q.metric = "week" /\ week[x[1]][x[2]] >= q.target
                           \/ q.metric = "days" /\ Cardinality(weekdays[x[1]][x[2]]) >= q.target
  BY Zenon DEF RewardsEarned, RewardInv
<1>1. Due(x)
  BY DEF RewardInv
<1>2. PICK u \in Users, d \in Days \cup Weeks : u = x[1] /\ d = x[2]
  BY <1>1 DEF Due
<1>3. DailyQuests(d) \subseteq DailyAll /\ WeeklyQuests(d) \subseteq WeeklyAll
  BY HashTyped, PickInPool
<1>4. CASE d \in Days /\ \E q \in DailyQuests(d) : q.id = x[3] /\ DayHolds(q, u, d)
  <2>1. PICK q \in DailyQuests(d) : q.id = x[3] /\ DayHolds(q, u, d)
    BY <1>4
  <2>2. /\ \A p \in DailyQuests(d) : p.id = x[3] => p = q
        /\ \A p \in WeeklyQuests(d) : p.id # x[3]
    BY <1>3, <2>1, QuestIds
  <2>3. q.target \in Nat
    BY <1>3, <2>1, QuestIds
  <2>4. /\ daily[u][d].clicks \in Nat /\ daily[u][d].batches \in Nat /\ maxbatch[u][d] \in Nat
    BY <1>4 DEF Types, TypeOK
  <2>5. PICK s : s = DaySignals(NoSignals, u, d)
    OBVIOUS
  <2>6. /\ s.clicks = daily[u][d].clicks /\ s.batches = daily[u][d].batches
        /\ s.maxbatch = maxbatch[u][d]
        /\ s["clicks"] = s.clicks /\ s["batches"] = s.batches /\ s["maxbatch"] = s.maxbatch
    BY <2>5 DEF DaySignals
  <2>7. QuestDone(q, s) \/ (q.metric = "maxbatch" /\ <<u, "maxbatch">> \in torn)
    BY <2>1, <2>3, <2>4, <2>6 DEF DayHolds, QuestDone, Spoiled
  <2> QED
    BY <1>2, <2>2, <2>5, <2>7
<1>5. CASE d \in Weeks /\ \E q \in WeeklyQuests(d) : q.id = x[3] /\ WeekHolds(q, u, d)
  <2>1. PICK q \in WeeklyQuests(d) : q.id = x[3] /\ WeekHolds(q, u, d)
    BY <1>5
  <2>2. /\ \A p \in WeeklyQuests(d) : p.id = x[3] => p = q
        /\ \A p \in DailyQuests(d) : p.id # x[3]
    BY <1>3, <2>1, QuestIds
  <2>3. q.target \in Nat
    BY <1>3, <2>1, QuestIds
  <2>4. week[u][d] \in Nat /\ IsFiniteSet(weekdays[u][d])
    BY <1>5 DEF Types, TypeOK, FiniteWeeks
  <2>5. Cardinality(weekdays[u][d]) \in Nat
    BY <2>4, FS_CardinalityType, Zenon
  <2>6. \/ q.metric = "rank"
        \/ q.metric = "week" /\ week[u][d] >= q.target
        \/ q.metric = "days" /\ Cardinality(weekdays[u][d]) >= q.target
    BY <2>1, <2>3, <2>4, <2>5 DEF WeekHolds
  <2> QED
    BY <1>2, <2>2, <2>6
<1> QED
  BY <1>1, <1>2, <1>4, <1>5, Zenon DEF Due

(* Whatever interleaves with it, a reward stays earned.                    *)
THEOREM RewardsStayEarned == Spec => []RewardsEarned
<1>1. Types /\ MaxInv /\ RewardInv /\ [Next]_vars => (Types /\ MaxInv /\ RewardInv)'
  BY StepTypes, StepMax, StepRewards
<1>2. Types /\ RewardInv => RewardsEarned
  BY DueIsEarned
<1> QED
  BY InitTypes, InitMax, InitRewards, <1>1, <1>2, PTL DEF Spec

-----------------------------------------------------------------------------
(* Quests are granted once.                                                *)

(* The exception of QuestOnce.                                             *)
Late(d) == ~Opens(d) /\ \E o \in DOMAIN clicks : DateHCM(clicks[o].ts) >= d + 2

(* w is about to give the key of u and d the time of a week's.             *)
Extends(w, u, d) == At(w, "expweek") /\ User(w) = u /\ Today(w) = d

(* What was granted is remembered, but for the exceptions; the key of a    *)
(* Monday has the time of a day's only between its two EXPIREs.            *)
QuestInv ==
  /\ \A x \in granted : x \in done \/ Spoiled(x[1], "quests") \/ Late(x[2])
  /\ \A p \in short : Opens(p[2]) =>
       Spoiled(p[1], "quests") \/ \E w \in Workers : Extends(w, p[1], p[2])
  /\ QuestOnce

(* A worker between the two stays there, gives the second or dies.         *)
LEMMA BetweenExpires ==
  ASSUME Types, NEW w \in Workers, WorkerStep(w), At(w, "expweek")
  PROVE  \/ ExpireWeek(w) \/ <<User(w), "quests">> \in torn'
         \/ At(w, "expweek")' /\ worker'[w].idx = worker[w].idx /\ UNCHANGED <<quests, torn>>
<1>1. CASE ReadStep(w)
  BY <1>1 DEF ReadStep, GetTotal, GetDay, GetWeek, LoadStreak, LoadStreakError, At
<1>2. CASE \/ Claim(w) \/ ClaimError(w) \/ SaveStreak(w) \/ ClaimQuests(w)
           \/ ClaimQuestsError(w) \/ ExpireDay(w)
  BY <1>2 DEF Claim, ClaimError, SaveStreak, ClaimQuests, ClaimQuestsError, ExpireDay, At
<1>3. CASE EndStep(w)
  BY <1>3 DEF EndStep, SkipMalformed, FirstSeeRepeat, FirstSeeError, GetMaxError, Frame,
              FrameError, At
<1>4. CASE GetMax(w) \/ Exec(w) \/ ExecError(w) \/ FirstSeeWins(w)
  BY <1>4 DEF GetMax, Exec, ExecError, FirstSeeWins, At
<1>5. CASE GroupStep(w)
  <2>1. CASE Poll(w) \/ PollError(w) \/ Commit(w) \/ CommitError(w) \/ Restart(w)
    BY <2>1 DEF Poll, PollError, Commit, CommitError, Restart, At
  <2>2. CASE Crash(w)
    <3>1. "quests" \in Unfinished(w)
      BY DEF Unfinished, At
    <3> QED
      BY <2>2, <3>1 DEF Crash
  <2>3. CASE Assign(w)
    <3>1. worker' = [worker EXCEPT ![w].pos = committed] /\ UNCHANGED <<redis, torn>>
      BY <2>3 DEF Assign
    <3>2. worker'[w].pc = worker[w].pc /\ worker'[w].idx = worker[w].idx
      BY <3>1 DEF Types, BatchInLog, WorkerState
    <3> QED
      BY <3>1, <3>2 DEF At, redis
  <2> QED
    BY <1>5, <2>1, <2>2, <2>3 DEF GroupStep
<1> QED
  BY <1>1, <1>2, <1>3, <1>4, <1>5, StepKinds

(* What the quest steps do to the records of grants.                       *)
LEMMA GrantsKept ==
  ASSUME NEW w \in Workers, WorkerStep(w)
  PROVE  \E new :
           /\ new \cap done = {}
           /\ granted' = granted \cup new /\ again' = again \cup (new \cap granted)
           /\ done \cup new \subseteq done'
<1>1. CASE UNCHANGED <<granted, again, done>>
  <2>1. {} \cap done = {} /\ granted' = granted \cup {} /\ again' = again \cup ({} \cap granted)
        /\ done \cup {} \subseteq done'
    BY <1>1
  <2> QED
    BY <2>1
<1>2. CASE ClaimQuests(w)
  BY <1>2 DEF ClaimQuests, Grant
<1>3. CASE ClaimQuestsError(w)
  BY <1>3 DEF ClaimQuestsError, Grant
<1>4. CASE ExpireDay(w) \/ ExpireWeek(w)
  BY <1>1, <1>4 DEF ExpireDay, ExpireWeek
<1> QED
  BY <1>1, <1>2, <1>3, <1>4, StepAwards DEF quests

(* And to the times of the keys.                                           *)
LEMMA ShortKept ==
  ASSUME Types, NEW w \in Workers, WorkerStep(w)
  PROVE  \/ short' = short
         \/ /\ short' \subseteq short \cup {<<User(w), Today(w)>>}
            /\ At(w, "expweek")' /\ worker'[w].idx = worker[w].idx
         \/ short' = short \ {<<User(w), ThisWeek(w)>>}
<1>1. CASE UNCHANGED quests
  BY <1>1 DEF quests
<1>2. CASE ClaimQuests(w) \/ ClaimQuestsError(w)
  BY <1>2 DEF ClaimQuests, ClaimQuestsError
<1>3. CASE ExpireDay(w)
  <2>1. At(w, "expweek")' /\ worker'[w].idx = worker[w].idx
    BY <1>3, Moves DEF ExpireDay, At, Types
  <2> QED
    BY <1>3, <2>1 DEF ExpireDay
<1>4. CASE ExpireWeek(w)
  BY <1>4 DEF ExpireWeek
<1> QED
  BY <1>1, <1>2, <1>3, <1>4, StepAwards

(* A step of a worker.                                                     *)
LEMMA WorkerQuests ==
  ASSUME Types, QuestInv, NEW w \in Workers, WorkerStep(w)
  PROVE  QuestInv'
<1>1. Frame1(w) /\ clicks' = clicks /\ torn \subseteq torn'
  BY StepFrame DEF Frame1
<1>2. /\ \A u, part : Spoiled(u, part) => Spoiled(u, part)'
      /\ \A d : Late(d)' = Late(d)
  BY <1>1 DEF Spoiled, Late
<1>3. PICK new : /\ new \cap done = {}
                 /\ granted' = granted \cup new /\ again' = again \cup (new \cap granted)
                 /\ done \cup new \subseteq done'
  BY GrantsKept
<1>4. \A x \in granted' : x \in done' \/ Spoiled(x[1], "quests")' \/ Late(x[2])'
  BY <1>2, <1>3 DEF QuestInv
<1>5. QuestOnce'
  <2>1. \A x \in again : Spoiled(x[1], "quests") \/ Late(x[2])
    BY DEF QuestInv, QuestOnce, Spoiled, Late
  <2>2. \A x \in new \cap granted : Spoiled(x[1], "quests") \/ Late(x[2])
    BY <1>3 DEF QuestInv
  <2>3. \A x \in again' : Spoiled(x[1], "quests")' \/ Late(x[2])'
    BY <1>2, <1>3, <2>1, <2>2
  <2> QED
    BY <2>3 DEF QuestOnce, Spoiled, Late
<1>6. ASSUME NEW v \in Workers, v # w, NEW u, NEW d, Extends(v, u, d) PROVE Extends(v, u, d)'
  BY <1>1, <1>6, OthersStay DEF Extends, At
<1>7. ASSUME worker'[w].idx = worker[w].idx PROVE User(w)' = User(w) /\ Today(w)' = Today(w)
  BY <1>1, <1>7 DEF User, Today, Record
<1>8. ASSUME NEW p \in short', Opens(p[2])
      PROVE  Spoiled(p[1], "quests")' \/ \E v \in Workers : Extends(v, p[1], p[2])'
  <2>1. CASE p \in short
    <3>1. CASE Spoiled(p[1], "quests")
      BY <1>2, <3>1
    <3>2. CASE \E v \in Workers \ {w} : Extends(v, p[1], p[2])
      BY <1>6, <3>2
    <3>3. CASE Extends(w, p[1], p[2])
      <4>1. At(w, "expweek") /\ User(w) = p[1] /\ Today(w) = p[2]
        BY <3>3 DEF Extends
      <4>2. CASE ExpireWeek(w)
        <5>1. ThisWeek(w) = p[2]
          BY <1>8, <4>1 DEF ThisWeek, Opens
        <5>2. p = <<p[1], p[2]>>
          BY <2>1 DEF Types, TypeOK
        <5>3. <<p[1], "quests">> \in torn'
          BY <1>8, <4>1, <4>2, <5>1, <5>2 DEF ExpireWeek, Tear
        <5> QED
          BY <5>3 DEF Spoiled
      <4>3. CASE <<User(w), "quests">> \in torn'
        BY <4>1, <4>3 DEF Spoiled
      <4>4. CASE At(w, "expweek")' /\ worker'[w].idx = worker[w].idx
        BY <1>7, <4>1, <4>4 DEF Extends
      <4> QED
        BY <4>1, <4>2, <4>3, <4>4, BetweenExpires
    <3> QED
      BY <1>8, <2>1, <3>1, <3>2, <3>3 DEF QuestInv
  <2>2. CASE p \notin short
    <3>1. /\ p = <<User(w), Today(w)>>
          /\ At(w, "expweek")' /\ worker'[w].idx = worker[w].idx
      BY <1>8, <2>2, ShortKept
    <3>2. Extends(w, p[1], p[2])'
      BY <1>7, <3>1 DEF Extends
    <3> QED
      BY <3>2
  <2> QED
    BY <2>1, <2>2
<1> QED
  BY <1>4, <1>5, <1>8 DEF QuestInv, Opens

(* A key that expires: two days later, and not between the EXPIREs.        *)
LEMMA ExpiredQuests ==
  ASSUME Types, QuestInv, NEW u \in Users, NEW d \in Days, KeyExpires(u, d)
  PROVE  QuestInv'
<1>1. /\ UNCHANGED <<clicks, granted, again, worker, torn>>
      /\ done' = {x \in done : <<x[1], x[2]>> # <<u, d>>} /\ short' = short \ {<<u, d>>}
      /\ <<u, d>> \in short
  BY DEF KeyExpires
<1>2. Spoiled(u, "quests") \/ Late(d)
  <2>1. CASE Opens(d)
    <3>1. ~ \E w \in Workers : Extends(w, u, d)
      BY DEF KeyExpires, Extends
    <3> QED
      BY <1>1, <2>1, <3>1 DEF QuestInv
  <2>2. CASE ~Opens(d)
    <3>1. PICK w \in Workers : worker[w].pc \in InApply /\ Today(w) >= d + 2
      BY DEF KeyExpires
    <3>2. worker[w].idx \in DOMAIN clicks
      BY <3>1, EventTyped DEF Types
    <3> QED
      BY <2>2, <3>1, <3>2 DEF Late, Today, Record
  <2> QED
    BY <2>1, <2>2
<1>3. \A x \in granted' : x \in done' \/ Spoiled(x[1], "quests")' \/ Late(x[2])'
  <2> SUFFICES ASSUME NEW x \in granted PROVE x \in done' \/ Spoiled(x[1], "quests") \/ Late(x[2])
    BY <1>1 DEF Spoiled, Late
  <2>1. CASE <<x[1], x[2]>> = <<u, d>>
    BY <1>2, <2>1
  <2>2. CASE <<x[1], x[2]>> # <<u, d>>
    BY <1>1, <2>2 DEF QuestInv
  <2> QED
    BY <2>1, <2>2
<1>4. \A p \in short' : Opens(p[2]) =>
        Spoiled(p[1], "quests")' \/ \E w \in Workers : Extends(w, p[1], p[2])'
  BY <1>1 DEF QuestInv, Spoiled, Extends, At, User, Today, Record
<1>5. QuestOnce'
  BY <1>1 DEF QuestInv, QuestOnce
<1> QED
  BY <1>3, <1>4, <1>5 DEF QuestInv, Opens

(* A step that changes nothing about quests.                               *)
LEMMA QuestsIdle ==
  ASSUME QuestInv, UNCHANGED <<clicks, done, short, granted, again, worker, torn>>
  PROVE  QuestInv'
BY DEF QuestInv, QuestOnce, Spoiled, Late, Opens, Extends, At, User, Today, Record

(* Every step keeps quests granted once.                                   *)
LEMMA StepQuests == Types /\ QuestInv /\ [Next]_vars => QuestInv'
<1> SUFFICES ASSUME Types, QuestInv, [Next]_vars PROVE QuestInv'
  OBVIOUS
<1>1. CASE UNCHANGED vars
  BY <1>1, QuestsIdle DEF vars, redis, quests
<1>2. ASSUME NEW w \in Workers, WorkerStep(w) PROVE QuestInv'
  BY <1>2, WorkerQuests
<1>3. ASSUME NEW u \in Users, NEW d \in Days, KeyExpires(u, d) PROVE QuestInv'
  BY <1>3, ExpiredQuests
<1> QED
  BY <1>1, <1>2, <1>3 DEF Next, WorkerStep

(* progressworker.go:189-204.  No quest is granted twice, whatever the log *)
(* and however the workers interleave, but for the exceptions the property *)
(* names.                                                                  *)
THEOREM QuestsGrantedOnce == Spec => []QuestOnce
<1>1. Init => QuestInv
  BY DEF Init, QuestInv, QuestOnce
<1>2. Types /\ QuestInv /\ [Next]_vars => (Types /\ QuestInv)'
  BY StepTypes, StepQuests
<1>3. QuestInv => QuestOnce
  BY DEF QuestInv
<1> QED
  BY InitTypes, <1>1, <1>2, <1>3, PTL DEF Spec

-----------------------------------------------------------------------------
(* Thresholds are told.                                                    *)

Reading == {"total", "day", "week", "claims"}
Claimed == Engine \ Reading

Settled(u, id) == <<u, id>> \in told \/ Spoiled(u, "claims")

(* w brings the unlock to its frame.                                       *)
Carries(w, u, id) ==
  worker[w].pc \in Claimed /\ User(w) = u /\ <<u, id>> \in job[w].news

(* The total a worker read, or is about to.                                *)
Sees(w) == IF At(w, "total") THEN board[User(w)] ELSE job[w].total

(* w will find that its event crossed the threshold.                       *)
Owes(w, u, id) ==
  /\ worker[w].pc \in Reading /\ User(w) = u
  /\ Crosses(Sees(w), Record(w).count, Thresholds[id])

(* What is reached is told, or will be by a worker; and what is claimed is *)
(* in the hands of a worker until then.                                    *)
ToldInv ==
  \A u \in Users : \A id \in DOMAIN Thresholds :
    /\ <<u, id>> \in unlocks => Settled(u, id) \/ \E w \in Workers : Carries(w, u, id)
    /\ Thresholds[id] <= board[u] =>
         Settled(u, id) \/ \E w \in Workers : Carries(w, u, id) \/ Owes(w, u, id)

(* What is told stays told.                                                *)
LEMMA ToldGrows ==
  ASSUME NEW w \in Workers, WorkerStep(w)
  PROVE  told \subseteq told'
<1>1. CASE ReadStep(w)
  BY <1>1 DEF ReadStep, GetTotal, GetDay, GetWeek, LoadStreak, LoadStreakError
<1>2. CASE Claim(w) \/ ClaimError(w) \/ SaveStreak(w)
  BY <1>2 DEF Claim, ClaimError, SaveStreak
<1>3. CASE ClaimQuests(w) \/ ClaimQuestsError(w) \/ ExpireDay(w) \/ ExpireWeek(w)
  BY <1>3 DEF ClaimQuests, ClaimQuestsError, ExpireDay, ExpireWeek
<1>4. CASE GroupStep(w)
  BY <1>4 DEF GroupStep, Poll, PollError, Commit, CommitError, Assign, Crash, Restart
<1>5. CASE EndStep(w)
  BY <1>5 DEF EndStep, SkipMalformed, FirstSeeRepeat, FirstSeeError, GetMaxError, Frame,
              FrameError
<1>6. CASE GetMax(w) \/ FirstSeeWins(w) \/ Exec(w) \/ ExecError(w)
  BY <1>6 DEF GetMax, FirstSeeWins, Exec, ExecError
<1> QED
  BY <1>1, <1>2, <1>3, <1>4, <1>5, <1>6, StepKinds

(* What a worker in the engine layer may do.                               *)
LEMMA ThinkingKinds ==
  ASSUME NEW w \in Workers, WorkerStep(w), Thinks(w)
  PROVE  \/ GetTotal(w) \/ GetDay(w) \/ GetWeek(w) \/ Claim(w) \/ ClaimError(w)
         \/ LoadStreak(w) \/ LoadStreakError(w) \/ SaveStreak(w)
         \/ ClaimQuests(w) \/ ClaimQuestsError(w) \/ ExpireDay(w) \/ ExpireWeek(w)
         \/ Frame(w) \/ FrameError(w) \/ Crash(w) \/ Assign(w)
<1> USE DEF Thinks, Engine, BeforeStreak, At
<1>1. ~GetMax(w) /\ ~FirstSeeWins(w) /\ ~Exec(w) /\ ~ExecError(w)
  BY DEF GetMax, FirstSeeWins, Exec, ExecError
<1>2. ~Poll(w) /\ ~PollError(w) /\ ~Commit(w) /\ ~CommitError(w) /\ ~Restart(w)
  BY DEF Poll, PollError, Commit, CommitError, Restart
<1>3. ~SkipMalformed(w) /\ ~FirstSeeRepeat(w) /\ ~FirstSeeError(w) /\ ~GetMaxError(w)
  BY DEF SkipMalformed, FirstSeeRepeat, FirstSeeError, GetMaxError
<1> QED
  BY <1>1, <1>2, <1>3, Zenon DEF WorkerStep, Consume, Misfortune

(* A worker that dies in the engine layer spoils the claims.               *)
LEMMA DeathSpoils ==
  ASSUME NEW w \in Workers, Thinks(w), Crash(w)
  PROVE  <<User(w), "claims">> \in torn'
<1>1. "claims" \in Unfinished(w)
  BY DEF Unfinished, Thinks
<1> QED
  BY <1>1 DEF Crash

(* A worker that carries an unlock goes on, publishes it or spoils it.     *)
LEMMA CarriedOn ==
  ASSUME Types, NEW w \in Workers, WorkerStep(w), NEW u, NEW id, Carries(w, u, id)
  PROVE  Settled(u, id)' \/ Carries(w, u, id)'
<1>1. /\ worker = [v \in Workers |-> worker[v]] /\ job = [v \in Workers |-> job[v]]
      /\ worker[w] \in WorkerState /\ IsJob(job[w]) /\ clicks' = clicks
  BY StepFrame DEF Types, BatchInLog, JobsTyped, Frame1
<1>2. /\ worker[w].pc \in Claimed /\ User(w) = u /\ <<u, id>> \in job[w].news /\ Thinks(w)
      /\ worker[w].pc \notin Reading
  BY DEF Carries, Claimed, Thinks
<1>3. ASSUME worker'[w].pc \in Claimed, worker'[w].idx = worker[w].idx,
             <<u, id>> \in job'[w].news
      PROVE  Carries(w, u, id)'
  <2>1. User(w)' = u
    BY <1>1, <1>2, <1>3 DEF User, Record
  <2> QED
    BY <1>3, <2>1 DEF Carries
<1> USE DEF Claimed, Engine, BeforeStreak, Reading, At
<1>4. CASE LoadStreak(w) \/ LoadStreakError(w) \/ SaveStreak(w) \/ ExpireDay(w) \/ ExpireWeek(w)
  <2>1. PICK pc \in Claimed : Goto(w, pc)
    BY <1>4 DEF LoadStreak, LoadStreakError, SaveStreak, ExpireDay, ExpireWeek
  <2>2. worker'[w].pc \in Claimed /\ worker'[w].idx = worker[w].idx
    BY <2>1, Moves DEF Types
  <2>3. job' = job \/ job' = [job EXCEPT ![w].st = streak[User(w)]]
    BY <1>4 DEF LoadStreak, LoadStreakError, SaveStreak, ExpireDay, ExpireWeek
  <2>4. job'[w].news = job[w].news
    BY <1>1, <2>3 DEF IsJob
  <2> QED
    BY <1>2, <1>3, <2>2, <2>4
<1>5. CASE ClaimQuests(w) \/ ClaimQuestsError(w)
  <2>1. Goto(w, "expday")
    BY <1>5 DEF ClaimQuests, ClaimQuestsError
  <2>2. worker'[w].pc \in Claimed /\ worker'[w].idx = worker[w].idx
    BY <2>1, Moves DEF Types
  <2>3. PICK new : job' = [job EXCEPT ![w].news = job[w].news \cup new]
    BY <1>5 DEF ClaimQuests, ClaimQuestsError, Grant
  <2>4. job'[w].news = job[w].news \cup new
    BY <1>1, <2>3 DEF IsJob
  <2> QED
    BY <1>2, <1>3, <2>2, <2>4
<1>6. CASE Frame(w)
  BY <1>2, <1>6 DEF Frame, Settled
<1>7. CASE FrameError(w)
  BY <1>2, <1>7 DEF FrameError, Settled, Spoiled, Tear
<1>8. CASE Crash(w)
  BY <1>2, <1>8, DeathSpoils DEF Settled, Spoiled
<1>9. CASE Assign(w)
  <2>1. worker' = [worker EXCEPT ![w].pos = committed] /\ job' = job
    BY <1>9 DEF Assign
  <2>2. worker'[w].pc = worker[w].pc /\ worker'[w].idx = worker[w].idx
    BY <1>1, <2>1 DEF WorkerState
  <2> QED
    BY <1>2, <1>3, <2>1, <2>2
<1>10. ~GetTotal(w) /\ ~GetDay(w) /\ ~GetWeek(w) /\ ~Claim(w) /\ ~ClaimError(w)
  BY <1>2 DEF GetTotal, GetDay, GetWeek, Claim, ClaimError
<1> QED
  BY <1>2, <1>4, <1>5, <1>6, <1>7, <1>8, <1>9, <1>10, ThinkingKinds

(* The step of Claim: what is new is in the worker's hands.                *)
LEMMA ClaimCarries ==
  ASSUME Types, NEW w \in Workers, Claim(w), NEW u, NEW id, <<u, id>> \in Earned(w) \ unlocks
  PROVE  Carries(w, u, id)'
<1>1. job = [v \in Workers |-> job[v]] /\ IsJob(job[w]) /\ clicks' = clicks
  BY DEF Types, JobsTyped, Claim
<1>2. worker'[w].pc = "load" /\ worker'[w].idx = worker[w].idx
  BY Moves DEF Claim, Types
<1>3. job' = [job EXCEPT ![w].news = Earned(w) \ unlocks]
  BY DEF Claim
<1>4. job'[w].news = Earned(w) \ unlocks
  BY <1>1, <1>3 DEF IsJob
<1>5. User(w) = u
  BY DEF Earned
<1>6. User(w)' = u
  BY <1>1, <1>2, <1>5 DEF User, Record
<1> QED
  BY <1>2, <1>4, <1>6 DEF Carries, Claimed, Engine, BeforeStreak, Reading

(* A worker that owes an unlock goes on, claims it or spoils it.           *)
LEMMA OwedOn ==
  ASSUME Types, NEW w \in Workers, WorkerStep(w), NEW u, NEW id \in DOMAIN Thresholds,
         Owes(w, u, id)
  PROVE  \/ Settled(u, id)' \/ Owes(w, u, id)' \/ Carries(w, u, id)'
         \/ <<u, id>> \in unlocks
<1>1. /\ worker = [v \in Workers |-> worker[v]] /\ job = [v \in Workers |-> job[v]]
      /\ worker[w] \in WorkerState /\ IsJob(job[w]) /\ clicks' = clicks
  BY StepFrame DEF Types, BatchInLog, JobsTyped, Frame1
<1>2. /\ worker[w].pc \in Reading /\ User(w) = u /\ Thinks(w)
      /\ Crosses(Sees(w), Record(w).count, Thresholds[id])
  BY DEF Owes, Reading, Thinks, Engine, BeforeStreak
<1>3. ASSUME worker'[w].pc \in Reading, worker'[w].idx = worker[w].idx,
             Sees(w)' = Sees(w)
      PROVE  Owes(w, u, id)'
  <2>1. User(w)' = u /\ Record(w)' = Record(w)
    BY <1>1, <1>2, <1>3 DEF User, Record
  <2> QED
    BY <1>2, <1>3, <2>1 DEF Owes
<1>4. CASE GetTotal(w)
  <2>1. worker'[w].pc = "day" /\ worker'[w].idx = worker[w].idx
    BY <1>4, Moves DEF GetTotal, Types
  <2>2. CASE job' = [job EXCEPT ![w].total = board[User(w)]]
    <3>1. job'[w].total = board[User(w)]
      BY <1>1, <2>2 DEF IsJob
    <3>2. Sees(w)' = Sees(w)
      BY <1>4, <2>1, <3>1 DEF Sees, At, GetTotal
    <3> QED
      BY <1>3, <2>1, <3>2 DEF Reading
  <2>3. CASE Tear(w, {"claims"})
    BY <1>2, <2>3 DEF Tear, Settled, Spoiled
  <2> QED
    BY <1>4, <2>2, <2>3 DEF GetTotal
<1>5. CASE GetDay(w) \/ GetWeek(w)
  <2>1. PICK pc \in {"week", "claims"} : Goto(w, pc)
    BY <1>5 DEF GetDay, GetWeek
  <2>2. worker'[w].pc = pc /\ worker'[w].idx = worker[w].idx
    BY <2>1, Moves DEF Types
  <2>3. PICK z : job' = [job EXCEPT ![w].sig = z]
    BY <1>5 DEF GetDay, GetWeek
  <2>4. job'[w].total = job[w].total
    BY <1>1, <2>3 DEF IsJob
  <2>5. ~At(w, "total") /\ ~At(w, "total")'
    BY <1>5, <2>2 DEF GetDay, GetWeek, At
  <2> QED
    BY <1>3, <2>2, <2>4, <2>5 DEF Sees, Reading
<1>6. CASE Claim(w)
  <2>1. Sees(w) = job[w].total
    BY <1>6 DEF Claim, At, Sees
  <2>2. id \in Evaluate(job[w].total, Record(w).count, Record(w).ts)
    BY <1>2, <2>1, Zenon DEF Evaluate
  <2>3. <<u, id>> \in Earned(w)
    BY <1>2, <2>2 DEF Earned
  <2> QED
    BY <1>6, <2>3, ClaimCarries
<1>7. CASE ClaimError(w)
  BY <1>2, <1>7 DEF ClaimError, Tear, Settled, Spoiled
<1>8. CASE Crash(w)
  BY <1>2, <1>8, DeathSpoils DEF Settled, Spoiled
<1>9. CASE Assign(w)
  <2>1. worker' = [worker EXCEPT ![w].pos = committed] /\ UNCHANGED <<redis, job>>
    BY <1>9 DEF Assign
  <2>2. worker'[w].pc = worker[w].pc /\ worker'[w].idx = worker[w].idx
    BY <1>1, <2>1 DEF WorkerState
  <2>3. User(w)' = User(w)
    BY <1>1, <2>2 DEF User, Record
  <2>4. Sees(w)' = Sees(w)
    BY <2>1, <2>2, <2>3 DEF Sees, At, redis, counts, tally
  <2> QED
    BY <1>2, <1>3, <2>2, <2>4
<1>10. /\ ~LoadStreak(w) /\ ~LoadStreakError(w) /\ ~SaveStreak(w) /\ ~ClaimQuests(w)
       /\ ~ClaimQuestsError(w) /\ ~ExpireDay(w) /\ ~ExpireWeek(w) /\ ~Frame(w) /\ ~FrameError(w)
  BY <1>2 DEF Reading, At, LoadStreak, LoadStreakError, SaveStreak, ClaimQuests, ClaimQuestsError,
              ExpireDay, ExpireWeek, Frame, FrameError
<1> QED
  BY <1>2, <1>4, <1>5, <1>6, <1>7, <1>8, <1>9, <1>10, ThinkingKinds

(* What the others carry they go on carrying, and what they owe, unless    *)
(* the total moves under their feet.                                       *)
LEMMA OthersOwe ==
  ASSUME Types, NEW w \in Workers, WorkerStep(w), NEW v \in Workers \ {w}, NEW u, NEW id
  PROVE  /\ Carries(v, u, id) => Carries(v, u, id)'
         /\ Owes(v, u, id) => Owes(v, u, id)' \/ Settled(u, id)'
<1>1. /\ worker'[v] = worker[v] /\ job'[v] = job[v]
      /\ Record(v)' = Record(v) /\ User(v)' = User(v)
  BY StepFrame, OthersStay
<1>2. Carries(v, u, id) => Carries(v, u, id)'
  BY <1>1 DEF Carries
<1>3. CASE board' = board
  BY <1>1, <1>2, <1>3 DEF Owes, Sees, At
<1>4. CASE CountStep(w) /\ At(v, "total") /\ User(v) = User(w)
  <2>1. "claims" \in Raced(w)
    BY <1>4 DEF Raced, Overlaps, At
  <2>2. <<User(w), "claims">> \in torn'
    BY <1>4, <2>1, CountShape
  <2> QED
    BY <1>2, <1>4, <2>2 DEF Owes, Settled, Spoiled
<1>5. CASE CountStep(w) /\ ~At(v, "total")
  BY <1>1, <1>2, <1>5 DEF Owes, Sees, At
<1>6. CASE CountStep(w) /\ At(v, "total") /\ User(v) # User(w)
  <2>1. User(v) \in Users /\ User(w) \in Users
    BY <1>6, EventTyped, CountShape DEF At, InApply, Engine, BeforeStreak, Types
  <2>2. board' = [board EXCEPT ![User(w)] = @ + Record(w).count]
    BY <1>6, CountShape DEF Transaction, Tally
  <2>3. board'[User(v)] = board[User(v)]
    BY <1>6, <2>1, <2>2 DEF Types, TypeOK
  <2> QED
    BY <1>1, <1>2, <2>3 DEF Owes, Sees, At
<1> QED
  BY <1>3, <1>4, <1>5, <1>6, StepCounts DEF counts, tally

(* A threshold that the transaction crossed is owed.                       *)
LEMMA CrossedOwed ==
  ASSUME Types, NEW w \in Workers, CountStep(w), clicks' = clicks,
         NEW u \in Users, NEW id \in DOMAIN Thresholds,
         Thresholds[id] <= board'[u], ~(Thresholds[id] <= board[u])
  PROVE  Settled(u, id)' \/ Owes(w, u, id)'
<1>1. PICK n \in Nat, v \in Users, t \in Nat \ {0} :
        n = Record(w).count /\ v = User(w) /\ t = Thresholds[id]
  BY EventTyped, CountShape, ThresholdIds DEF At, InApply, Types
<1>2. board' = [board EXCEPT ![v] = @ + n]
  BY <1>1, CountShape DEF Transaction, Tally
<1>3. u = v /\ board[u] \in Nat /\ board'[u] = board[u] + n
  <2>1. board \in [Users -> Nat]
    BY DEF Types, TypeOK
  <2> QED
    BY <1>2, <2>1
<1>4. CASE Exec(w) /\ At(w, "total")' /\ worker'[w].idx = worker[w].idx
  <2>1. User(w)' = u /\ Record(w)' = Record(w)
    BY <1>1, <1>3, <1>4 DEF User, Record
  <2>2. Crosses(board'[u], n, t)
    BY <1>1, <1>3 DEF Crosses
  <2>3. Sees(w)' = board'[u]
    BY <1>4, <2>1 DEF Sees
  <2> QED
    BY <1>1, <1>4, <2>1, <2>2, <2>3 DEF Owes, Reading, At
<1>5. CASE <<User(w), "claims">> \in torn'
  BY <1>1, <1>3, <1>5 DEF Settled, Spoiled
<1> QED
  BY <1>4, <1>5, CountShape

(* A step of a worker.                                                     *)
LEMMA WorkerTells ==
  ASSUME Types, ToldInv, NEW w \in Workers, WorkerStep(w)
  PROVE  ToldInv'
<1> SUFFICES ASSUME NEW u \in Users, NEW id \in DOMAIN Thresholds
             PROVE  /\ <<u, id>> \in unlocks' =>
                         Settled(u, id)' \/ \E v \in Workers : Carries(v, u, id)'
                    /\ Thresholds[id] <= board'[u] =>
                         \/ Settled(u, id)'
                         \/ \E v \in Workers : Carries(v, u, id)' \/ Owes(v, u, id)'
  BY DEF ToldInv
<1> DEFINE Carried == \E v \in Workers : Carries(v, u, id)
           Owed == \E v \in Workers : Carries(v, u, id) \/ Owes(v, u, id)
<1>1. torn \subseteq torn' /\ told \subseteq told' /\ clicks' = clicks
  BY StepFrame, ToldGrows DEF Frame1
<1>2. Settled(u, id) => Settled(u, id)'
  BY <1>1 DEF Settled, Spoiled
<1>3. Carried => Settled(u, id)' \/ \E v \in Workers : Carries(v, u, id)'
  BY CarriedOn, OthersOwe
<1>4. <<u, id>> \in unlocks => Settled(u, id)' \/ \E v \in Workers : Carries(v, u, id)'
  BY <1>2, <1>3 DEF ToldInv
<1>5. ASSUME <<u, id>> \in unlocks', <<u, id>> \notin unlocks
      PROVE  Settled(u, id)' \/ Carries(w, u, id)'
  <2>1. Claim(w) \/ ClaimError(w)
    BY <1>5, StepAwards
  <2>2. <<u, id>> \in Earned(w) \ unlocks
    BY <1>5, <2>1 DEF Claim, ClaimError
  <2>3. CASE ClaimError(w)
    <3>1. User(w) = u
      BY <2>2 DEF Earned
    <3> QED
      BY <2>3, <3>1 DEF ClaimError, Tear, Settled, Spoiled
  <2> QED
    BY <2>1, <2>2, <2>3, ClaimCarries
<1>6. Owed => \/ Settled(u, id)'
              \/ \E v \in Workers : Carries(v, u, id)' \/ Owes(v, u, id)'
  BY <1>3, <1>4, OwedOn, OthersOwe
<1>7. ASSUME Thresholds[id] <= board'[u], ~(Thresholds[id] <= board[u])
      PROVE  Settled(u, id)' \/ Owes(w, u, id)'
  <2>1. CountStep(w)
    BY <1>7, StepCounts DEF counts, tally
  <2> QED
    BY <1>1, <1>7, <2>1, CrossedOwed
<1> QED
  BY <1>2, <1>4, <1>5, <1>6, <1>7 DEF ToldInv

(* A step that changes nothing about thresholds.                           *)
LEMMA ToldIdle ==
  ASSUME ToldInv, UNCHANGED <<clicks, unlocks, board, worker, job, told, torn>>
  PROVE  ToldInv'
<1>1. \A w \in Workers : User(w)' = User(w) /\ Record(w)' = Record(w) /\ Sees(w)' = Sees(w)
  BY DEF User, Record, Sees, At
<1>2. \A w \in Workers : \A u, id :
          (Carries(w, u, id) => Carries(w, u, id)') /\ (Owes(w, u, id) => Owes(w, u, id)')
  BY <1>1 DEF Carries, Owes
<1>3. \A u, id : Settled(u, id) => Settled(u, id)'
  BY DEF Settled, Spoiled
<1>4. SUFFICES ASSUME NEW u \in Users, NEW id \in DOMAIN Thresholds
                 PROVE  /\ <<u, id>> \in unlocks =>
                             Settled(u, id)' \/ \E w \in Workers : Carries(w, u, id)'
                        /\ Thresholds[id] <= board[u] =>
                             \/ Settled(u, id)'
                             \/ \E w \in Workers : Carries(w, u, id)' \/ Owes(w, u, id)'
  BY DEF ToldInv
<1> QED
  BY <1>2, <1>3, Zenon DEF ToldInv

(* Every step keeps thresholds told.                                       *)
LEMMA StepTold == Types /\ ToldInv /\ [Next]_vars => ToldInv'
<1> SUFFICES ASSUME Types, ToldInv, [Next]_vars PROVE ToldInv'
  OBVIOUS
<1>1. CASE UNCHANGED vars
  BY <1>1, ToldIdle DEF vars, redis, counts, tally
<1>2. ASSUME NEW w \in Workers, WorkerStep(w) PROVE ToldInv'
  BY <1>2, WorkerTells
<1>3. ASSUME NEW u \in Users, NEW d \in Days, KeyExpires(u, d) PROVE ToldInv'
  BY <1>3, ToldIdle DEF KeyExpires, counts, tally
<1> QED
  BY <1>1, <1>2, <1>3 DEF Next, WorkerStep

(* At the start no threshold is reached.                                   *)
LEMMA InitTold == Init => ToldInv
<1> SUFFICES ASSUME Init PROVE ToldInv
  OBVIOUS
<1>1. \A id \in DOMAIN Thresholds : Thresholds[id] \in Nat \ {0}
  BY ThresholdIds
<1>2. unlocks = {} /\ \A u \in Users : board[u] = 0
  BY DEF Init
<1>3. \A u \in Users : \A id \in DOMAIN Thresholds : ~(Thresholds[id] <= board[u])
  BY <1>1, <1>2
<1> QED
  BY <1>2, <1>3 DEF ToldInv

(* Which is what the property asks.                                        *)
LEMMA NothingUntold == ToldInv => ThresholdTold
<1>1. \A w \in Workers : \A u, id : Carries(w, u, id) \/ Owes(w, u, id) =>
        worker[w].pc \in Engine /\ User(w) = u
  BY DEF Carries, Owes, Claimed, Reading, Engine, BeforeStreak
<1> QED
  BY <1>1, Zenon DEF ToldInv, ThresholdTold, Settled, Spoiled

(* achievements.go:99-102.  A threshold the user's total has reached was   *)
(* announced, or a worker is on the way to it, or a failure or an overlap  *)
(* came between: the rule that the one event which crosses it notices it   *)
(* misses none.                                                            *)
THEOREM ThresholdsAreTold == Spec => []ThresholdTold
<1>1. Types /\ ToldInv /\ [Next]_vars => (Types /\ ToldInv)'
  BY StepTypes, StepTold
<1> QED
  BY InitTypes, InitTold, NothingUntold, <1>1, PTL DEF Spec

-----------------------------------------------------------------------------
(* Streaks are complete.                                                   *)

(* The n days that end with d are all in D.                                *)
Run(D, d, n) == \A k \in 0 .. n - 1 : d - k \in D

(* st is as long as the days of D allow, and so is its best.               *)
Complete(D, st) ==
  /\ \A d \in D : d <= st.last /\ ~Run(D, d, st.best + 1)
  /\ st.last - st.count \notin D

(* A streak that ends on a day has that day.                               *)
Proper(st) == st.last # Never => st.count >= 1

(* w is on its way to the streak of u.                                     *)
Nears(w, u) == worker[w].pc \in BeforeStreak /\ User(w) = u

(* Its event is of the last day, the stored streak is complete but for it, *)
(* and what it has read of the streak is what is stored.                   *)
Ready(w, u) ==
  /\ \A d \in DaysOf(u) : d <= Today(w)
  /\ At(w, "streak") => job[w].st = streak[u]
  /\ Complete(IF streak[u].last = Today(w) THEN DaysOf(u) ELSE DaysOf(u) \ {Today(w)}, streak[u])

(* One worker at a time, and a complete streak when there is none.         *)
Whole(u) ==
  /\ \A w \in Workers : Nears(w, u) =>
       Ready(w, u) /\ \A v \in Workers : Nears(v, u) => v = w
  /\ (\A w \in Workers : ~Nears(w, u)) => Complete(DaysOf(u), streak[u])

CompleteInv ==
  /\ \A u \in Users : Proper(streak[u]) /\ (Spoiled(u, "streak") \/ Whole(u))
  /\ \A w \in Workers : Proper(job[w].st)

(* Dates are numbers.                                                      *)
LEMMA DaysTyped ==
  ASSUME Types
  PROVE  \A u : DaysOf(u) \subseteq Nat
<1> DEFINE Event == [ch : Nat \cup {Poison}, sub : Users, count : Nat, ts : Nat]
<1>1. clicks \in Seq(Event) /\ applied \subseteq DOMAIN clicks
  BY LogsTyped DEF Types, TypeOK
<1>2. \A o \in DOMAIN clicks : clicks[o] \in Event
  <2> HIDE DEF Event
  <2> QED
    BY <1>1
<1>3. \A t \in Nat : (t + 7 * 60) \div 1440 \in Nat
  OBVIOUS
<1>4. \A o \in DOMAIN clicks : DateHCM(clicks[o].ts) \in Nat
  BY <1>2, <1>3 DEF DateHCM, LocalMinute
<1> QED
  BY <1>1, <1>4 DEF DaysOf

(* A complete streak, advanced to a later day, is complete with it.        *)
LEMMA AdvanceCompletes ==
  ASSUME NEW D \in SUBSET Nat, NEW t \in D, \A d \in D : d <= t,
         NEW st \in Streak, Proper(st), st.last # t,
         Run(D, st.last, st.count), Complete(D \ {t}, st)
  PROVE  Complete(D, Advance(st, t))
<1> DEFINE n == IF st.last # Never /\ IsNextDay(st.last, t) THEN st.count + 1 ELSE 1
           b == IF n > st.best THEN n ELSE st.best
<1>1. Advance(st, t) = [count |-> n, best |-> b, last |-> t]
  BY DEF Advance
<1>2. /\ st.count \in Nat /\ st.best \in Nat /\ st.last \in Nat \cup {-1}
      /\ t \in Nat /\ n \in Nat /\ b \in Nat /\ b >= n /\ b >= st.best
  BY DEF Streak, Never
<1>3. st.last # Never => st.last \in D /\ st.last < t
  <2> SUFFICES ASSUME st.last # Never PROVE st.last \in D /\ st.last < t
    OBVIOUS
  <2>1. st.count >= 1 /\ st.last \in Nat
    BY <1>2 DEF Proper, Never
  <2>2. 0 \in 0 .. st.count - 1 /\ st.last - 0 = st.last
    BY <1>2, <2>1
  <2>3. st.last \in D
    BY <2>2 DEF Run
  <2> QED
    BY <1>2, <2>3
<1>4. \A d \in D \ {t} : d <= st.last /\ ~Run(D \ {t}, d, st.best + 1)
  BY DEF Complete
<1>5. t - n \notin D
  <2>1. CASE st.last # Never /\ IsNextDay(st.last, t)
    <3>1. n = st.count + 1 /\ t = st.last + 1 /\ st.last \in Nat
      BY <1>2, <2>1 DEF IsNextDay, Never
    <3>2. t - n = st.last - st.count /\ st.last - st.count # t
      BY <1>2, <3>1
    <3> QED
      BY <3>2 DEF Complete
  <2>2. CASE ~(st.last # Never /\ IsNextDay(st.last, t))
    <3>1. n = 1
      BY <2>2
    <3>2. ASSUME t - 1 \in D PROVE FALSE
      <4>1. t - 1 \in D \ {t} /\ t - 1 \in Nat
        BY <1>2, <3>2
      <4>2. t - 1 <= st.last
        BY <1>4, <4>1
      <4>3. st.last # Never
        BY <1>2, <4>1, <4>2 DEF Never
      <4>4. st.last < t /\ st.last \in Nat
        BY <1>2, <1>3, <4>3 DEF Never
      <4>5. t = st.last + 1
        BY <1>2, <4>2, <4>4
      <4> QED
        BY <2>2, <4>3, <4>5 DEF IsNextDay
    <3> QED
      BY <3>1, <3>2
  <2> QED
    BY <2>1, <2>2
<1> HIDE DEF n, b
<1>6. ASSUME NEW d \in D, Run(D, d, b + 1) PROVE FALSE
  <2>1. CASE d = t
    <3>1. n \in 0 .. (b + 1) - 1
      BY <1>2
    <3>2. d - n \in D
      BY <1>6, <3>1 DEF Run
    <3> QED
      BY <1>5, <2>1, <3>2
  <2>2. CASE d # t
    <3>1. d \in Nat /\ d < t
      BY <1>2, <2>2
    <3>2. ASSUME NEW k \in 0 .. (st.best + 1) - 1 PROVE d - k \in D \ {t}
      <4>1. k \in 0 .. (b + 1) - 1
        BY <1>2, <3>2
      <4>2. d - k \in D
        BY <1>6, <4>1 DEF Run
      <4>3. d - k # t
        BY <1>2, <3>1
      <4> QED
        BY <4>2, <4>3
    <3>3. Run(D \ {t}, d, st.best + 1)
      BY <3>2 DEF Run
    <3> QED
      BY <1>4, <2>2, <3>3
  <2> QED
    BY <2>1, <2>2
<1> QED
  BY <1>1, <1>5, <1>6 DEF Complete

(* What the days of a user become.                                         *)
LEMMA DaysCounted ==
  ASSUME Types, NEW w \in Workers, Transaction(w), clicks' = clicks, NEW u
  PROVE  DaysOf(u)' = IF u = User(w) THEN DaysOf(u) \cup {Today(w)} ELSE DaysOf(u)
<1>1. applied' = applied \cup {worker[w].idx}
  BY DEF Transaction
<1>2. DaysOf(u)' = {DateHCM(clicks[o].ts) : o \in {o \in applied \cup {worker[w].idx} :
                                                     clicks[o].sub = u}}
  BY <1>1 DEF DaysOf
<1> QED
  BY <1>2 DEF DaysOf, User, Today, Record

(* A worker on the way to the streak stays on it, stores it or spoils it.  *)
LEMMA NearsOn ==
  ASSUME Types, NEW w \in Workers, WorkerStep(w), worker[w].pc \in BeforeStreak
  PROVE  \/ SaveStreak(w)
         \/ <<User(w), "streak">> \in torn'
         \/ /\ worker'[w].pc \in BeforeStreak /\ worker'[w].idx = worker[w].idx
            /\ streak' = streak
            /\ At(w, "streak")' => \/ job'[w].st = streak[User(w)]
                                   \/ At(w, "streak") /\ job'[w].st = job[w].st
<1>1. /\ worker = [v \in Workers |-> worker[v]] /\ job = [v \in Workers |-> job[v]]
      /\ worker[w] \in WorkerState /\ IsJob(job[w])
  BY DEF Types, BatchInLog, JobsTyped
<1> USE DEF BeforeStreak, At
<1>2. Thinks(w)
  BY DEF Thinks, Engine
<1>3. CASE GetTotal(w) \/ GetDay(w) \/ GetWeek(w) \/ Claim(w) \/ ClaimError(w)
  <2>1. PICK pc \in {"day", "week", "claims", "load"} : Goto(w, pc)
    BY <1>3 DEF GetTotal, GetDay, GetWeek, Claim, ClaimError
  <2>2. worker'[w].pc = pc /\ worker'[w].idx = worker[w].idx
    BY <2>1, Moves DEF Types
  <2>3. streak' = streak
    BY <1>3 DEF GetTotal, GetDay, GetWeek, Claim, ClaimError, redis
  <2> QED
    BY <2>2, <2>3
<1>4. CASE LoadStreak(w)
  <2>1. worker'[w].pc = "streak" /\ worker'[w].idx = worker[w].idx
    BY <1>4, Moves DEF LoadStreak, Types
  <2>2. job' = [job EXCEPT ![w].st = streak[User(w)]] /\ streak' = streak
    BY <1>4 DEF LoadStreak, redis
  <2>3. job'[w].st = streak[User(w)]
    BY <1>1, <2>2 DEF IsJob
  <2> QED
    BY <2>1, <2>2, <2>3
<1>5. CASE LoadStreakError(w)
  BY <1>5 DEF LoadStreakError, Tear
<1>6. CASE Crash(w)
  <2>1. "streak" \in Unfinished(w)
    BY DEF Unfinished
  <2> QED
    BY <1>6, <2>1 DEF Crash
<1>7. CASE Assign(w)
  <2>1. worker' = [worker EXCEPT ![w].pos = committed] /\ UNCHANGED <<redis, job>>
    BY <1>7 DEF Assign
  <2>2. worker'[w].pc = worker[w].pc /\ worker'[w].idx = worker[w].idx
    BY <1>1, <2>1 DEF WorkerState
  <2> QED
    BY <2>1, <2>2 DEF redis
<1>8. /\ ~ClaimQuests(w) /\ ~ClaimQuestsError(w) /\ ~ExpireDay(w) /\ ~ExpireWeek(w)
      /\ ~Frame(w) /\ ~FrameError(w)
  BY DEF ClaimQuests, ClaimQuestsError, ExpireDay, ExpireWeek, Frame, FrameError
<1> QED
  BY <1>2, <1>3, <1>4, <1>5, <1>6, <1>7, <1>8, ThinkingKinds

(* Only a transaction brings a worker on the way to a streak.              *)
LEMMA NearsFrom ==
  ASSUME Types, NEW w \in Workers, WorkerStep(w), worker'[w].pc \in BeforeStreak
  PROVE  /\ worker[w].pc \in BeforeStreak \/ Exec(w)
         /\ worker'[w].idx = worker[w].idx
<1>1. Thinks(w)'
  BY DEF Thinks, Engine
<1>2. /\ Thinks(w) \/ Exec(w)
      /\ worker'[w].idx = worker[w].idx
  <2>1. CASE GetTotal(w) \/ GetDay(w) \/ GetWeek(w)
    <3>1. PICK pc : Goto(w, pc)
      BY <2>1 DEF GetTotal, GetDay, GetWeek
    <3>2. Thinks(w)
      BY <2>1 DEF GetTotal, GetDay, GetWeek, At, Thinks, Engine, BeforeStreak
    <3> QED
      BY <3>1, <3>2, Moves DEF Types
  <2>2. CASE KeepsReads(w)
    BY <1>1, <2>2 DEF KeepsReads
  <2> QED
    BY <1>1, <2>1, <2>2, ReadKinds DEF DropsReads
<1>3. CASE Thinks(w) /\ worker[w].pc \notin BeforeStreak
  <2>1. /\ worker = [v \in Workers |-> worker[v]] /\ worker[w] \in WorkerState
    BY DEF Types, BatchInLog
  <2>2. CASE ClaimQuests(w) \/ ClaimQuestsError(w) \/ ExpireDay(w) \/ ExpireWeek(w)
    <3>1. PICK pc \in {"expday", "expweek", "frame"} : Goto(w, pc)
      BY <2>2 DEF ClaimQuests, ClaimQuestsError, ExpireDay, ExpireWeek
    <3>2. worker'[w].pc = pc
      BY <3>1, Moves DEF Types
    <3> QED
      BY <3>2 DEF BeforeStreak
  <2>3. CASE Frame(w) \/ FrameError(w)
    <3>1. worker' = [worker EXCEPT ![w] = NextRecord(worker[w])]
      BY <2>3 DEF Frame, FrameError, Applied
    <3>2. NextRecord(worker[w]).pc \in {"apply", "commit"}
      BY <2>1 DEF NextRecord, WorkerState
    <3> QED
      BY <2>1, <3>1, <3>2 DEF BeforeStreak
  <2>4. CASE Crash(w)
    BY <2>1, <2>4 DEF Crash, Down, BeforeStreak
  <2>5. CASE Assign(w)
    <3>1. worker' = [worker EXCEPT ![w].pos = committed]
      BY <2>5 DEF Assign
    <3>2. worker'[w].pc = worker[w].pc
      BY <2>1, <3>1 DEF WorkerState
    <3> QED
      BY <1>3, <3>2
  <2>6. /\ ~GetTotal(w) /\ ~GetDay(w) /\ ~GetWeek(w) /\ ~Claim(w) /\ ~ClaimError(w)
        /\ ~LoadStreak(w) /\ ~LoadStreakError(w) /\ ~SaveStreak(w)
    BY <1>3 DEF BeforeStreak, At, GetTotal, GetDay, GetWeek, Claim, ClaimError, LoadStreak,
                LoadStreakError, SaveStreak
  <2> QED
    BY <1>3, <2>2, <2>3, <2>4, <2>5, <2>6, ThinkingKinds
<1> QED
  BY <1>2, <1>3

(* Where the streak a worker holds comes from.                             *)
LEMMA StreakFrom ==
  ASSUME Types, NEW w \in Workers, WorkerStep(w)
  PROVE  \/ job'[w].st = job[w].st \/ job'[w].st = NoStreak
         \/ LoadStreak(w) /\ job'[w].st = streak[User(w)]
<1>1. job = [v \in Workers |-> job[v]] /\ IsJob(job[w]) /\ NoJob.st = NoStreak
  BY DEF Types, JobsTyped, NoJob
<1>2. CASE job' = job \/ job' = [job EXCEPT ![w] = NoJob]
  BY <1>1, <1>2
<1>3. ASSUME NEW x, \/ job' = [job EXCEPT ![w].max = x] \/ job' = [job EXCEPT ![w].total = x]
                    \/ job' = [job EXCEPT ![w].sig = x] \/ job' = [job EXCEPT ![w].news = x]
      PROVE  job'[w].st = job[w].st
  BY <1>1, <1>3 DEF IsJob
<1>4. CASE GetTotal(w) \/ GetDay(w) \/ GetWeek(w) \/ GetMax(w)
  BY <1>2, <1>3, <1>4 DEF GetTotal, GetDay, GetWeek, GetMax
<1>5. CASE Claim(w) \/ ClaimError(w)
  BY <1>3, <1>5 DEF Claim, ClaimError
<1>6. CASE ClaimQuests(w) \/ ClaimQuestsError(w)
  BY <1>3, <1>6 DEF ClaimQuests, ClaimQuestsError, Grant
<1>7. CASE LoadStreak(w)
  <2>1. job' = [job EXCEPT ![w].st = streak[User(w)]]
    BY <1>7 DEF LoadStreak
  <2>2. job'[w].st = streak[User(w)]
    BY <1>1, <2>1 DEF IsJob
  <2> QED
    BY <1>7, <2>2
<1>8. CASE \/ LoadStreakError(w) \/ SaveStreak(w) \/ ExpireDay(w) \/ ExpireWeek(w)
           \/ Exec(w) \/ FirstSeeWins(w)
  BY <1>2, <1>8 DEF LoadStreakError, SaveStreak, ExpireDay, ExpireWeek, Exec, FirstSeeWins
<1>9. CASE GroupStep(w)
  BY <1>2, <1>9 DEF GroupStep, Poll, PollError, Commit, CommitError, Assign, Crash, Restart
<1>10. CASE EndStep(w) \/ ExecError(w)
  BY <1>2, <1>10 DEF EndStep, SkipMalformed, FirstSeeRepeat, FirstSeeError, GetMaxError, Frame,
                     FrameError, ExecError, Applied, Abandon
<1> QED
  BY <1>4, <1>5, <1>6, <1>7, <1>8, <1>9, <1>10, StepKinds DEF ReadStep

(* Every streak that ends on a day has it.                                 *)
LEMMA ProperKept ==
  ASSUME Types, CompleteInv, NEW w \in Workers, WorkerStep(w)
  PROVE  /\ \A u \in Users : Proper(streak'[u])
         /\ \A v \in Workers : Proper(job'[v].st)
<1>1. \A v \in Workers : v # w => job'[v] = job[v]
  BY StepFrame DEF Frame1
<1>2. /\ \A u \in Users : Proper(streak[u])
      /\ \A v \in Workers : Proper(job[v].st)
      /\ Proper(NoStreak)
  BY DEF CompleteInv, Proper, NoStreak
<1>3. Proper(job'[w].st)
  <2>1. LoadStreak(w) => User(w) \in Users
    BY EventTyped DEF LoadStreak, At, InApply, Engine, BeforeStreak, Types
  <2> QED
    BY <1>2, <2>1, StreakFrom
<1>4. ASSUME NEW u \in Users PROVE Proper(streak'[u])
  <2>1. CASE streak' = streak
    BY <1>2, <2>1
  <2>2. CASE SaveStreak(w) /\ streak' # streak
    <3>1. /\ User(w) \in Users /\ Today(w) \in Nat
      BY <2>2, RecordTyped DEF SaveStreak, At, InApply, Engine, BeforeStreak, Types
    <3>2. PICK t \in Nat, st \in Streak : t = Today(w) /\ st = job[w].st
      BY <3>1 DEF Types, JobsTyped, IsJob
    <3>3. st.last # t /\ streak' = [streak EXCEPT ![User(w)] = Advance(st, t)]
      BY <2>2, <3>2 DEF SaveStreak
    <3>4. Proper(Advance(st, t))
      BY <3>3 DEF Advance, Proper, Streak
    <3>5. streak \in [Users -> Streak]
      BY DEF Types, TypeOK
    <3> QED
      BY <1>2, <3>1, <3>3, <3>4, <3>5
  <2> QED
    BY <2>1, <2>2, StepAwards
<1> QED
  BY <1>1, <1>2, <1>3, <1>4

(* The transaction of an event: its worker is the only one on the way to   *)
(* the streak, and the stored one is complete but for today.               *)
LEMMA CountedKept ==
  ASSUME Types, StreakInv, CompleteInv, NEW w \in Workers, WorkerStep(w), CountStep(w),
         NEW u \in Users, u = User(w), ~Spoiled(u, "streak")'
  PROVE  Whole(u)'
<1>1. Frame1(w) /\ clicks' = clicks /\ streak' = streak
  BY StepFrame, CountShape DEF Frame1
<1>2. "streak" \notin Raced(w) /\ <<User(w), "streak">> \notin torn'
  BY CountShape DEF Spoiled
<1>3. Exec(w) /\ At(w, "total")' /\ worker'[w].idx = worker[w].idx
  BY <1>2, CountShape
<1>4. PICK t \in Nat, D \in SUBSET Nat, st \in Streak :
        t = Today(w) /\ D = DaysOf(u) /\ st = streak[u]
  <2>1. Today(w) \in Nat
    BY RecordTyped, CountShape DEF At, InApply, Types
  <2>2. streak[u] \in Streak
    BY DEF Types, TypeOK
  <2> QED
    BY <2>1, <2>2, DaysTyped
<1>5. /\ ~Overlaps(w, BeforeStreak)
      /\ \A o \in applied : ~(clicks[o].sub = User(w) /\ DateHCM(clicks[o].ts) > Today(w))
  BY <1>2, Zenon DEF Raced
<1>6. \A v \in Workers : ~Nears(v, u)
  <2>1. ~Nears(w, u)
    BY CountShape DEF At, Nears, BeforeStreak
  <2> QED
    BY <1>5, <2>1 DEF Overlaps, Nears
<1>7. \A d \in D : d <= t
  <2>1. \A o \in applied : clicks[o].sub = u => ~(DateHCM(clicks[o].ts) > t)
    BY <1>4, <1>5
  <2>2. \A d \in D : ~(d > t)
    BY <1>4, <2>1 DEF DaysOf
  <2> QED
    BY <1>4, <2>2
<1>8. Complete(D, st) /\ Proper(st) /\ Run(D, st.last, st.count)
  <2>1. ~Spoiled(u, "streak")
    BY <1>1 DEF Frame1, Spoiled
  <2>2. Complete(D, st) /\ Proper(st)
    BY <1>4, <1>6, <2>1 DEF CompleteInv, Whole
  <2>3. EarnedStreak(u, st)
    BY <1>4 DEF StreakInv, StreakEarned
  <2> QED
    BY <1>4, <2>2, <2>3 DEF EarnedStreak, RunOf, Run
<1>9. st.last # Never => st.last \in D
  <2> SUFFICES ASSUME st.last # Never PROVE st.last \in D
    OBVIOUS
  <2>1. st.count \in Nat /\ st.last \in Nat /\ st.count >= 1
    BY <1>8 DEF Proper, Streak, Never
  <2>2. 0 \in 0 .. st.count - 1 /\ st.last - 0 = st.last
    BY <2>1
  <2> QED
    BY <1>8, <2>2 DEF Run
<1>10. DaysOf(u)' = D \cup {t}
  BY <1>1, <1>4, DaysCounted, CountShape
<1>11. Complete(IF st.last = t THEN D \cup {t} ELSE (D \cup {t}) \ {t}, st)
  <2>1. CASE st.last = t
    <3>1. D \cup {t} = D
      BY <1>9, <2>1 DEF Never
    <3> QED
      BY <1>8, <2>1, <3>1
  <2>2. CASE st.last # t
    <3>1. ASSUME t \in D PROVE FALSE
      <4>1. t <= st.last
        BY <1>8, <3>1 DEF Complete
      <4>2. st.last \in Nat /\ st.last <= t
        BY <1>7, <1>9, <4>1 DEF Streak, Never
      <4> QED
        BY <2>2, <4>1, <4>2
    <3>2. (D \cup {t}) \ {t} = D
      BY <3>1
    <3> QED
      BY <1>8, <2>2, <3>2
  <2> QED
    BY <2>1, <2>2
<1>12. User(w)' = u /\ Today(w)' = t
  BY <1>1, <1>3, <1>4 DEF User, Today, Record
<1>13. Ready(w, u)'
  <2>1. ~At(w, "streak")'
    BY <1>3 DEF At
  <2>2. \A d \in D \cup {t} : d <= t
    BY <1>7
  <2> QED
    BY <1>1, <1>4, <1>10, <1>11, <1>12, <2>1, <2>2 DEF Ready
<1>14. Nears(w, u)'
  BY <1>3, <1>12 DEF Nears, At, BeforeStreak
<1>15. \A v \in Workers : v # w => ~Nears(v, u)'
  BY <1>1, <1>6, OthersStay DEF Nears
<1> QED
  BY <1>13, <1>14, <1>15 DEF Whole

(* The other steps of a worker that is on the way to the streak of u.      *)
LEMMA NearKept ==
  ASSUME Types, StreakInv, CompleteInv, NEW w \in Workers, WorkerStep(w),
         NEW u \in Users, Nears(w, u), DaysOf(u)' = DaysOf(u), ~Spoiled(u, "streak")'
  PROVE  Whole(u)'
<1>1. Frame1(w) /\ clicks' = clicks
  BY StepFrame DEF Frame1
<1>2. worker[w].pc \in BeforeStreak /\ User(w) = u
  BY DEF Nears
<1>3. Ready(w, u) /\ \A v \in Workers : Nears(v, u) => v = w
  BY <1>1 DEF CompleteInv, Whole, Spoiled, Frame1
<1>4. \A v \in Workers : v # w => ~Nears(v, u)'
  BY <1>1, <1>3, OthersStay DEF Nears
<1>5. CASE /\ worker'[w].pc \in BeforeStreak /\ worker'[w].idx = worker[w].idx
           /\ streak' = streak
           /\ At(w, "streak")' => \/ job'[w].st = streak[User(w)]
                                  \/ At(w, "streak") /\ job'[w].st = job[w].st
  <2>1. User(w)' = u /\ Today(w)' = Today(w)
    BY <1>1, <1>2, <1>5 DEF User, Today, Record
  <2>2. Ready(w, u)'
    BY <1>2, <1>3, <1>5, <2>1 DEF Ready
  <2>3. Nears(w, u)'
    BY <1>5, <2>1 DEF Nears
  <2> QED
    BY <1>4, <2>2, <2>3 DEF Whole
<1>6. CASE SaveStreak(w)
  <2>1. PICK t \in Nat, D \in SUBSET Nat, st \in Streak :
          t = Today(w) /\ D = DaysOf(u) /\ st = streak[u]
    <3>1. Today(w) \in Nat
      BY <1>2, RecordTyped DEF InApply, Engine, Types
    <3>2. streak[u] \in Streak
      BY DEF Types, TypeOK
    <3> QED
      BY <3>1, <3>2, DaysTyped
  <2>2. At(w, "streak") /\ job[w].st = st
    BY <1>3, <1>6, <2>1 DEF SaveStreak, Ready
  <2>3. /\ \A d \in D : d <= t
        /\ Complete(IF st.last = t THEN D ELSE D \ {t}, st)
    BY <1>3, <2>1 DEF Ready
  <2>4. /\ t \in D /\ Proper(st) /\ Run(D, st.last, st.count)
    <3>1. t \in D
      BY <1>2, <2>1 DEF StreakInv, Holds
    <3>2. EarnedStreak(u, st)
      BY <2>1 DEF StreakInv, StreakEarned
    <3>3. Proper(st)
      BY <2>1 DEF CompleteInv
    <3> QED
      BY <2>1, <3>1, <3>2, <3>3 DEF EarnedStreak, RunOf, Run
  <2>5. ~Nears(w, u)'
    <3>1. worker'[w].pc = "quests"
      BY <1>6, Moves DEF SaveStreak, Types
    <3> QED
      BY <3>1 DEF Nears, BeforeStreak
  <2>6. Complete(D, streak'[u])
    <3>1. CASE st.last = t
      <4>1. streak'[u] = st
        BY <1>6, <2>1, <2>2, <3>1 DEF SaveStreak
      <4> QED
        BY <2>3, <3>1, <4>1
    <3>2. CASE st.last # t
      <4>1. streak' = [streak EXCEPT ![u] = Advance(st, t)]
        BY <1>2, <1>6, <2>1, <2>2, <3>2 DEF SaveStreak, Tear, Spoiled
      <4>2. streak'[u] = Advance(st, t)
        BY <4>1 DEF Types, TypeOK
      <4> QED
        BY <2>3, <2>4, <3>2, <4>2, AdvanceCompletes
    <3> QED
      BY <3>1, <3>2
  <2> QED
    BY <1>4, <2>1, <2>5, <2>6 DEF Whole
<1> QED
  BY <1>2, <1>5, <1>6, NearsOn DEF Spoiled

(* And of a worker that is not.                                            *)
LEMMA FarKept ==
  ASSUME Types, CompleteInv, NEW w \in Workers, WorkerStep(w), NEW u \in Users, ~Nears(w, u),
         DaysOf(u)' = DaysOf(u), ~(CountStep(w) /\ u = User(w)), ~Spoiled(u, "streak")'
  PROVE  Whole(u)'
<1>1. Frame1(w) /\ clicks' = clicks
  BY StepFrame DEF Frame1
<1>2. Whole(u)
  BY <1>1 DEF CompleteInv, Spoiled, Frame1
<1>3. ~Nears(w, u)'
  <2> SUFFICES ASSUME Nears(w, u)' PROVE FALSE
    OBVIOUS
  <2>1. /\ worker[w].pc \in BeforeStreak \/ Exec(w)
        /\ worker'[w].idx = worker[w].idx
    BY NearsFrom DEF Nears
  <2>2. User(w) = u
    BY <1>1, <2>1 DEF Nears, User, Record
  <2> QED
    BY <2>1, <2>2 DEF Nears, CountStep
<1>4. streak'[u] = streak[u]
  <2>1. CASE streak' = streak
    BY <2>1
  <2>2. CASE SaveStreak(w)
    <3>1. User(w) # u
      BY <2>2 DEF Nears, SaveStreak, At, BeforeStreak
    <3> QED
      BY <2>2, <3>1 DEF SaveStreak, Types, TypeOK
  <2> QED
    BY <2>1, <2>2, StepAwards
<1>5. ASSUME NEW v \in Workers, v # w
      PROVE  (Nears(v, u)' => Nears(v, u)) /\ (Nears(v, u) => Nears(v, u)')
             /\ (Ready(v, u) => Ready(v, u)')
  <2>1. /\ worker'[v] = worker[v] /\ job'[v] = job[v] /\ User(v)' = User(v) /\ Today(v)' = Today(v)
    BY <1>1, <1>5, OthersStay
  <2> QED
    BY <1>4, <2>1 DEF Nears, Ready, At
<1>6. \A v \in Workers : Nears(v, u)' => Nears(v, u) /\ v # w /\ Ready(v, u)'
  BY <1>2, <1>3, <1>5 DEF Whole
<1>7. ASSUME \A v \in Workers : ~Nears(v, u)' PROVE Complete(DaysOf(u), streak[u])
  BY <1>2, <1>5, <1>7 DEF Whole
<1> QED
  BY <1>2, <1>4, <1>6, <1>7 DEF Whole

(* A step of a worker.                                                     *)
LEMMA WorkerCompletes ==
  ASSUME Types, StreakInv, CompleteInv, NEW w \in Workers, WorkerStep(w)
  PROVE  CompleteInv'
<1>1. ASSUME NEW u \in Users, ~Spoiled(u, "streak")' PROVE Whole(u)'
  <2>1. CASE CountStep(w) /\ u = User(w)
    BY <1>1, <2>1, CountedKept
  <2>2. CASE ~(CountStep(w) /\ u = User(w))
    <3>1. clicks' = clicks
      BY StepFrame DEF Frame1
    <3>2. DaysOf(u)' = DaysOf(u)
      <4>1. CASE UNCHANGED counts
        BY <3>1, <4>1 DEF counts, DaysOf
      <4>2. CASE CountStep(w)
        BY <2>2, <3>1, <4>2, DaysCounted, CountShape
      <4> QED
        BY <4>1, <4>2, StepCounts
    <3>3. CASE Nears(w, u)
      BY <1>1, <3>2, <3>3, NearKept
    <3>4. CASE ~Nears(w, u)
      BY <1>1, <2>2, <3>2, <3>4, FarKept
    <3> QED
      BY <3>3, <3>4
  <2> QED
    BY <2>1, <2>2
<1>2. /\ \A u \in Users : Proper(streak'[u])
      /\ \A v \in Workers : Proper(job'[v].st)
  BY ProperKept
<1> QED
  BY <1>1, <1>2 DEF CompleteInv, Proper

(* A step that changes nothing about streaks.                              *)
LEMMA CompleteIdle ==
  ASSUME CompleteInv, UNCHANGED <<clicks, applied, streak, worker, job, torn>>
  PROVE  CompleteInv'
<1>1. \A u : DaysOf(u)' = DaysOf(u)
  BY DEF DaysOf
<1>2. \A w \in Workers : User(w)' = User(w) /\ Today(w)' = Today(w)
  BY DEF User, Today, Record
<1>3. \A u \in Users : Whole(u) => Whole(u)'
  BY <1>1, <1>2 DEF Whole, Nears, Ready, At
<1> QED
  BY <1>3 DEF CompleteInv, Proper, Spoiled

(* Every step keeps streaks complete.                                      *)
LEMMA StepCompletes ==
  Types /\ StreakInv /\ CompleteInv /\ [Next]_vars => CompleteInv'
<1> SUFFICES ASSUME Types, StreakInv, CompleteInv, [Next]_vars PROVE CompleteInv'
  OBVIOUS
<1>1. CASE UNCHANGED vars
  BY <1>1, CompleteIdle DEF vars, redis, counts
<1>2. ASSUME NEW w \in Workers, WorkerStep(w) PROVE CompleteInv'
  BY <1>2, WorkerCompletes
<1>3. ASSUME NEW u \in Users, NEW d \in Days, KeyExpires(u, d) PROVE CompleteInv'
  BY <1>3, CompleteIdle DEF KeyExpires, counts
<1> QED
  BY <1>1, <1>2, <1>3 DEF Next, WorkerStep

(* At the start there are no days and no streaks.                          *)
LEMMA InitCompletes == Init => CompleteInv
<1> SUFFICES ASSUME Init PROVE CompleteInv
  OBVIOUS
<1>1. \A u : DaysOf(u) = {}
  BY DEF Init, DaysOf
<1>2. \A w \in Workers : \A u : ~Nears(w, u)
  BY DEF Init, Nears, Idle, BeforeStreak
<1>3. Proper(NoStreak) /\ Complete({}, NoStreak)
  BY DEF Proper, Complete, NoStreak
<1>4. (\A u \in Users : streak[u] = NoStreak) /\ \A w \in Workers : job[w].st = NoStreak
  BY DEF Init, NoJob
<1> QED
  BY <1>1, <1>2, <1>3, <1>4 DEF CompleteInv, Whole

(* Which is what the property asks.                                        *)
LEMMA NothingMissing == CompleteInv => StreakComplete
<1>1. \A u \in Users : Complete(DaysOf(u), streak[u]) =>
        /\ \A d \in DaysOf(u) : d <= streak[u].last /\ ~RunOf(u, d, streak[u].best + 1)
        /\ streak[u].last - streak[u].count \notin DaysOf(u)
  BY DEF Complete, Run, RunOf
<1> QED
  BY <1>1, Zenon DEF CompleteInv, Whole, Nears, StreakComplete, Spoiled

(* streak.go:14-21.  Nor is a streak too short, for any log and any        *)
(* workers: once the events of a user are through, it and its best are as  *)
(* long as the days allow, unless a failure, an overlap of owners or an    *)
(* event of an earlier day came between.                                   *)
THEOREM StreakIsComplete == Spec => []StreakComplete
<1>1. /\ Types /\ StreakInv /\ CompleteInv /\ [Next]_vars
           => (Types /\ StreakInv /\ CompleteInv)'
  <2>1. Types => BatchInLog
    BY DEF Types
  <2> QED
    BY <2>1, StepTypes, StepKeepsStreaks, StepCompletes
<1> QED
  BY InitTypes, InitStreaks, InitCompletes, NothingMissing, <1>1, PTL DEF Spec

-----------------------------------------------------------------------------
(* The players' reads change nothing.                                      *)

GroupInv ==
  /\ Types /\ OneWinner /\ SeenApplied /\ StreakInv /\ CompleteInv
  /\ MaxInv /\ RewardInv /\ QuestInv /\ ToldInv

(* A step of a call reads, and may use up a fault.                         *)
LEMMA PlayerShape ==
  ASSUME Player
  PROVE  UNCHANGED <<clicks, redis, group, worker, job, told, torn>>
<1>1. CASE GetPlayerState \/ GetLeaderboard \/ LeaderboardTick
  BY <1>1 DEF GetPlayerState, GetLeaderboard, LeaderboardTick, Begin
<1>2. CASE Return
  BY <1>2 DEF Return, vars
<1>3. CASE ReadTotal \/ ReadUnlocks \/ ReadDay \/ ReadWeek \/ ReadStreak
  BY <1>3 DEF ReadTotal, ReadUnlocks, ReadDay, ReadWeek, ReadStreak, Read
<1>4. CASE ReadTopAll \/ ReadTopWeek \/ ReadNames \/ ReadWeekNames \/ ReadRanks
  BY <1>4 DEF ReadTopAll, ReadTopWeek, ReadNames, ReadWeekNames, ReadRanks, Read
<1> QED
  BY <1>1, <1>2, <1>3, <1>4 DEF Player

(* Or a fault: it is counted.                                              *)
LEMMA PlayerFaults ==
  ASSUME Player, faults \in Nat
  PROVE  faults' \in Nat
<1>1. faults' = faults \/ faults' = faults + 1
  <2>1. CASE GetPlayerState \/ GetLeaderboard \/ LeaderboardTick
    BY <2>1 DEF GetPlayerState, GetLeaderboard, LeaderboardTick, Begin, Fault
  <2>2. CASE Return
    BY <2>2 DEF Return, vars
  <2>3. CASE ReadTotal \/ ReadUnlocks \/ ReadDay \/ ReadWeek \/ ReadStreak
    BY <2>3 DEF ReadTotal, ReadUnlocks, ReadDay, ReadWeek, ReadStreak, Read, Fault
  <2>4. CASE ReadTopAll \/ ReadTopWeek \/ ReadNames \/ ReadWeekNames \/ ReadRanks
    BY <2>4 DEF ReadTopAll, ReadTopWeek, ReadNames, ReadWeekNames, ReadRanks, Read, Fault
  <2> QED
    BY <2>1, <2>2, <2>3, <2>4 DEF Player
<1> QED
  BY <1>1

(* What the proofs of the group need holds at the start.                   *)
LEMMA ReadsInit == ReadInit => GroupInv
<1> SUFFICES ASSUME ReadInit PROVE GroupInv
  OBVIOUS
<1>1. Init
  BY DEF ReadInit
<1>2. Types /\ OneWinner /\ StreakInv /\ CompleteInv
  BY <1>1, InitTypes, InitGate, InitStreaks, InitCompletes
<1>3. MaxInv /\ RewardInv /\ ToldInv
  BY <1>1, InitMax, InitRewards, InitTold
<1>4. SeenApplied /\ QuestInv
  BY <1>1 DEF Init, SeenApplied, QuestInv, QuestOnce
<1> QED
  BY <1>2, <1>3, <1>4 DEF GroupInv

(* Nothing in it is about a call, or about how many faults there were.     *)
LEMMA QuietKeeps ==
  ASSUME GroupInv, UNCHANGED <<clicks, redis, group, worker, job, told, torn>>, faults' \in Nat
  PROVE  GroupInv'
<1>1. UNCHANGED <<seen, applied, board, week, daily, maxbatch, weekdays, names, unlocks, streak,
                  done, short, granted, again, committed, owner>>
  BY DEF redis, counts, tally, quests, group
<1>2. \A w \in Workers : User(w)' = User(w) /\ Today(w)' = Today(w) /\ Record(w)' = Record(w)
  BY DEF User, Today, Record
<1>3. Types'
  <2>1. BatchInLog'
    BY <1>1 DEF GroupInv, Types, BatchInLog, WorkerState
  <2>2. JobsTyped' /\ CountsTyped' /\ AwardsTyped'
    <3>1. JobsTyped /\ CountsTyped /\ AwardsTyped
      BY TypesParts DEF GroupInv
    <3> QED
      BY <1>1, <3>1 DEF JobsTyped, IsJob, CountsTyped, FiniteWeeks, AwardsTyped, DoneKeys
  <2>3. seen' \subseteq Nat /\ owner' \in Workers \cup {None} /\ torn' \subseteq Users \X Parts
    BY <1>1, TypesParts DEF GroupInv
  <2> QED
    BY <2>1, <2>2, <2>3 DEF Types, TypeOK, BatchInLog, CountsTyped, AwardsTyped, Parts,
         JobsTyped, IsJob
<1>4. OneWinner' /\ SeenApplied'
  BY <1>1 DEF GroupInv, OneWinner, SeenApplied, Gated, Record
<1>5. StreakInv'
  BY <1>1, IdleKeeps DEF GroupInv
<1>6. CompleteInv'
  BY <1>1, CompleteIdle DEF GroupInv
<1>7. MaxInv' /\ RewardInv'
  BY <1>1, MaxIdle, RewardsStay DEF GroupInv, redis
<1>8. QuestInv'
  BY <1>1, QuestsIdle DEF GroupInv
<1>9. ToldInv'
  BY <1>1, ToldIdle DEF GroupInv
<1> QED
  BY <1>3, <1>4, <1>5, <1>6, <1>7, <1>8, <1>9 DEF GroupInv

(* A call keeps it, for it only reads, and so does the group.              *)
LEMMA ReadsStep == GroupInv /\ [ReadNext]_<<vars, call>> => GroupInv'
<1> SUFFICES ASSUME GroupInv, [ReadNext]_<<vars, call>> PROVE GroupInv'
  OBVIOUS
<1>1. CASE Player
  <2>1. faults' \in Nat
    BY <1>1, PlayerFaults DEF GroupInv, Types, TypeOK
  <2> QED
    BY <1>1, <2>1, PlayerShape, QuietKeeps
<1>2. CASE [Next]_vars
  <2>1. Types' /\ MaxInv' /\ QuestInv' /\ ToldInv'
    BY <1>2, StepTypes, StepMax, StepQuests, StepTold DEF GroupInv
  <2>2. OneWinner' /\ SeenApplied' /\ StreakInv' /\ CompleteInv' /\ RewardInv'
    BY <1>2, <2>1, StepGate, StepSeen, StepKeepsStreaks, StepCompletes, StepRewards
       DEF GroupInv, Types
  <2> QED
    BY <2>1, <2>2 DEF GroupInv
<1> QED
  BY <1>1, <1>2 DEF ReadNext

(* Events are counted as Tally says while players look on.                 *)
THEOREM ReadsImplementTally == ReadSpec => TallySpec
<1>1. ReadInit => Abstract!Init
  BY InitImplements DEF ReadInit
<1>2. GroupInv /\ [ReadNext]_<<vars, call>> => [Abstract!Next]_(Abstract!vars)
  <2> SUFFICES ASSUME GroupInv, [ReadNext]_<<vars, call>>
               PROVE  [Abstract!Next]_(Abstract!vars)
    OBVIOUS
  <2>1. CASE Player
    BY <2>1, PlayerShape DEF redis, counts, tally, Abstract!vars, Abstract!views
  <2>2. CASE [Next]_vars
    BY <2>2, StepImplements DEF GroupInv, Types
  <2> QED
    BY <2>1, <2>2 DEF ReadNext
<1> QED
  BY ReadsInit, ReadsStep, <1>1, <1>2, PTL DEF ReadSpec, TallySpec, Abstract!Spec

(* And every promise of the group is kept.                                 *)
THEOREM ReadsKeepPromises ==
  ReadSpec => [](/\ TypeOK /\ SeenApplied /\ StreakEarned /\ StreakComplete
                 /\ MaxBatchIsMax /\ RewardsEarned /\ QuestOnce /\ ThresholdTold)
<1>1. GroupInv => /\ TypeOK /\ SeenApplied /\ StreakEarned /\ StreakComplete
                  /\ MaxBatchIsMax /\ RewardsEarned /\ QuestOnce /\ ThresholdTold
  BY LargestIsMax, DueIsEarned, NothingUntold, NothingMissing
     DEF GroupInv, Types, StreakInv, QuestInv
<1> QED
  BY ReadsInit, ReadsStep, <1>1, PTL DEF ReadSpec

-----------------------------------------------------------------------------
(* Ranks and lists.                                                        *)

(* Who is on a board can be counted, and two who are have two ranks.       *)
LEMMA RanksDiffer ==
  ASSUME NEW S \in SUBSET Nat, IsFiniteSet(S), NEW score \in [S -> Nat]
  PROVE  LET R == Ranked(score)
         IN  /\ IsFiniteSet(R)
             /\ \A u \in R : RankOf(score, u) \in 1 .. Cardinality(R)
             /\ \A u, v \in R : RankOf(score, u) = RankOf(score, v) => u = v
<1> DEFINE R == Ranked(score)
           Ahead(u) == {v \in R : Before(score, v, u)}
           n == Cardinality(R)
<1>1. R \in SUBSET S /\ \A u \in R : score[u] \in Nat /\ u \in Nat
  BY DEF Ranked
<1>2. IsFiniteSet(R) /\ n \in Nat
  BY <1>1, FS_Subset, FS_CardinalityType
<1>3. \A u \in R : RankOf(score, u) = 1 + Cardinality(Ahead(u))
  BY DEF RankOf
<1>4. ASSUME NEW u \in R
      PROVE  /\ IsFiniteSet(Ahead(u)) /\ Cardinality(Ahead(u)) \in Nat
             /\ Cardinality(Ahead(u)) < n
  <2>1. u \notin Ahead(u)
    BY <1>1 DEF Before
  <2>2. IsFiniteSet(R \ {u}) /\ Cardinality(R \ {u}) = n - 1
    BY <1>2, FS_RemoveElement
  <2>3. Ahead(u) \in SUBSET (R \ {u})
    BY <2>1
  <2> HIDE DEF Ahead, R
  <2>4. IsFiniteSet(Ahead(u)) /\ Cardinality(Ahead(u)) <= Cardinality(R \ {u})
    BY <2>2, <2>3, FS_Subset
  <2>5. Cardinality(Ahead(u)) \in Nat
    BY <2>4, FS_CardinalityType
  <2> QED
    BY <1>2, <2>2, <2>4, <2>5
<1>5. ASSUME NEW u \in R, NEW v \in R, Before(score, u, v)
      PROVE  Cardinality(Ahead(u)) < Cardinality(Ahead(v))
  <2>1. Ahead(u) \subseteq Ahead(v)
    BY <1>1, <1>5 DEF Before
  <2>2. u \in Ahead(v) /\ u \notin Ahead(u)
    BY <1>1, <1>5 DEF Before
  <2> HIDE DEF Ahead, R
  <2>3. /\ Cardinality(Ahead(u)) <= Cardinality(Ahead(v))
        /\ Cardinality(Ahead(v)) # Cardinality(Ahead(u))
    BY <1>4, <2>1, <2>2, FS_Subset
  <2>4. Cardinality(Ahead(u)) \in Nat /\ Cardinality(Ahead(v)) \in Nat
    BY <1>4
  <2> QED
    BY <2>3, <2>4
<1>6. \A u, v \in R : u # v => Before(score, u, v) \/ Before(score, v, u)
  BY <1>1 DEF Before
<1>7. \A u \in R : RankOf(score, u) \in 1 .. n
  <2> HIDE DEF Ahead, R, n
  <2> QED
    BY <1>2, <1>3, <1>4
<1>8. ASSUME NEW u \in R, NEW v \in R, RankOf(score, u) = RankOf(score, v) PROVE u = v
  <2> HIDE DEF Ahead, R, n
  <2>1. Cardinality(Ahead(u)) = Cardinality(Ahead(v)) /\ Cardinality(Ahead(u)) \in Nat
    BY <1>3, <1>4, <1>8
  <2>2. ~Before(score, u, v) /\ ~Before(score, v, u)
    BY <1>5, <2>1
  <2> QED
    BY <1>6, <2>2
<1> QED
  BY <1>2, <1>7, <1>8

(* Every place of a list has a user, with the score of the board.          *)
LEMMA RowsOfBoard ==
  ASSUME NEW S \in SUBSET Nat, IsFiniteSet(S), NEW score \in [S -> Nat], NEW n \in Nat,
         NEW i \in DOMAIN TopN(score, n)
  PROVE  /\ TopN(score, n)[i].sub \in S
         /\ TopN(score, n)[i].clicks = score[TopN(score, n)[i].sub]
         /\ score[TopN(score, n)[i].sub] > 0
<1> DEFINE R == Ranked(score)
           c == Cardinality(R)
           f == [u \in R |-> RankOf(score, u)]
           top == CHOOSE u \in R : RankOf(score, u) = i
<1>1. IsFiniteSet(R) /\ c \in Nat
  BY RanksDiffer, FS_CardinalityType
<1>2. f \in Injection(R, 1 .. c)
  BY RanksDiffer DEF Injection, IsInjective
<1>3. IsFiniteSet(1 .. c) /\ Cardinality(1 .. c) = c
  BY <1>1, FS_Interval
<1>4. f \in Surjection(R, 1 .. c)
  <2> HIDE DEF f, c, R
  <2> QED
    BY <1>1, <1>2, <1>3, FS_Injection DEF c
<1>5. \A k \in 1 .. c : \E u \in R : RankOf(score, u) = k
  BY <1>4 DEF Surjection
<1>6. i \in 1 .. c
  BY <1>1 DEF TopN, Smaller
<1>7. top \in R
  BY <1>5, <1>6
<1>8. TopN(score, n)[i] = [sub |-> top, clicks |-> score[top]]
  BY DEF TopN
<1>9. top \in S /\ score[top] > 0
  BY <1>7 DEF Ranked
<1> HIDE DEF top
<1> QED
  BY <1>8, <1>9

(* Nobody on a board is without a rank.                                    *)
LEMMA RankedHaveRank ==
  ASSUME NEW S \in SUBSET Nat, IsFiniteSet(S), NEW score \in [S -> Nat], NEW u \in S, score[u] > 0
  PROVE  RankOf(score, u) > 0
<1>1. u \in Ranked(score)
  BY DEF Ranked
<1>2. RankOf(score, u) \in 1 .. Cardinality(Ranked(score)) /\ IsFiniteSet(Ranked(score))
  BY <1>1, RanksDiffer
<1>3. Cardinality(Ranked(score)) \in Nat
  BY <1>2, FS_CardinalityType
<1> QED
  BY <1>2, <1>3

-----------------------------------------------------------------------------
(* The answers fit together.                                               *)

(* What a day adds is in its week too, and everybody on a board has a      *)
(* name.                                                                   *)
Boards ==
  \A u \in Users :
    /\ \A d \in Days : daily[u][d].clicks <= week[u][WeekStart(d)]
    /\ board[u] > 0 => u \in names
    /\ \A k \in Weeks : week[u][k] > 0 => u \in names

(* What is in no week but k only grows, and names stay.                    *)
Onward ==
  /\ names \subseteq names' /\ torn \subseteq torn'
  /\ \A u \in Users : \A k \in Weeks : board[u] + week'[u][k] <= board'[u] + week[u][k]

(* A step that counts nothing.                                             *)
LEMMA BoardsIdle ==
  ASSUME Types, Boards, UNCHANGED counts, torn \subseteq torn'
  PROVE  Boards' /\ Grown /\ Onward
<1>1. Grown
  BY NothingFalls
<1>2. board \in [Users -> Nat] /\ week \in [Users -> [Weeks -> Nat]]
  BY DEF Types, TypeOK
<1>3. Onward
  BY <1>2 DEF Onward, counts, tally
<1> QED
  BY <1>1, <1>3 DEF Boards, counts, tally

(* A transaction raises the day, its week and the board by the same.       *)
LEMMA BoardsCount ==
  ASSUME Types, Boards, NEW w \in Workers, CountStep(w), torn \subseteq torn'
  PROVE  Boards' /\ Onward
<1>1. PICK u \in Users, d \in Days, n \in Nat :
        u = User(w) /\ d = Today(w) /\ n = Record(w).count
  BY EventTyped, CountShape DEF At, InApply, Types
<1>2. PICK k \in Weeks : k = WeekStart(d)
  BY DEF Weeks
<1>3. /\ board' = [board EXCEPT ![u] = @ + n]
      /\ week' = [week EXCEPT ![u][k] = @ + n]
      /\ daily' = [daily EXCEPT ![u][d] = [clicks |-> @.clicks + n, batches |-> @.batches + 1]]
      /\ names' = names \cup {u}
  BY <1>1, <1>2, CountShape DEF Transaction, Tally
<1>4. /\ board \in [Users -> Nat]
      /\ week \in [Users -> [Weeks -> Nat]]
      /\ daily \in [Users -> [Days -> [clicks : Nat, batches : Nat]]]
  BY DEF Types, TypeOK
<1>5. \A v \in Users : \A e \in Days :
         daily'[v][e].clicks = IF v = u /\ e = d THEN daily[v][e].clicks + n ELSE daily[v][e].clicks
  BY <1>3, <1>4
<1>6. \A v \in Users : \A m \in Weeks :
         week'[v][m] = IF v = u /\ m = k THEN week[v][m] + n ELSE week[v][m]
  BY <1>3, <1>4
<1>7. \A v \in Users : board'[v] = IF v = u THEN board[v] + n ELSE board[v]
  BY <1>3, <1>4
<1>8. Onward
  BY <1>3, <1>4, <1>6, <1>7 DEF Onward
<1>9. ASSUME NEW v \in Users, NEW e \in Days PROVE daily'[v][e].clicks <= week'[v][WeekStart(e)]
  <2>1. PICK m \in Weeks : m = WeekStart(e)
    BY DEF Weeks
  <2>2. daily[v][e].clicks <= week[v][m] /\ daily[v][e].clicks \in Nat /\ week[v][m] \in Nat
    BY <1>4, <2>1 DEF Boards
  <2> QED
    BY <1>2, <1>5, <1>6, <2>1, <2>2
<1>10. \A v \in Users : v # u => (board'[v] > 0 => v \in names')
                              /\ \A m \in Weeks : week'[v][m] > 0 => v \in names'
  BY <1>3, <1>6, <1>7 DEF Boards
<1> QED
  BY <1>3, <1>8, <1>9, <1>10 DEF Boards

(* No step of the group makes a board, or a promise about one, fall back.  *)
LEMMA GroupGrows ==
  ASSUME Types, MaxInv, Boards, [Next]_vars
  PROVE  Boards' /\ Grown /\ Onward
<1>1. CASE UNCHANGED vars
  BY <1>1, BoardsIdle DEF vars, redis
<1>2. ASSUME NEW w \in Workers, WorkerStep(w) PROVE Boards' /\ Grown /\ Onward
  <2>1. torn \subseteq torn'
    BY <1>2, StepFrame DEF Frame1
  <2>2. Grown
    BY <1>2, CountersGrow
  <2> QED
    BY <1>2, <2>1, <2>2, StepCounts, BoardsIdle, BoardsCount
<1>3. ASSUME NEW u \in Users, NEW d \in Days, KeyExpires(u, d) PROVE Boards' /\ Grown /\ Onward
  BY <1>3, BoardsIdle DEF KeyExpires
<1> QED
  BY <1>1, <1>2, <1>3 DEF Next, WorkerStep

-----------------------------------------------------------------------------
(* The calls.                                                              *)

(* A call with the fields of one.                                          *)
IsCall(c) ==
  c = [kind |-> c.kind, pc |-> c.pc, sub |-> c.sub, date |-> c.date, total |-> c.total,
       unlocks |-> c.unlocks, sig |-> c.sig, st |-> c.st, all |-> c.all, week |-> c.week,
       named |-> c.named, rank |-> c.rank, before |-> c.before, blind |-> c.blind]

(* A write to one of its fields.                                           *)
LEMMA CallField ==
  ASSUME NEW c, IsCall(c), NEW x
  PROVE  /\ [c EXCEPT !.total = x] =
             [kind |-> c.kind, pc |-> c.pc, sub |-> c.sub, date |-> c.date,
              total |-> x, unlocks |-> c.unlocks, sig |-> c.sig, st |-> c.st,
              all |-> c.all, week |-> c.week, named |-> c.named,
              rank |-> c.rank, before |-> c.before, blind |-> c.blind]
         /\ [c EXCEPT !.unlocks = x] =
             [kind |-> c.kind, pc |-> c.pc, sub |-> c.sub, date |-> c.date,
              total |-> c.total, unlocks |-> x, sig |-> c.sig, st |-> c.st,
              all |-> c.all, week |-> c.week, named |-> c.named,
              rank |-> c.rank, before |-> c.before, blind |-> c.blind]
         /\ [c EXCEPT !.sig = x] =
             [kind |-> c.kind, pc |-> c.pc, sub |-> c.sub, date |-> c.date,
              total |-> c.total, unlocks |-> c.unlocks, sig |-> x, st |-> c.st,
              all |-> c.all, week |-> c.week, named |-> c.named,
              rank |-> c.rank, before |-> c.before, blind |-> c.blind]
         /\ [c EXCEPT !.st = x] =
             [kind |-> c.kind, pc |-> c.pc, sub |-> c.sub, date |-> c.date,
              total |-> c.total, unlocks |-> c.unlocks, sig |-> c.sig, st |-> x,
              all |-> c.all, week |-> c.week, named |-> c.named,
              rank |-> c.rank, before |-> c.before, blind |-> c.blind]
         /\ [c EXCEPT !.all = x] =
             [kind |-> c.kind, pc |-> c.pc, sub |-> c.sub, date |-> c.date,
              total |-> c.total, unlocks |-> c.unlocks, sig |-> c.sig,
              st |-> c.st, all |-> x, week |-> c.week, named |-> c.named,
              rank |-> c.rank, before |-> c.before, blind |-> c.blind]
         /\ [c EXCEPT !.week = x] =
             [kind |-> c.kind, pc |-> c.pc, sub |-> c.sub, date |-> c.date,
              total |-> c.total, unlocks |-> c.unlocks, sig |-> c.sig,
              st |-> c.st, all |-> c.all, week |-> x, named |-> c.named,
              rank |-> c.rank, before |-> c.before, blind |-> c.blind]
         /\ [c EXCEPT !.named = x] =
             [kind |-> c.kind, pc |-> c.pc, sub |-> c.sub, date |-> c.date,
              total |-> c.total, unlocks |-> c.unlocks, sig |-> c.sig,
              st |-> c.st, all |-> c.all, week |-> c.week, named |-> x,
              rank |-> c.rank, before |-> c.before, blind |-> c.blind]
         /\ [c EXCEPT !.rank = x] =
             [kind |-> c.kind, pc |-> c.pc, sub |-> c.sub, date |-> c.date,
              total |-> c.total, unlocks |-> c.unlocks, sig |-> c.sig,
              st |-> c.st, all |-> c.all, week |-> c.week, named |-> c.named,
              rank |-> x, before |-> c.before, blind |-> c.blind]
BY DEF IsCall

(* A read has its answer, or fails; either way the call goes on.           *)
LEMMA ReadEnds ==
  ASSUME IsCall(call), NEW pc, NEW c, IsCall(c), Read(pc, c)
  PROVE  /\ call.pc = pc
         /\ \/ call' =
             [kind |-> c.kind, pc |-> Then(call), sub |-> c.sub,
              date |-> c.date, total |-> c.total, unlocks |-> c.unlocks,
              sig |-> c.sig, st |-> c.st, all |-> c.all, week |-> c.week,
              named |-> c.named, rank |-> c.rank, before |-> c.before,
              blind |-> c.blind]
            \/ call' =
             [kind |-> call.kind, pc |-> Then(call), sub |-> call.sub,
              date |-> call.date, total |-> call.total,
              unlocks |-> call.unlocks, sig |-> call.sig, st |-> call.st,
              all |-> call.all, week |-> call.week, named |-> call.named,
              rank |-> call.rank, before |-> call.before, blind |-> TRUE]
BY DEF IsCall, Read

(* Where a call goes on.                                                   *)
LEMMA NextRead ==
  ASSUME NEW c
  PROVE  /\ c.kind = "state" =>
              /\ c.pc = "total" => Then(c) = "unlocks"
              /\ c.pc = "unlocks" => Then(c) = "day"
              /\ c.pc = "day" => Then(c) = "week"
              /\ c.pc = "week" => Then(c) = "streak"
              /\ c.pc = "streak" => Then(c) = "done"
         /\ c.kind \in {"board", "tick"} =>
              /\ c.pc = "topall" => Then(c) = "names"
              /\ c.pc = "names" => Then(c) = "topweek"
              /\ c.pc = "topweek" => Then(c) = "weeknames"
         /\ c.kind = "board" => /\ c.pc = "weeknames" => Then(c) = "ranks"
                                /\ c.pc = "ranks" => Then(c) = "done"
         /\ c.kind = "tick" /\ c.pc = "weeknames" => Then(c) = "done"
<1>1. CASE c.kind = "state"
  <2> DEFINE s == << "total", "unlocks", "day", "week", "streak", "done" >>
  <2>1. Reads(c.kind) = s /\ DOMAIN s = 1 .. 6
    BY <1>1 DEF Reads
  <2>2. ASSUME NEW k \in 1 .. 5, c.pc = s[k] PROVE Then(c) = s[k + 1]
    <3>1. \A i, j \in 1 .. 6 : i = j + 1 /\ s[j] = c.pc <=> j = k /\ i = k + 1
      BY <2>2
    <3>2. (CHOOSE i \in DOMAIN s : \E j \in DOMAIN s : i = j + 1 /\ s[j] = c.pc) = k + 1
      BY <2>1, <3>1
    <3> QED
      BY <2>1, <3>2 DEF Then
  <2> QED
    BY <1>1, <2>2
<1>2. CASE c.kind = "board"
  <2> DEFINE s == << "topall", "names", "topweek", "weeknames", "ranks", "done" >>
  <2>1. Reads(c.kind) = s /\ DOMAIN s = 1 .. 6
    BY <1>2 DEF Reads
  <2>2. ASSUME NEW k \in 1 .. 5, c.pc = s[k] PROVE Then(c) = s[k + 1]
    <3>1. \A i, j \in 1 .. 6 : i = j + 1 /\ s[j] = c.pc <=> j = k /\ i = k + 1
      BY <2>2
    <3>2. (CHOOSE i \in DOMAIN s : \E j \in DOMAIN s : i = j + 1 /\ s[j] = c.pc) = k + 1
      BY <2>1, <3>1
    <3> QED
      BY <2>1, <3>2 DEF Then
  <2> QED
    BY <1>2, <2>2
<1>3. CASE c.kind = "tick"
  <2> DEFINE s == << "topall", "names", "topweek", "weeknames", "done" >>
  <2>1. Reads(c.kind) = s /\ DOMAIN s = 1 .. 5
    BY <1>3 DEF Reads
  <2>2. ASSUME NEW k \in 1 .. 4, c.pc = s[k] PROVE Then(c) = s[k + 1]
    <3>1. \A i, j \in 1 .. 5 : i = j + 1 /\ s[j] = c.pc <=> j = k /\ i = k + 1
      BY <2>2
    <3>2. (CHOOSE i \in DOMAIN s : \E j \in DOMAIN s : i = j + 1 /\ s[j] = c.pc) = k + 1
      BY <2>1, <3>1
    <3> QED
      BY <2>1, <3>2 DEF Then
  <2> QED
    BY <1>3, <2>2
<1> QED
  BY <1>1, <1>2, <1>3

(* Where the call in progress may be.                                      *)
CallShape ==
  /\ IsCall(call)
  /\ call = NoCall \/
       /\ call.kind \in {"state", "board", "tick"} /\ call.date \in Days
       /\ call.kind # "tick" => call.sub \in Users
       /\ call.kind = "state" =>
            call.pc \in {"total", "unlocks", "day", "week", "streak", "done"}
       /\ call.kind = "board" =>
            call.pc \in {"topall", "names", "topweek", "weeknames", "ranks", "done"}
       /\ call.kind = "tick" =>
            call.pc \in {"topall", "names", "topweek", "weeknames", "done"}

(* Nothing reads where no call is.                                         *)
LEMMA ReadCalls ==
  ASSUME CallShape, NEW pc, pc # "done", NEW c, Read(pc, c)
  PROVE  call # NoCall
BY DEF Read, NoCall

(* A read of some field leads from a call to a call.                       *)
LEMMA ReadShape ==
  ASSUME CallShape, NEW pc, pc # "done", NEW c, IsCall(c), Read(pc, c),
         c.kind = call.kind, c.sub = call.sub, c.date = call.date
  PROVE  /\ CallShape' /\ call # NoCall /\ call' # NoCall
         /\ call.pc = pc /\ call'.pc = Then(call)
         /\ call'.kind = call.kind /\ call'.sub = call.sub /\ call'.date = call.date
         /\ \/ call'.blind
            \/ /\ call'.blind = c.blind /\ call'.before = c.before /\ call'.sig = c.sig
               /\ call'.all = c.all /\ call'.week = c.week /\ call'.named = c.named
               /\ call'.rank = c.rank
<1>1. call # NoCall
  BY ReadCalls
<1>2. /\ call.pc = pc /\ IsCall(call') /\ call'.pc = Then(call)
      /\ call'.kind = call.kind /\ call'.sub = call.sub /\ call'.date = call.date
      /\ \/ call'.blind
         \/ /\ call'.blind = c.blind /\ call'.before = c.before /\ call'.sig = c.sig
            /\ call'.all = c.all /\ call'.week = c.week /\ call'.named = c.named
            /\ call'.rank = c.rank
  BY ReadEnds DEF CallShape, IsCall
<1>3. call'.kind \in {"state", "board", "tick"}
  BY <1>1, <1>2 DEF CallShape
<1>4. call' # NoCall
  BY <1>3 DEF NoCall
<1>5. CallShape'
  BY <1>1, <1>2, NextRead DEF CallShape
<1> QED
  BY <1>1, <1>2, <1>4, <1>5

-----------------------------------------------------------------------------
(* What an answer has so far.                                              *)

Rows(list) == {list[i] : i \in DOMAIN list}

(* A quest of the day is as done as it was, and so is one of the week.     *)
DayKept(x) ==
  /\ x[2] = call.date => \A q \in DailyQuests(call.date) : x[3] = q.id =>
       \/ q.metric = "clicks" /\ q.target <= call.sig.clicks
       \/ q.metric = "batches" /\ q.target <= call.sig.batches
       \/ /\ q.metric = "maxbatch"
          /\ q.target <= call.sig.maxbatch \/ Spoiled(x[1], "maxbatch")
  /\ x[2] = Week(call) => \A q \in WeeklyQuests(Week(call)) :
       x[3] = q.id /\ q.metric = "days" => q.target <= call.sig.days

WeekKept(x) ==
  x[2] = Week(call) => \A q \in WeeklyQuests(Week(call)) :
    x[3] = q.id /\ q.metric = "week" => q.target <= call.sig.week

(* GetPlayerState: the day's counters were at most those of the week that  *)
(* is read next.                                                           *)
StateFits ==
  /\ call.all = << >> /\ call.week = << >> /\ call.sig \in Signal
  /\ \A x \in call.before : x[1] = call.sub /\ Due(x)
  /\ call.pc \in {"week", "streak", "done"} => \A x \in call.before : DayKept(x)
  /\ call.pc = "week" => call.sig.clicks <= daily[call.sub][call.date].clicks
  /\ call.pc \in {"streak", "done"} =>
       call.sig.clicks <= call.sig.week /\ \A x \in call.before : WeekKept(x)

(* The two lists: the rows of the first are not ahead of the board; once   *)
(* the second is there, not of its rows and what is in no week but this.   *)
AllFits ==
  \A r \in Rows(call.all) :
    r.sub \in Users /\ r.clicks \in Nat /\ r.clicks <= board[r.sub] /\ r.sub \in names

WeekFits ==
  \A s \in Rows(call.week) :
    /\ s.sub \in Users /\ s.clicks \in Nat /\ s.sub \in names
    /\ 0 < week[s.sub][Week(call)]
    /\ \A r \in Rows(call.all) :
         r.sub = s.sub => r.clicks + week[s.sub][Week(call)] <= s.clicks + board[s.sub]

ListFits ==
  /\ call.sig = NoSignals
  /\ call.pc # "topall" => AllFits
  /\ call.pc \notin {"topall", "names"} => \A r \in Rows(call.all) : r.sub \in call.named
  /\ call.pc \in {"weeknames", "ranks", "done"} => WeekFits
  /\ call.pc \in {"ranks", "done"} => \A s \in Rows(call.week) : s.sub \in call.named
  /\ call.pc = "done" /\ call.kind = "board" =>
       \A s \in Rows(call.week) : s.sub = call.sub => call.rank > 0

CallFits ==
  call = NoCall \/ call.blind \/ IF call.kind = "state" THEN StateFits ELSE ListFits

(* The week of a call is one of the weeks.                                 *)
LEMMA CallWeek ==
  ASSUME CallShape, call # NoCall
  PROVE  Week(call) \in Weeks /\ call.date \in Days /\ Week(call) = WeekStart(call.date)
BY DEF CallShape, Week, Weeks

(* What is due stays due while the group moves, and so on.                 *)
LEMMA GroupFits ==
  ASSUME GroupInv, Types', Grown, Onward, CallShape, CallFits, UNCHANGED call
  PROVE  CallFits'
<1> SUFFICES ASSUME call # NoCall, ~call.blind PROVE CallFits'
  BY DEF CallFits
<1>1. Types /\ torn \subseteq torn' /\ names \subseteq names'
  BY DEF GroupInv, Onward
<1>2. PICK k \in Weeks : k = Week(call) /\ Week(call)' = k
  BY CallWeek DEF Week
<1>3. CASE call.kind = "state"
  <2>1. StateFits /\ call.sub \in Users /\ call.date \in Days
    BY <1>3 DEF CallFits, CallShape
  <2>2. \A x : Due(x) => Due(x)'
    BY <1>1, DueGrown
  <2>3. \A x : DayKept(x) => DayKept(x)'
    <3>1. \A x : Spoiled(x[1], "maxbatch") => Spoiled(x[1], "maxbatch")'
      BY <1>1 DEF Spoiled
    <3> QED
      BY <1>2, <3>1 DEF DayKept
  <2>4. \A x : WeekKept(x) => WeekKept(x)'
    BY <1>2 DEF WeekKept
  <2>5. call.pc = "week" => call.sig.clicks <= daily'[call.sub][call.date].clicks
    <3>1. /\ daily \in [Users -> [Days -> [clicks : Nat, batches : Nat]]]
          /\ daily' \in [Users -> [Days -> [clicks : Nat, batches : Nat]]]
      BY <1>1 DEF Types, TypeOK
    <3>2. /\ daily[call.sub][call.date].clicks \in Nat
          /\ daily'[call.sub][call.date].clicks \in Nat /\ call.sig.clicks \in Nat
      BY <2>1, <3>1 DEF StateFits, Signal
    <3>3. daily[call.sub][call.date].clicks <= daily'[call.sub][call.date].clicks
      BY <2>1, Zenon DEF Grown
    <3> QED
      BY <2>1, <3>2, <3>3 DEF StateFits
  <2>6. StateFits'
    BY <2>1, <2>2, <2>3, <2>4, <2>5 DEF StateFits
  <2> QED
    BY <1>3, <2>6 DEF CallFits
<1>4. CASE call.kind # "state"
  <2>1. ListFits
    BY <1>4 DEF CallFits
  <2>2. /\ board \in [Users -> Nat] /\ board' \in [Users -> Nat]
        /\ week \in [Users -> [Weeks -> Nat]] /\ week' \in [Users -> [Weeks -> Nat]]
    BY <1>1 DEF Types, TypeOK
  <2>3. \A u \in Users : /\ board[u] <= board'[u] /\ week[u][k] <= week'[u][k]
                         /\ board[u] + week'[u][k] <= board'[u] + week[u][k]
    BY DEF Grown, Onward
  <2>4. AllFits => AllFits'
    BY <1>1, <2>2, <2>3 DEF AllFits
  <2>5. WeekFits /\ AllFits => WeekFits'
    <3> SUFFICES ASSUME WeekFits, AllFits, NEW s \in Rows(call.week)
                 PROVE  /\ s.sub \in Users /\ s.clicks \in Nat /\ s.sub \in names'
                        /\ 0 < week'[s.sub][k]
                        /\ \A r \in Rows(call.all) :
                             r.sub = s.sub => r.clicks + week'[s.sub][k] <= s.clicks + board'[s.sub]
      BY <1>2 DEF WeekFits
    <3>1. s.sub \in Users /\ s.clicks \in Nat /\ s.sub \in names' /\ 0 < week[s.sub][k]
      BY <1>1, <1>2 DEF WeekFits
    <3>2. /\ week[s.sub][k] \in Nat /\ week'[s.sub][k] \in Nat
          /\ board[s.sub] \in Nat /\ board'[s.sub] \in Nat
      BY <2>2, <3>1
    <3>3. ASSUME NEW r \in Rows(call.all), r.sub = s.sub
          PROVE  r.clicks + week'[s.sub][k] <= s.clicks + board'[s.sub]
      <4>1. r.clicks \in Nat /\ r.clicks + week[s.sub][k] <= s.clicks + board[s.sub]
        BY <1>2, <3>3 DEF WeekFits, AllFits
      <4> QED
        BY <2>3, <3>1, <3>2, <4>1
    <3> QED
      BY <2>3, <3>1, <3>2, <3>3
  <2>6. ListFits'
    BY <2>1, <2>4, <2>5 DEF ListFits
  <2> QED
    BY <1>4, <2>6 DEF CallFits
<1> QED
  BY <1>3, <1>4

-----------------------------------------------------------------------------
(* The steps of a call.                                                    *)

(* A player's step changes nothing the facts are about but the call.       *)
LEMMA PlayerQuiet ==
  ASSUME Player
  PROVE  /\ UNCHANGED <<clicks, board, week, daily, maxbatch, weekdays, names, granted, torn>>
         /\ \A x : Due(x)' <=> Due(x)
<1>1. UNCHANGED <<clicks, board, week, daily, maxbatch, weekdays, names, granted, torn>>
  BY PlayerShape DEF redis, counts, tally, quests
<1>2. \A q, u, d : DayHolds(q, u, d)' <=> DayHolds(q, u, d)
  BY <1>1 DEF DayHolds, Spoiled
<1>3. \A q, u, k : WeekHolds(q, u, k)' <=> WeekHolds(q, u, k)
  BY <1>1 DEF WeekHolds
<1> QED
  BY <1>1, <1>2, <1>3 DEF Due

(* A call begins with nothing to show.                                     *)
LEMMA BeginFits ==
  ASSUME GroupInv, GetPlayerState \/ GetLeaderboard \/ LeaderboardTick
  PROVE  CallShape' /\ CallFits'
<1>1. PICK kind \in {"state", "board", "tick"}, u \in Users \cup {None}, d \in LogDates :
        Begin(kind, u, d) /\ (kind # "tick" => u \in Users)
  BY DEF GetPlayerState, GetLeaderboard, LeaderboardTick
<1>2. /\ call'.kind = kind /\ call'.pc = Reads(kind)[1] /\ call'.sub = u /\ call'.date = d
      /\ call'.before = {x \in granted : x[1] = u}
      /\ call'.all = << >> /\ call'.week = << >> /\ call'.sig = NoSignals
      /\ IsCall(call')
  BY <1>1 DEF Begin, NoCall, IsCall
<1>3. d \in Days
  BY <1>1, LogsTyped DEF LogDates, GroupInv, Types, TypeOK
<1>4. call'.pc = IF kind = "state" THEN "total" ELSE "topall"
  BY <1>2 DEF Reads
<1>5. CallShape'
  BY <1>1, <1>2, <1>3, <1>4 DEF CallShape
<1>6. CASE kind = "state"
  <2>1. \A x \in granted : Due(x)'
    BY PlayerQuiet DEF Player, GroupInv, RewardInv
  <2>2. NoSignals \in Signal'
    BY DEF NoSignals, Signal
  <2>3. StateFits'
    BY <1>2, <1>4, <1>6, <2>1, <2>2 DEF StateFits
  <2> QED
    BY <1>2, <1>5, <1>6, <2>3 DEF CallFits
<1>7. CASE kind # "state"
  <2>1. Rows(call'.all) = {} /\ Rows(call'.week) = {}
    BY <1>2 DEF Rows
  <2>2. ListFits'
    BY <1>2, <1>4, <1>7, <2>1 DEF ListFits
  <2> QED
    BY <1>2, <1>5, <1>7, <2>2 DEF CallFits
<1> QED
  BY <1>5, <1>6, <1>7

(* The total, the unlocks and the streak are shown as they are.            *)
LEMMA PlainFits ==
  ASSUME GroupInv, CallShape, CallFits, ReadTotal \/ ReadUnlocks \/ ReadStreak
  PROVE  CallShape' /\ CallFits'
<1>1. PICK pc, c :
        /\ pc \in {"total", "unlocks", "streak"} /\ Read(pc, c) /\ IsCall(c)
        /\ c.kind = call.kind /\ c.sub = call.sub /\ c.date = call.date
        /\ c.blind = call.blind /\ c.before = call.before /\ c.sig = call.sig
        /\ c.all = call.all /\ c.week = call.week
  <2>1. IsCall(call)
    BY DEF CallShape
  <2>2. CASE ReadTotal
    BY <2>1, <2>2, CallField DEF IsCall, ReadTotal
  <2>3. CASE ReadUnlocks
    BY <2>1, <2>3, CallField DEF IsCall, ReadUnlocks
  <2>4. CASE ReadStreak
    BY <2>1, <2>4, CallField DEF IsCall, ReadStreak
  <2> QED
    BY <2>2, <2>3, <2>4
<1>2. /\ CallShape' /\ call # NoCall /\ call' # NoCall
      /\ call.pc = pc /\ call'.pc = Then(call)
      /\ call'.kind = call.kind /\ call'.sub = call.sub /\ call'.date = call.date
      /\ \/ call'.blind
         \/ /\ call'.blind = call.blind /\ call'.before = call.before /\ call'.sig = call.sig
            /\ call'.all = call.all /\ call'.week = call.week
  BY <1>1, ReadShape
<1> SUFFICES ASSUME ~call'.blind PROVE CallFits'
  BY <1>2 DEF CallFits
<1>3. StateFits /\ call.kind = "state"
  BY <1>1, <1>2 DEF CallFits, CallShape
<1>4. /\ pc # "streak" => call'.pc \in {"unlocks", "day"}
      /\ pc = "streak" => call'.pc = "done"
  BY <1>1, <1>2, <1>3, NextRead
<1>5. Week(call') = Week(call)
  BY <1>2 DEF Week
<1>6. /\ \A x : Due(x)' <=> Due(x)
      /\ torn' = torn
  BY PlayerQuiet DEF Player
<1>7. \A x : DayKept(x)' <=> DayKept(x)
  BY <1>2, <1>5, <1>6 DEF DayKept, Spoiled
<1>8. \A x : WeekKept(x)' <=> WeekKept(x)
  BY <1>2, <1>5 DEF WeekKept
<1>9. call'.sig \in Signal'
  BY <1>2, <1>3 DEF StateFits, Signal
<1>10. StateFits'
  BY <1>1, <1>2, <1>3, <1>4, <1>6, <1>7, <1>8, <1>9 DEF StateFits
<1> QED
  BY <1>2, <1>3, <1>10 DEF CallFits

(* A quest that was granted shows as done, whichever of the day or the     *)
(* week it is asked for.                                                   *)
LEMMA DueHolds ==
  ASSUME NEW x, Due(x)
  PROVE  /\ x[2] \in Days => \A q \in DailyQuests(x[2]) :
              q.id = x[3] => DayHolds(q, x[1], x[2])
         /\ x[2] \in Weeks => \A q \in WeeklyQuests(x[2]) :
              q.id = x[3] => WeekHolds(q, x[1], x[2])
<1>1. x[2] \in Days \cup Weeks
  BY DEF Due
<1>2. DailyQuests(x[2]) \subseteq DailyAll /\ WeeklyQuests(x[2]) \subseteq WeeklyAll
  BY <1>1, HashTyped, PickInPool
<1>3. ASSUME NEW q \in DailyQuests(x[2]), q.id = x[3] PROVE DayHolds(q, x[1], x[2])
  <2>1. \A p \in WeeklyQuests(x[2]) : p.id # x[3]
    BY <1>2, <1>3, QuestIds
  <2>2. \A p \in DailyQuests(x[2]) : p.id = x[3] => p = q
    BY <1>2, <1>3, QuestIds
  <2> QED
    BY <2>1, <2>2, Zenon DEF Due
<1>4. ASSUME NEW q \in WeeklyQuests(x[2]), q.id = x[3] PROVE WeekHolds(q, x[1], x[2])
  <2>1. \A p \in DailyQuests(x[2]) : p.id # x[3]
    BY <1>2, <1>4, QuestIds
  <2>2. \A p \in WeeklyQuests(x[2]) : p.id = x[3] => p = q
    BY <1>2, <1>4, QuestIds
  <2> QED
    BY <2>1, <2>2, Zenon DEF Due
<1> QED
  BY <1>3, <1>4

(* The day is read: what was granted of it, or counts days, is there.      *)
LEMMA DayFits ==
  ASSUME GroupInv, CallShape, CallFits, ReadDay
  PROVE  CallShape' /\ CallFits'
<1> DEFINE c == [call EXCEPT !.sig = DaySignals(call.sig, call.sub, call.date)]
<1>1. /\ Read("day", c) /\ IsCall(c)
      /\ c.kind = call.kind /\ c.sub = call.sub /\ c.date = call.date
      /\ c.blind = call.blind /\ c.before = call.before
      /\ c.all = call.all /\ c.week = call.week
      /\ c.sig = DaySignals(call.sig, call.sub, call.date)
  <2>1. PICK v : v = DaySignals(call.sig, call.sub, call.date)
    OBVIOUS
  <2>2. c = [call EXCEPT !.sig = v]
    BY <2>1
  <2>3. Read("day", c)
    BY DEF ReadDay
  <2> HIDE DEF c
  <2> QED
    BY <2>1, <2>2, <2>3, CallField DEF CallShape, IsCall
<1> HIDE DEF c
<1>2. /\ CallShape' /\ call # NoCall /\ call' # NoCall
      /\ call.pc = "day" /\ call'.pc = Then(call)
      /\ call'.kind = call.kind /\ call'.sub = call.sub /\ call'.date = call.date
      /\ \/ call'.blind
         \/ /\ call'.blind = call.blind /\ call'.before = call.before
            /\ call'.all = call.all /\ call'.week = call.week
            /\ call'.sig = DaySignals(call.sig, call.sub, call.date)
  BY <1>1, ReadShape
<1> SUFFICES ASSUME ~call'.blind PROVE CallFits'
  BY <1>2 DEF CallFits
<1>3. StateFits /\ call.kind = "state" /\ call'.pc = "week"
  BY <1>2, NextRead DEF CallFits, CallShape
<1>4. PICK u \in Users, d \in Days, k \in Weeks :
        /\ u = call.sub /\ d = call.date /\ k = Week(call) /\ k = Week(call)' /\ k = WeekStart(d)
  BY <1>2, <1>3, CallWeek DEF CallShape, Week
<1>5. /\ daily' = daily /\ maxbatch' = maxbatch /\ weekdays' = weekdays /\ torn' = torn
      /\ \A x : Due(x)' <=> Due(x)
  BY PlayerQuiet DEF Player
<1>6. /\ daily[u][d].clicks \in Nat /\ daily[u][d].batches \in Nat /\ maxbatch[u][d] \in Nat
      /\ IsFiniteSet(weekdays[u][k])
  <2>1. /\ daily \in [Users -> [Days -> [clicks : Nat, batches : Nat]]]
        /\ maxbatch \in [Users -> [Days -> Nat]]
    BY DEF GroupInv, Types, TypeOK
  <2> QED
    BY <2>1 DEF GroupInv, Types, FiniteWeeks
<1>7. Cardinality(weekdays[u][k]) \in Nat
  BY <1>6, FS_CardinalityType, Zenon
<1>8. call'.sig = [clicks |-> daily[u][d].clicks, batches |-> daily[u][d].batches,
                   maxbatch |-> maxbatch[u][d], days |-> Cardinality(weekdays[u][k]),
                   week |-> call.sig.week, rank |-> call.sig.rank]
  BY <1>2, <1>4 DEF DaySignals
<1>9. call'.sig \in Signal'
  BY <1>3, <1>6, <1>7, <1>8 DEF StateFits, Signal
<1>10. \A x \in call.before : x[1] = u /\ Due(x)
  BY <1>3, <1>4 DEF StateFits
<1>11. ASSUME NEW x \in call.before PROVE DayKept(x)'
  <2>1. x[2] = d => \A q \in DailyQuests(d) : x[3] = q.id => DayHolds(q, u, d)
    BY <1>10, DueHolds, Zenon
  <2>2. x[2] = k => \A q \in WeeklyQuests(k) : x[3] = q.id => WeekHolds(q, u, k)
    BY <1>10, DueHolds, Zenon
  <2>3. x[2] = d => \A q \in DailyQuests(d) : x[3] = q.id =>
          \/ q.metric = "clicks" /\ q.target <= call'.sig.clicks
          \/ q.metric = "batches" /\ q.target <= call'.sig.batches
          \/ /\ q.metric = "maxbatch"
             /\ q.target <= call'.sig.maxbatch \/ Spoiled(x[1], "maxbatch")'
    BY <1>5, <1>8, <1>10, <2>1 DEF DayHolds, Spoiled
  <2>4. x[2] = k => \A q \in WeeklyQuests(k) :
          x[3] = q.id /\ q.metric = "days" => q.target <= call'.sig.days
    BY <1>8, <2>2 DEF WeekHolds
  <2> QED
    BY <1>2, <1>4, <2>3, <2>4, Zenon DEF DayKept
<1>12. call'.sig.clicks <= daily'[call'.sub][call'.date].clicks
  BY <1>2, <1>4, <1>5, <1>6, <1>8
<1>13. StateFits'
  BY <1>2, <1>3, <1>5, <1>9, <1>11, <1>12 DEF StateFits
<1> QED
  BY <1>2, <1>3, <1>13 DEF CallFits

(* The week is read after it, and is ahead of the day.                     *)
LEMMA WeekReadFits ==
  ASSUME GroupInv, Boards, CallShape, CallFits, ReadWeek
  PROVE  CallShape' /\ CallFits'
<1> DEFINE c == [call EXCEPT !.sig = WeekSignals(call.sig, call.sub, call.date)]
<1>1. /\ Read("week", c) /\ IsCall(c)
      /\ c.kind = call.kind /\ c.sub = call.sub /\ c.date = call.date
      /\ c.blind = call.blind /\ c.before = call.before
      /\ c.all = call.all /\ c.week = call.week
      /\ c.sig = WeekSignals(call.sig, call.sub, call.date)
  <2>1. PICK v : v = WeekSignals(call.sig, call.sub, call.date)
    OBVIOUS
  <2>2. c = [call EXCEPT !.sig = v]
    BY <2>1
  <2>3. Read("week", c)
    BY DEF ReadWeek
  <2> HIDE DEF c
  <2> QED
    BY <2>1, <2>2, <2>3, CallField DEF CallShape, IsCall
<1> HIDE DEF c
<1>2. /\ CallShape' /\ call # NoCall /\ call' # NoCall
      /\ call.pc = "week" /\ call'.pc = Then(call)
      /\ call'.kind = call.kind /\ call'.sub = call.sub /\ call'.date = call.date
      /\ \/ call'.blind
         \/ /\ call'.blind = call.blind /\ call'.before = call.before
            /\ call'.all = call.all /\ call'.week = call.week
            /\ call'.sig = WeekSignals(call.sig, call.sub, call.date)
  BY <1>1, ReadShape
<1> SUFFICES ASSUME ~call'.blind PROVE CallFits'
  BY <1>2 DEF CallFits
<1>3. StateFits /\ call.kind = "state" /\ call'.pc = "streak"
  BY <1>2, NextRead DEF CallFits, CallShape
<1>4. PICK u \in Users, d \in Days, k \in Weeks :
        /\ u = call.sub /\ d = call.date /\ k = Week(call) /\ k = Week(call)' /\ k = WeekStart(d)
  BY <1>2, <1>3, CallWeek DEF CallShape, Week
<1>5. torn' = torn /\ \A x : Due(x)' <=> Due(x)
  BY PlayerQuiet DEF Player
<1>6. week \in [Users -> [Weeks -> Nat]] /\ daily \in [Users -> [Days -> [clicks : Nat, batches : Nat]]]
  BY DEF GroupInv, Types, TypeOK
<1> DEFINE score == [v \in Users |-> week[v][k]]
           rank == RankOf(score, u)
<1>7. rank \in Nat
  <2>1. score \in [Users -> Nat]
    BY <1>6
  <2>2. Users \in SUBSET Nat
    BY LogsTyped
  <2> HIDE DEF score
  <2>3. rank = 0 \/ rank \in 1 .. Cardinality(Ranked(score))
    BY <2>1, <2>2, FinitelyMany, RanksDiffer DEF RankOf
  <2>4. Cardinality(Ranked(score)) \in Nat
    BY <2>1, <2>2, FinitelyMany, RanksDiffer, FS_CardinalityType
  <2> QED
    BY <2>3, <2>4
<1>8. call'.sig = [clicks |-> call.sig.clicks, batches |-> call.sig.batches,
                   maxbatch |-> call.sig.maxbatch, days |-> call.sig.days,
                   week |-> week[u][k], rank |-> rank]
  BY <1>2, <1>4 DEF WeekSignals
<1> HIDE DEF rank
<1>9. call'.sig \in Signal'
  BY <1>3, <1>6, <1>7, <1>8 DEF StateFits, Signal
<1>10. \A x \in call.before : x[1] = u /\ Due(x) /\ DayKept(x)
  BY <1>2, <1>3, <1>4 DEF StateFits
<1>11. ASSUME NEW x \in call.before PROVE WeekKept(x)'
  <2>1. x[2] = k => \A q \in WeeklyQuests(k) : x[3] = q.id => WeekHolds(q, u, k)
    BY <1>10, DueHolds, Zenon
  <2>2. x[2] = k => \A q \in WeeklyQuests(k) :
          x[3] = q.id /\ q.metric = "week" => q.target <= call'.sig.week
    BY <1>8, <2>1 DEF WeekHolds
  <2> QED
    BY <1>4, <2>2, Zenon DEF WeekKept
<1>12. \A x \in call.before : DayKept(x)'
  <2>1. /\ call'.sig.clicks = call.sig.clicks /\ call'.sig.batches = call.sig.batches
        /\ call'.sig.maxbatch = call.sig.maxbatch /\ call'.sig.days = call.sig.days
    BY <1>8
  <2> QED
    BY <1>2, <1>4, <1>5, <1>10, <2>1 DEF DayKept, Spoiled
<1>13. call'.sig.clicks <= call'.sig.week
  <2>1. call.sig.clicks <= daily[u][d].clicks /\ daily[u][d].clicks <= week[u][k]
    BY <1>2, <1>3, <1>4 DEF StateFits, Boards
  <2>2. call.sig.clicks \in Nat /\ daily[u][d].clicks \in Nat /\ week[u][k] \in Nat
    BY <1>3, <1>6 DEF StateFits, Signal
  <2> QED
    BY <1>8, <2>1, <2>2
<1>14. StateFits'
  BY <1>2, <1>3, <1>5, <1>9, <1>11, <1>12, <1>13 DEF StateFits
<1> QED
  BY <1>2, <1>3, <1>14 DEF CallFits

(* A read of a list, or of what belongs to one, has its answer.            *)
LEMMA ListAnswer ==
  ASSUME CallShape, CallFits,
         NEW pc \in {"topall", "names", "topweek", "weeknames", "ranks"},
         NEW c, IsCall(c), Read(pc, c), c.kind = call.kind, c.sub = call.sub,
         c.date = call.date, c.blind = call.blind, c.sig = call.sig
  PROVE  /\ CallShape' /\ call # NoCall
         /\ \/ CallFits'
            \/ /\ ListFits /\ call.kind \in {"board", "tick"} /\ ~call'.blind
               /\ call.pc = pc /\ call'.pc = Then(call)
               /\ call'.kind = call.kind /\ call'.sub = call.sub /\ Week(call') = Week(call)
               /\ call'.sig = NoSignals /\ call'.all = c.all /\ call'.week = c.week
               /\ call'.named = c.named /\ call'.rank = c.rank
<1>1. /\ CallShape' /\ call # NoCall /\ call.pc = pc /\ call'.pc = Then(call)
      /\ call'.kind = call.kind /\ call'.sub = call.sub /\ call'.date = call.date
      /\ \/ call'.blind
         \/ /\ call'.blind = call.blind /\ call'.sig = call.sig
            /\ call'.all = c.all /\ call'.week = c.week /\ call'.named = c.named
            /\ call'.rank = c.rank
  BY ReadShape
<1>2. Week(call') = Week(call)
  BY <1>1 DEF Week
<1>3. call.kind \in {"board", "tick"}
  BY <1>1 DEF CallShape
<1>4. call'.blind => CallFits'
  BY DEF CallFits
<1>5. ~call'.blind => ListFits /\ call'.sig = NoSignals
  BY <1>1, <1>3 DEF CallFits, ListFits
<1> QED
  BY <1>1, <1>2, <1>3, <1>4, <1>5

(* The types the lists need.                                               *)
LEMMA BoardTypes ==
  ASSUME GroupInv
  PROVE  /\ board \in [Users -> Nat] /\ week \in [Users -> [Weeks -> Nat]]
         /\ Users \in SUBSET Nat /\ IsFiniteSet(Users)
BY LogsTyped, FinitelyMany DEF GroupInv, Types, TypeOK

(* The scores of a week are a board.                                       *)
LEMMA WeekScores ==
  ASSUME GroupInv, NEW k \in Weeks, k = Week(call)
  PROVE  /\ WeekBoard(call) \in [Users -> Nat]
         /\ \A u \in Users : WeekBoard(call)[u] = week[u][k]
<1>1. WeekBoard(call) = [u \in Users |-> week[u][k]]
  BY DEF WeekBoard
<1>2. \A u \in Users : week[u][k] \in Nat
  BY BoardTypes
<1> QED
  BY <1>1, <1>2

(* The all-time list: its rows are of the board, and have names.           *)
LEMMA TopAllFits ==
  ASSUME GroupInv, Boards, CallShape, CallFits, ReadTopAll
  PROVE  CallShape' /\ CallFits'
<1>1. PICK list : list = TopN(board, 20)
  OBVIOUS
<1>2. PICK c : c = [call EXCEPT !.all = list]
  OBVIOUS
<1>3. Read("topall", c)
  BY <1>1, <1>2 DEF ReadTopAll
<1>4. /\ IsCall(c) /\ c.kind = call.kind /\ c.sub = call.sub /\ c.date = call.date
      /\ c.blind = call.blind /\ c.sig = call.sig /\ c.all = list
  BY <1>2, CallField DEF CallShape, IsCall
<1> SUFFICES ASSUME ~CallFits' PROVE FALSE
  BY <1>3, <1>4, ListAnswer
<1>5. /\ ListFits /\ call.kind \in {"board", "tick"} /\ call.pc = "topall"
      /\ call'.pc = Then(call) /\ call'.kind = call.kind
      /\ call'.sig = NoSignals /\ call'.all = list
  BY <1>3, <1>4, ListAnswer
<1>6. call'.pc = "names"
  BY <1>5, NextRead
<1>7. ASSUME NEW r \in Rows(list)
      PROVE  r.sub \in Users /\ r.clicks \in Nat /\ r.clicks <= board[r.sub] /\ r.sub \in names
  <2>1. PICK i \in DOMAIN list : r = list[i]
    BY DEF Rows
  <2>2. r.sub \in Users /\ r.clicks = board[r.sub] /\ board[r.sub] > 0
    BY <1>1, <2>1, BoardTypes, RowsOfBoard
  <2> QED
    BY <2>2, BoardTypes DEF Boards
<1>8. board' = board /\ names' = names
  BY PlayerQuiet DEF Player
<1>9. AllFits'
  BY <1>5, <1>7, <1>8 DEF AllFits
<1>10. ListFits'
  BY <1>5, <1>6, <1>9 DEF ListFits
<1> QED
  BY <1>5, <1>10 DEF CallFits

(* The names of its users are all there.                                   *)
LEMMA NamesFit ==
  ASSUME GroupInv, CallShape, CallFits, ReadNames
  PROVE  CallShape' /\ CallFits'
<1>1. PICK set : set = Named(call.all)
  OBVIOUS
<1>2. PICK c : c = [call EXCEPT !.named = set]
  OBVIOUS
<1>3. Read("names", c)
  BY <1>1, <1>2 DEF ReadNames
<1>4. /\ IsCall(c) /\ c.kind = call.kind /\ c.sub = call.sub /\ c.date = call.date
      /\ c.blind = call.blind /\ c.sig = call.sig /\ c.all = call.all /\ c.named = set
  BY <1>2, CallField DEF CallShape, IsCall
<1> SUFFICES ASSUME ~CallFits' PROVE FALSE
  BY <1>3, <1>4, ListAnswer
<1>5. /\ ListFits /\ call.kind \in {"board", "tick"} /\ call.pc = "names"
      /\ call'.pc = Then(call) /\ call'.kind = call.kind
      /\ call'.sig = NoSignals /\ call'.all = call.all /\ call'.named = set
  BY <1>3, <1>4, ListAnswer
<1>6. call'.pc = "topweek" /\ AllFits
  BY <1>5, NextRead DEF ListFits
<1>7. \A r \in Rows(call.all) : r.sub \in set
  BY <1>1, <1>6 DEF Rows, Named, AllFits
<1>8. board' = board /\ names' = names
  BY PlayerQuiet DEF Player
<1>9. AllFits'
  BY <1>5, <1>6, <1>8 DEF AllFits
<1>10. ListFits'
  BY <1>5, <1>6, <1>7, <1>9 DEF ListFits
<1> QED
  BY <1>5, <1>10 DEF CallFits

(* The week's list is read after it: what a row of the first list has that *)
(* is not in the week was on the board by then.                            *)
LEMMA TopWeekFits ==
  ASSUME GroupInv, Boards, CallShape, CallFits, ReadTopWeek
  PROVE  CallShape' /\ CallFits'
<1>1. PICK list : list = TopN(WeekBoard(call), 20)
  OBVIOUS
<1>2. PICK c : c = [call EXCEPT !.week = list]
  OBVIOUS
<1>3. Read("topweek", c)
  BY <1>1, <1>2 DEF ReadTopWeek
<1>4. /\ IsCall(c) /\ c.kind = call.kind /\ c.sub = call.sub /\ c.date = call.date
      /\ c.blind = call.blind /\ c.sig = call.sig /\ c.all = call.all /\ c.named = call.named
      /\ c.week = list
  BY <1>2, CallField DEF CallShape, IsCall
<1> SUFFICES ASSUME ~CallFits' PROVE FALSE
  BY <1>3, <1>4, ListAnswer
<1>5. /\ ListFits /\ call.kind \in {"board", "tick"} /\ call.pc = "topweek"
      /\ call'.pc = Then(call) /\ call'.kind = call.kind /\ Week(call') = Week(call)
      /\ call'.sig = NoSignals /\ call'.all = call.all /\ call'.named = call.named
      /\ call'.week = list /\ call # NoCall
  BY <1>3, <1>4, ListAnswer
<1>6. call'.pc = "weeknames" /\ AllFits /\ \A r \in Rows(call.all) : r.sub \in call.named
  BY <1>5, NextRead DEF ListFits
<1>7. PICK k \in Weeks : k = Week(call) /\ k = Week(call)'
  BY <1>5, CallWeek
<1>8. ASSUME NEW s \in Rows(list)
      PROVE  /\ s.sub \in Users /\ s.clicks \in Nat /\ s.sub \in names
             /\ 0 < week[s.sub][k] /\ s.clicks = week[s.sub][k]
  <2>1. PICK i \in DOMAIN list : s = list[i]
    BY DEF Rows
  <2>2. PICK score \in [Users -> Nat] :
          /\ score = WeekBoard(call)
          /\ \A u \in Users : score[u] = week[u][k]
    BY <1>7, WeekScores
  <2>3. s.sub \in Users /\ s.clicks = score[s.sub] /\ score[s.sub] > 0
    BY <1>1, <2>1, <2>2, BoardTypes, RowsOfBoard
  <2> QED
    BY <2>2, <2>3, BoardTypes DEF Boards
<1>9. board' = board /\ names' = names /\ week' = week
  BY PlayerQuiet DEF Player
<1>10. AllFits'
  BY <1>5, <1>6, <1>9 DEF AllFits
<1>11. ASSUME NEW s \in Rows(list), NEW r \in Rows(call.all), r.sub = s.sub
       PROVE  r.clicks + week[s.sub][k] <= s.clicks + board[s.sub]
  <2>1. r.clicks \in Nat /\ r.clicks <= board[s.sub]
    BY <1>6, <1>11 DEF AllFits
  <2>2. s.sub \in Users /\ s.clicks = week[s.sub][k]
    BY <1>8
  <2>3. board[s.sub] \in Nat /\ week[s.sub][k] \in Nat
    BY <2>2, BoardTypes
  <2> QED
    BY <2>1, <2>2, <2>3
<1>12. WeekFits'
  BY <1>5, <1>7, <1>8, <1>9, <1>11 DEF WeekFits
<1>13. ListFits'
  BY <1>5, <1>6, <1>10, <1>12 DEF ListFits
<1> QED
  BY <1>5, <1>13 DEF CallFits

(* And its names.                                                          *)
LEMMA WeekNamesFit ==
  ASSUME GroupInv, CallShape, CallFits, ReadWeekNames
  PROVE  CallShape' /\ CallFits'
<1>1. PICK set : set = call.named \cup Named(call.week)
  OBVIOUS
<1>2. PICK c : c = [call EXCEPT !.named = set]
  OBVIOUS
<1>3. Read("weeknames", c)
  BY <1>1, <1>2 DEF ReadWeekNames
<1>4. /\ IsCall(c) /\ c.kind = call.kind /\ c.sub = call.sub /\ c.date = call.date
      /\ c.blind = call.blind /\ c.sig = call.sig /\ c.all = call.all /\ c.week = call.week
      /\ c.named = set
  BY <1>2, CallField DEF CallShape, IsCall
<1> SUFFICES ASSUME ~CallFits' PROVE FALSE
  BY <1>3, <1>4, ListAnswer
<1>5. /\ ListFits /\ call.kind \in {"board", "tick"} /\ call.pc = "weeknames"
      /\ call'.pc = Then(call) /\ call'.kind = call.kind /\ Week(call') = Week(call)
      /\ call'.sig = NoSignals /\ call'.all = call.all /\ call'.week = call.week
      /\ call'.named = set
  BY <1>3, <1>4, ListAnswer
<1>6. /\ call.kind = "board" => call'.pc = "ranks"
      /\ call.kind = "tick" => call'.pc = "done"
      /\ AllFits /\ WeekFits
      /\ \A r \in Rows(call.all) : r.sub \in call.named
  BY <1>5, NextRead DEF ListFits
<1>7. /\ \A r \in Rows(call.all) : r.sub \in set
      /\ \A s \in Rows(call.week) : s.sub \in set
  BY <1>1, <1>6 DEF Rows, Named, WeekFits
<1>8. board' = board /\ names' = names /\ week' = week
  BY PlayerQuiet DEF Player
<1>9. AllFits' /\ WeekFits'
  BY <1>5, <1>6, <1>8 DEF AllFits, WeekFits
<1>10. ListFits'
  BY <1>5, <1>6, <1>7, <1>9 DEF ListFits
<1> QED
  BY <1>5, <1>10 DEF CallFits

(* Whoever is on the week's list has a rank when it is asked for.          *)
LEMMA RanksFit ==
  ASSUME GroupInv, CallShape, CallFits, ReadRanks
  PROVE  CallShape' /\ CallFits'
<1>1. PICK n : n = RankOf(WeekBoard(call), call.sub)
  OBVIOUS
<1>2. PICK c : c = [call EXCEPT !.rank = n]
  OBVIOUS
<1>3. Read("ranks", c)
  BY <1>1, <1>2 DEF ReadRanks
<1>4. /\ IsCall(c) /\ c.kind = call.kind /\ c.sub = call.sub /\ c.date = call.date
      /\ c.blind = call.blind /\ c.sig = call.sig /\ c.all = call.all /\ c.week = call.week
      /\ c.named = call.named /\ c.rank = n
  BY <1>2, CallField DEF CallShape, IsCall
<1> SUFFICES ASSUME ~CallFits' PROVE FALSE
  BY <1>3, <1>4, ListAnswer
<1>5. /\ ListFits /\ call.kind = "board" /\ call.pc = "ranks" /\ call # NoCall
      /\ call'.pc = Then(call) /\ call'.kind = call.kind /\ Week(call') = Week(call)
      /\ call'.sub = call.sub
      /\ call'.sig = NoSignals /\ call'.all = call.all /\ call'.week = call.week
      /\ call'.named = call.named /\ call'.rank = n
  BY <1>3, <1>4, ListAnswer DEF CallShape
<1>6. /\ call'.pc = "done" /\ AllFits /\ WeekFits
      /\ \A r \in Rows(call.all) : r.sub \in call.named
      /\ \A s \in Rows(call.week) : s.sub \in call.named
  BY <1>5, NextRead DEF ListFits
<1>7. ASSUME NEW s \in Rows(call.week), s.sub = call.sub PROVE n > 0
  <2>1. PICK k \in Weeks : k = Week(call)
    BY <1>5, CallWeek
  <2>2. PICK score \in [Users -> Nat] :
          /\ score = WeekBoard(call)
          /\ \A u \in Users : score[u] = week[u][k]
    BY <2>1, WeekScores
  <2>3. s.sub \in Users /\ score[s.sub] > 0
    BY <1>6, <2>1, <2>2 DEF WeekFits
  <2> QED
    BY <1>1, <1>7, <2>2, <2>3, BoardTypes, RankedHaveRank
<1>8. board' = board /\ names' = names /\ week' = week
  BY PlayerQuiet DEF Player
<1>9. AllFits' /\ WeekFits'
  BY <1>5, <1>6, <1>8 DEF AllFits, WeekFits
<1>10. ListFits'
  BY <1>5, <1>6, <1>7, <1>9 DEF ListFits
<1> QED
  BY <1>5, <1>10 DEF CallFits

-----------------------------------------------------------------------------
(* An answer fits.                                                         *)

AnswerInv == GroupInv /\ Boards /\ CallShape /\ CallFits

(* At the start there is no call.                                          *)
LEMMA AnswerInit == ReadInit => AnswerInv
<1> SUFFICES ASSUME ReadInit PROVE AnswerInv
  OBVIOUS
<1>1. Boards
  <2>1. Init
    BY DEF ReadInit
  <2>2. \A d \in Days : WeekStart(d) \in Weeks
    BY DEF Weeks
  <2> QED
    BY <2>1, <2>2 DEF Init, Boards
<1>2. CallShape /\ CallFits
  BY DEF ReadInit, CallShape, CallFits, NoCall, IsCall
<1> QED
  BY <1>1, <1>2, ReadsInit DEF AnswerInv

(* A call is answered read by read while the group goes on.                *)
LEMMA AnswerStep == AnswerInv /\ [ReadNext]_<<vars, call>> => AnswerInv'
<1> SUFFICES ASSUME AnswerInv, [ReadNext]_<<vars, call>> PROVE AnswerInv'
  OBVIOUS
<1>1. GroupInv /\ Boards /\ CallShape /\ CallFits
  BY DEF AnswerInv
<1>2. GroupInv'
  BY <1>1, ReadsStep
<1>3. CASE [Next]_vars /\ UNCHANGED call
  <2>1. Boards' /\ Grown /\ Onward
    BY <1>1, <1>3, GroupGrows DEF GroupInv
  <2>2. CallShape'
    BY <1>1, <1>3 DEF CallShape
  <2>3. CallFits'
    BY <1>1, <1>2, <1>3, <2>1, GroupFits DEF GroupInv
  <2> QED
    BY <1>2, <2>1, <2>2, <2>3 DEF AnswerInv
<1>4. CASE Player
  <2>1. Boards'
    BY <1>1, <1>4, PlayerQuiet DEF Boards
  <2>2. CASE Return
    BY <1>2, <2>1, <2>2 DEF Return, CallShape, CallFits, NoCall, IsCall, AnswerInv
  <2>3. CASE GetPlayerState \/ GetLeaderboard \/ LeaderboardTick
    BY <1>1, <1>2, <2>1, <2>3, BeginFits DEF AnswerInv
  <2>4. CASE ReadTotal \/ ReadUnlocks \/ ReadStreak \/ ReadDay \/ ReadWeek
    BY <1>1, <1>2, <2>1, <2>4, PlainFits, DayFits, WeekReadFits DEF AnswerInv
  <2>5. CASE ReadTopAll \/ ReadNames \/ ReadTopWeek \/ ReadWeekNames \/ ReadRanks
    BY <1>1, <1>2, <2>1, <2>5, TopAllFits, NamesFit, TopWeekFits, WeekNamesFit, RanksFit
       DEF AnswerInv
  <2> QED
    BY <1>4, <2>2, <2>3, <2>4, <2>5 DEF Player
<1> QED
  BY <1>3, <1>4 DEF ReadNext

(* What is at least the target shows as complete.                          *)
LEMMA ShownComplete ==
  ASSUME StateFits, call.pc = "done", NEW x \in call.before
  PROVE  /\ x[2] = call.date => \A q \in DailyQuests(call.date) : Kept(x, q)
         /\ x[2] = Week(call) => \A q \in WeeklyQuests(Week(call)) : Kept(x, q)
<1>1. DayKept(x) /\ WeekKept(x) /\ Due(x) /\ call.sig \in Signal
  BY DEF StateFits
<1>2. ASSUME NEW q, q.metric # "rank", call.sig[q.metric] >= q.target
      PROVE  Progress(q, call.sig) = q.target
  BY <1>2 DEF Progress, QuestDone
<1>3. /\ call.sig["clicks"] = call.sig.clicks /\ call.sig["batches"] = call.sig.batches
      /\ call.sig["maxbatch"] = call.sig.maxbatch /\ call.sig["days"] = call.sig.days
      /\ call.sig["week"] = call.sig.week
  BY <1>1 DEF Signal
<1>4. \A q : q.metric \in {"clicks", "batches", "maxbatch", "days", "week"}
               /\ q.target <= call.sig[q.metric] => Progress(q, call.sig) = q.target
  BY <1>2
<1>5. x[2] \in Days \cup Weeks
  BY <1>1 DEF Due
<1>6. DailyQuests(x[2]) \subseteq DailyAll /\ WeeklyQuests(x[2]) \subseteq WeeklyAll
  BY <1>5, HashTyped, PickInPool
<1>7. ASSUME x[2] = call.date, NEW q \in DailyQuests(call.date) PROVE Kept(x, q)
  BY <1>1, <1>3, <1>4, <1>7 DEF DayKept, Kept, Spoiled
<1>8. ASSUME x[2] = Week(call), NEW q \in WeeklyQuests(Week(call)) PROVE Kept(x, q)
  <2>1. q.metric \in {"days", "week", "rank"}
    BY <1>6, <1>8, QuestIds
  <2> QED
    BY <1>1, <1>3, <1>4, <1>8, <2>1 DEF DayKept, WeekKept, Kept
<1> QED
  BY <1>7, <1>8

(* server.go:268-348.  Whatever the group does between the reads of a call,*)
(* an answer without a failed read fits together.                          *)
THEOREM AnswersFit == ReadSpec => []AnswerFits
<1>1. ASSUME AnswerInv PROVE AnswerFits
  <2> SUFFICES ASSUME call.pc = "done", call # NoCall, ~call.blind PROVE AnswerFits
    BY DEF AnswerFits
  <2>1. CallShape /\ IF call.kind = "state" THEN StateFits ELSE ListFits
    BY <1>1 DEF AnswerInv, CallFits
  <2>2. CASE call.kind = "state"
    <3>1. StateFits
      BY <2>1, <2>2
    <3>2. Rows(call.all) = {} /\ Rows(call.week) = {}
      BY <3>1 DEF StateFits, Rows
    <3>3. call.sig.clicks <= call.sig.week
      BY <3>1 DEF StateFits
    <3> QED
      BY <2>2, <3>1, <3>2, <3>3, ShownComplete DEF AnswerFits, Rows
  <2>3. CASE call.kind # "state"
    <3>1. ListFits
      BY <2>1, <2>3
    <3>2. call.sig.clicks <= call.sig.week
      BY <3>1 DEF ListFits, NoSignals
    <3>3. AllFits /\ WeekFits
      BY <3>1 DEF ListFits
    <3>4. \A r \in Rows(call.all) : \A s \in Rows(call.week) :
            s.sub = r.sub => r.clicks <= s.clicks + (board[r.sub] - week[r.sub][Week(call)])
      <4> SUFFICES ASSUME NEW r \in Rows(call.all), NEW s \in Rows(call.week), s.sub = r.sub
                   PROVE  r.clicks <= s.clicks + (board[r.sub] - week[r.sub][Week(call)])
        OBVIOUS
      <4>1. PICK k \in Weeks : k = Week(call)
        BY <2>1, CallWeek
      <4>2. board[s.sub] \in Nat /\ week[s.sub][k] \in Nat /\ r.clicks \in Nat /\ s.clicks \in Nat
        BY <1>1, <3>3, BoardTypes DEF AnswerInv, AllFits, WeekFits
      <4>3. r.clicks + week[s.sub][k] <= s.clicks + board[s.sub]
        BY <3>3, <4>1 DEF WeekFits
      <4> QED
        BY <4>1, <4>2, <4>3
    <3>5. \A r \in Rows(call.all) \cup Rows(call.week) : r.sub \in call.named
      BY <3>1 DEF ListFits
    <3>6. call.kind = "board" => \A s \in Rows(call.week) : s.sub = call.sub => call.rank > 0
      BY <3>1 DEF ListFits
    <3> QED
      BY <2>3, <3>2, <3>4, <3>5, <3>6 DEF AnswerFits, Rows
  <2> QED
    BY <2>2, <2>3
<1> QED
  BY <1>1, AnswerInit, AnswerStep, PTL DEF ReadSpec
=============================================================================
