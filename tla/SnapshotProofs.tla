--------------------------- MODULE SnapshotProofs ---------------------------
(***************************************************************************)
(* Snapshot's types, for any workers and faults.  What the backup is for,  *)
(* when there is one worker, Redis never loses its data under it and a     *)
(* restore either has written nothing or ends: AheadOfBackup and           *)
(* BackupNeverShrinks.  Each hypothesis is needed: two workers write their *)
(* rows over each other, a worker that goes on after a loss backs up what  *)
(* is left, and a restore that dies half way is not taken up again.  And,  *)
(* for any number of workers and restores that stop anywhere, that a       *)
(* restore nobody counts behind takes nothing away: QuietRestoreAdds.      *)
(***************************************************************************)
EXTENDS Snapshot, TLAPS

JobState ==
  [op : {"down", "check", "restore", "run", "snap"}, step : DOMAIN Tables,
   read : BOOLEAN, rows : [Keys -> Nat], subs : SUBSET Users]

-----------------------------------------------------------------------------
(* Types.                                                                  *)

(* The tables, by name and by place.                                       *)
LEMMA TablesByPlace ==
  /\ DOMAIN Tables = 1 .. 6 /\ Len(Tables) = 6
  /\ \A i \in 1 .. 6 : Tables[i] \in TableNames
  /\ \A t \in TableNames : \E i \in 1 .. 6 : Tables[i] = t
  /\ TableNames = {"counter", "board", "week", "names", "unlocks", "streaks"}
  /\ \A i, j \in 1 .. 6 : Tables[i] = Tables[j] => i = j
<1>1. DOMAIN Tables = 1 .. 6 /\ Len(Tables) = 6
  BY DEF Tables
<1>2. /\ Tables[1] = "counter" /\ Tables[2] = "board" /\ Tables[3] = "week"
      /\ Tables[4] = "names" /\ Tables[5] = "unlocks" /\ Tables[6] = "streaks"
  BY DEF Tables
<1>3. TableNames = {Tables[i] : i \in 1 .. 6}
  BY <1>1 DEF TableNames
<1>4. \A i \in 1 .. 6 : i = 1 \/ i = 2 \/ i = 3 \/ i = 4 \/ i = 5 \/ i = 6
  OBVIOUS
<1>5. TableNames = {"counter", "board", "week", "names", "unlocks", "streaks"}
  BY <1>2, <1>3, <1>4
<1>6. \A i, j \in 1 .. 6 : Tables[i] = Tables[j] => i = j
  BY <1>2, <1>4
<1> QED
  BY <1>1, <1>3, <1>5, <1>6

(* A row that is written is one of the two.                                *)
LEMMA UpsertRows ==
  ASSUME NEW t, NEW old \in [Keys -> Nat], NEW rows \in [Keys -> Nat]
  PROVE  /\ Upsert(t, old, rows) \in [Keys -> Nat]
         /\ \A k \in Keys :
              Upsert(t, old, rows)[k] =
                IF t = "unlocks" THEN IF old[k] # 0 THEN old[k] ELSE rows[k]
                                 ELSE IF rows[k] # 0 THEN rows[k] ELSE old[k]
<1>1. CASE t = "unlocks"
  BY <1>1 DEF Upsert, AddRows
<1>2. CASE t # "unlocks"
  BY <1>2 DEF Upsert, SetRows
<1> QED
  BY <1>1, <1>2

(* A worker's job is replaced.                                             *)
LEMMA JobSet ==
  ASSUME TypeOK, NEW w \in Workers, NEW j \in JobState, job' = [job EXCEPT ![w] = j]
  PROVE  /\ job' \in [Workers -> JobState]
         /\ job'[w] = j
         /\ \A v \in Workers : v # w => job'[v] = job[v]
BY DEF TypeOK, JobState

(* What a job may become.                                                  *)
LEMMA IdleJob ==
  ASSUME NEW op \in {"down", "check", "restore", "run", "snap"}
  PROVE  Idle(op) \in JobState
BY TablesByPlace DEF Idle, JobState, NoRows

(* On to the next table: the job after w has done with this one.           *)
Next1(j, op) ==
  IF j.step = 6 THEN Idle(op) ELSE [j EXCEPT !.step = @ + 1, !.read = FALSE, !.rows = NoRows]

(* Advance is that assignment.                                             *)
LEMMA AdvanceJob ==
  ASSUME TypeOK, NEW w \in Workers, NEW op \in {"down", "check", "restore", "run", "snap"},
         Advance(w, op)
  PROVE  job' = [job EXCEPT ![w] = Next1(job[w], op)] /\ Next1(job[w], op) \in JobState
<1>1. job[w] \in JobState /\ job[w].step \in 1 .. 6
  BY TablesByPlace DEF TypeOK, JobState
<1>2. job' = [job EXCEPT ![w] = Next1(job[w], op)]
  BY TablesByPlace DEF Advance, Next1
<1>3. CASE job[w].step = 6
  BY <1>2, <1>3, IdleJob DEF Next1
<1>4. CASE job[w].step # 6
  <2>1. job[w].step + 1 \in DOMAIN Tables
    BY <1>1, <1>4, TablesByPlace
  <2>2. NoRows \in [Keys -> Nat]
    BY DEF NoRows
  <2> QED
    BY <1>1, <1>2, <1>4, <2>1, <2>2 DEF Next1, JobState
<1> QED
  BY <1>3, <1>4

(* A read fills in the rows and subs of the job and nothing else.          *)
LEMMA ReadJob ==
  ASSUME TypeOK, NEW w \in Workers, NEW rows \in [Keys -> Nat], NEW subs \in SUBSET Users,
         Read(w, rows, subs)
  PROVE  /\ job' = [job EXCEPT ![w] = [job[w] EXCEPT !.read = TRUE, !.rows = rows, !.subs = subs]]
         /\ [job[w] EXCEPT !.read = TRUE, !.rows = rows, !.subs = subs] \in JobState
<1>1. job[w] \in JobState
  BY DEF TypeOK, JobState
<1> QED
  BY <1>1 DEF Read, TypeOK, JobState

(* The table a worker is at is one of the six.                             *)
LEMMA CurrentTable ==
  ASSUME TypeOK, NEW w \in Workers
  PROVE  /\ Current(w) \in TableNames /\ job[w] \in JobState /\ job[w].step \in 1 .. 6
         /\ job[w].rows \in [Keys -> Nat] /\ job[w].subs \in SUBSET Users
         /\ redis[Current(w)] \in [Keys -> Nat] /\ pg[Current(w)] \in [Keys -> Nat]
<1>1. job[w] \in JobState /\ job[w].step \in 1 .. 6
  BY TablesByPlace DEF TypeOK, JobState
<1>2. Current(w) \in TableNames
  BY <1>1, TablesByPlace DEF Current
<1> QED
  BY <1>1, <1>2 DEF TypeOK, TableType, JobState

(* Names and unlocks are there or not.                                     *)
Flags(r) == \A k \in Keys : r["names"][k] <= 1 /\ r["unlocks"][k] <= 1

(* What a consumer may do to the tables: rows grow, and a row of a user    *)
(* only when the user is on the board.                                     *)
Played(r, s) ==
  /\ s \in TableType /\ Covers(s, r) /\ Flags(s)
  /\ \A t \in TableNames : \A k \in Keys :
       \/ s[t][k] = r[t][k]
       \/ t = "counter" /\ k = Game
       \/ k \in Users /\ s["board"][k] > 0

(* What the consumers do only adds.                                        *)
LEMMA PlayGrows ==
  ASSUME TypeOK, Flags(redis), NEW w \in Workers, Play(w)
  PROVE  /\ Played(redis, redis') /\ Consuming(w) /\ UNCHANGED <<pg, job, faults>>
         /\ RaceRestores
<1>1. /\ redis \in TableType /\ Game \in Keys /\ \A u \in Users : u \in Keys
      /\ \A t \in TableNames : \A k \in Keys : redis[t][k] \in Nat
      /\ {"counter", "board", "week", "names", "unlocks", "streaks"} \subseteq TableNames
  BY TablesByPlace DEF TypeOK, TableType, Keys
<1>2. ASSUME NEW t \in TableNames, NEW k \in Keys, NEW max, Grow(t, k, max),
             t # "names", t = "unlocks" => max = 1,
             (t = "counter" /\ k = Game) \/ (k \in Users /\ redis["board"][k] > 0)
      PROVE  Played(redis, redis')
  <2>1. redis' = [redis EXCEPT ![t][k] = @ + 1] /\ redis[t][k] < max
    BY <1>2 DEF Grow
  <2>2. /\ redis' \in TableType /\ redis'[t][k] = redis[t][k] + 1
        /\ \A s \in TableNames : \A l \in Keys : ~(s = t /\ l = k) => redis'[s][l] = redis[s][l]
    BY <1>1, <2>1 DEF TableType
  <2>3. Covers(redis', redis)
    BY <1>1, <2>2 DEF Covers
  <2>4. Flags(redis')
    <3>1. \A l \in Keys : redis'["names"][l] = redis["names"][l]
      BY <1>1, <1>2, <2>2
    <3>2. t = "unlocks" => redis'[t][k] <= 1
      BY <1>1, <1>2, <2>1, <2>2
    <3>3. \A l \in Keys : redis'["unlocks"][l] <= 1
      BY <1>1, <2>2, <3>2 DEF Flags
    <3> QED
      BY <3>1, <3>3 DEF Flags
  <2>5. k \in Users /\ redis["board"][k] > 0 => redis'["board"][k] > 0
    BY <1>1, <2>2
  <2> QED
    BY <1>2, <2>2, <2>3, <2>4, <2>5 DEF Played
<1>3. CASE Count(w)
  BY <1>1, <1>2, <1>3 DEF Count
<1>4. ASSUME NEW u \in Users, Progress(w, u)
      PROVE  Played(redis, redis')
  <2> DEFINE a == [redis EXCEPT !["board"][u] = @ + 1]
             b == [a EXCEPT !["week"][u] = @ + 1]
             c == [b["names"] EXCEPT ![u] = 1]
  <2>1. redis' = [b EXCEPT !["names"] = c]
    BY <1>1, <1>4 DEF Progress, TableType
  <2>2. /\ a \in TableType /\ a["board"][u] = redis["board"][u] + 1
        /\ \A s \in TableNames : \A l \in Keys :
             ~(s = "board" /\ l = u) => a[s][l] = redis[s][l]
    BY <1>1 DEF TableType
  <2> HIDE DEF a
  <2>3. /\ b \in TableType /\ b["week"][u] = a["week"][u] + 1
        /\ \A s \in TableNames : \A l \in Keys :
             ~(s = "week" /\ l = u) => b[s][l] = a[s][l]
    BY <1>1, <2>2 DEF TableType
  <2> HIDE DEF b
  <2>4. b["names"] \in [Keys -> Nat]
    BY <1>1, <2>3 DEF TableType
  <2>5. c \in [Keys -> Nat] /\ c[u] = 1 /\ \A l \in Keys : l # u => c[l] = b["names"][l]
    BY <1>1, <2>4
  <2> HIDE DEF c
  <2>6. /\ redis' \in TableType /\ redis'["names"] = c
        /\ \A s \in TableNames : s # "names" => redis'[s] = b[s]
    BY <1>1, <2>1, <2>3, <2>5 DEF TableType
  <2>7. /\ redis'["board"][u] = redis["board"][u] + 1
        /\ redis'["week"][u] = redis["week"][u] + 1
        /\ redis'["names"][u] = 1
        /\ \A s \in TableNames : \A l \in Keys :
             ~(s \in {"board", "week", "names"} /\ l = u) => redis'[s][l] = redis[s][l]
    BY <1>1, <2>2, <2>3, <2>5, <2>6
  <2>8. redis["names"][u] <= 1 /\ redis'["board"][u] > 0
    BY <1>1, <2>7 DEF Flags
  <2>9. \A s \in TableNames : \A l \in Keys : redis'[s][l] >= redis[s][l]
    <3> SUFFICES ASSUME NEW s \in TableNames, NEW l \in Keys PROVE redis'[s][l] >= redis[s][l]
      OBVIOUS
    <3> QED
      BY <1>1, <2>7, <2>8
  <2>10. Flags(redis')
    BY <1>1, <2>7 DEF Flags
  <2>11. \A s \in TableNames : \A l \in Keys : redis'[s][l] # redis[s][l] => l = u
    BY <2>7
  <2> QED
    BY <2>6, <2>8, <2>9, <2>10, <2>11 DEF Played, Covers
<1>5. ASSUME NEW u \in Users, Unlock(w, u) \/ Streak(w, u)
      PROVE  Played(redis, redis')
  BY <1>1, <1>2, <1>5 DEF Unlock, Streak
<1>6. Consuming(w) /\ UNCHANGED <<pg, job, faults>> /\ RaceRestores
  BY DEF Play, Count, Progress, Unlock, Streak
<1> QED
  BY <1>3, <1>4, <1>5, <1>6 DEF Play

(* A step of a worker's main or snapshot goroutine.                        *)
Copying(w) ==
  \/ Start(w) \/ Restore(w) \/ Snap(w)
  \/ RestoreError(w) \/ SnapError(w) \/ Crash(w)

(* Every step but the consumers' keeps the types.                          *)
LEMMA TypeStep ==
  ASSUME TypeOK, UNCHANGED vars \/ RedisLoss \/ \E w \in Workers : Copying(w)
  PROVE  TypeOK'
<1>0. Nothing \in TableType
  BY DEF Nothing, TableType, NoRows
<1>1. CASE UNCHANGED vars
  BY <1>1 DEF vars, TypeOK
<1>2. CASE RedisLoss
  BY <1>0, <1>2 DEF RedisLoss, Fault, TypeOK
<1>3. ASSUME NEW w \in Workers, NEW j \in JobState, job' = [job EXCEPT ![w] = j],
             redis' \in TableType, pg' \in TableType, faults' \in Nat,
             raced' \subseteq Workers
      PROVE  TypeOK'
  <2>1. job' \in [Workers -> JobState]
    BY <1>3, JobSet
  <2> QED
    BY <1>3, <2>1 DEF TypeOK, JobState
<1>4. redis \in TableType /\ pg \in TableType /\ faults \in Nat /\ raced \subseteq Workers
  BY DEF TypeOK
<1>5. \A k : Fault(k) => faults' \in Nat
  BY <1>4 DEF Fault
<1>6. ASSUME NEW w \in Workers, Start(w) \/ RestoreCheck(w) \/ SnapBegin(w)
                                \/ RestoreError(w) \/ Crash(w)
      PROVE  TypeOK'
  <2>1. PICK op \in {"down", "check", "restore", "run", "snap"} :
          job' = [job EXCEPT ![w] = Idle(op)]
    BY <1>6 DEF Start, RestoreCheck, SnapBegin, RestoreError, Crash
  <2>2. UNCHANGED <<redis, pg>> /\ faults' \in Nat /\ raced' \subseteq Workers
    BY <1>4, <1>5, <1>6 DEF Start, RestoreCheck, SnapBegin, RestoreError, Crash
  <2>3. Idle(op) \in JobState
    BY IdleJob
  <2> HIDE DEF Idle
  <2> QED
    BY <1>3, <1>4, <2>1, <2>2, <2>3
<1>7. ASSUME NEW w \in Workers, RestoreRead(w)
      PROVE  TypeOK'
  <2>1. ListAll(Current(w)) \in [Keys -> Nat] /\ {} \in SUBSET Users
    BY CurrentTable DEF ListAll
  <2>2. \E j \in JobState : job' = [job EXCEPT ![w] = j]
    BY <1>7, <2>1, ReadJob DEF RestoreRead
  <2> QED
    BY <1>3, <1>4, <1>7, <2>2 DEF RestoreRead
<1>8. ASSUME NEW w \in Workers, SnapRead(w)
      PROVE  TypeOK'
  <2>1. PICK rows, subs : Read(w, rows, subs) /\ rows \in [Keys -> Nat] /\ subs \in SUBSET Users
    BY <1>8, CurrentTable DEF SnapRead
  <2>2. \E j \in JobState : job' = [job EXCEPT ![w] = j]
    BY <2>1, ReadJob
  <2> QED
    BY <1>3, <1>4, <1>8, <2>2 DEF SnapRead
<1>9. ASSUME NEW w \in Workers, RestoreWrite(w) \/ SnapWrite(w) \/ SnapError(w)
      PROVE  TypeOK'
  <2>1. \E j \in JobState : job' = [job EXCEPT ![w] = j]
    <3>1. Advance(w, "run") \/ job' = [job EXCEPT ![w] = Idle("run")]
      BY <1>9 DEF RestoreWrite, SnapWrite, SnapError
    <3> QED
      BY <3>1, AdvanceJob, IdleJob
  <2>2. /\ Upsert(Current(w), redis[Current(w)], job[w].rows) \in [Keys -> Nat]
        /\ Upsert(Current(w), pg[Current(w)], job[w].rows) \in [Keys -> Nat]
    BY CurrentTable, UpsertRows
  <2>3. redis' \in TableType /\ pg' \in TableType
    BY <1>4, <1>9, <2>2 DEF RestoreWrite, SnapWrite, SnapError, TableType
  <2>4. faults' \in Nat /\ raced' \subseteq Workers
    BY <1>4, <1>5, <1>9 DEF RestoreWrite, SnapWrite, SnapError
  <2> QED
    BY <1>3, <2>1, <2>3, <2>4
<1> QED
  BY <1>1, <1>2, <1>6, <1>7, <1>8, <1>9 DEF Copying, Restore, Snap

(* So are the rows a job has read of them.                                 *)
FlagRows(j) ==
  j.read /\ Tables[j.step] \in {"names", "unlocks"} => \A k \in Keys : j.rows[k] <= 1

TInv == TypeOK /\ Flags(redis) /\ Flags(pg) /\ \A w \in Workers : FlagRows(job[w])

(* Flags stay flags when they are copied.                                  *)
LEMMA FlagsCopied ==
  ASSUME NEW r \in TableType, Flags(r), NEW j \in JobState, j.read, FlagRows(j)
  PROVE  Flags([r EXCEPT ![Tables[j.step]] = Upsert(Tables[j.step], @, j.rows)])
<1> DEFINE t == Tables[j.step]
           n == Upsert(t, r[t], j.rows)
<1>1. /\ t \in TableNames /\ j.rows \in [Keys -> Nat] /\ r[t] \in [Keys -> Nat]
      /\ "names" \in TableNames /\ "unlocks" \in TableNames
  BY TablesByPlace DEF JobState, TableType
<1>2. \A k \in Keys : n[k] = j.rows[k] \/ n[k] = r[t][k]
  BY <1>1, UpsertRows
<1>3. t \in {"names", "unlocks"} => \A k \in Keys : n[k] <= 1
  BY <1>2 DEF Flags, FlagRows
<1> HIDE DEF n, t
<1>4. Flags([r EXCEPT ![t] = n])
  BY <1>1, <1>3 DEF Flags, TableType
<1> QED
  BY <1>4 DEF n, t

(* The first state.                                                        *)
LEMMA InitTypes == Init => TInv
<1> SUFFICES ASSUME Init PROVE TInv
  OBVIOUS
<1>1. Idle("down") \in JobState /\ FlagRows(Idle("down"))
  BY IdleJob DEF Idle, FlagRows
<1>2. Nothing \in TableType /\ Flags(Nothing)
  BY TablesByPlace DEF Nothing, NoRows, TableType, Flags
<1> QED
  BY <1>1, <1>2 DEF Init, TInv, TypeOK, JobState

(* Types and flags are kept.                                               *)
LEMMA StepTypes ==
  ASSUME TInv, [Next]_vars
  PROVE  TInv'
<1>0. TypeOK /\ redis \in TableType /\ pg \in TableType /\ job \in [Workers -> JobState]
  BY DEF TInv, TypeOK, JobState
<1>1. CASE UNCHANGED vars
  BY <1>1 DEF vars, TInv, TypeOK, Flags, FlagRows
<1>2. ASSUME NEW w \in Workers, Play(w) PROVE TInv'
  <2>1. Played(redis, redis') /\ UNCHANGED <<pg, job, faults>> /\ RaceRestores
    BY <1>2, PlayGrows DEF TInv
  <2>2. raced' \subseteq Workers
    BY <2>1 DEF RaceRestores, TInv, TypeOK
  <2> QED
    BY <2>1, <2>2 DEF TInv, TypeOK, Played, Flags, FlagRows
<1>3. CASE RedisLoss
  <2>1. TypeOK'
    BY <1>0, <1>3, TypeStep
  <2>2. Flags(Nothing)
    BY TablesByPlace DEF Nothing, NoRows, Flags
  <2> QED
    BY <1>3, <2>1, <2>2 DEF RedisLoss, TInv, Flags, FlagRows
<1>4. ASSUME NEW w \in Workers, Copying(w) PROVE TInv'
  <2>0. /\ TypeOK' /\ job[w] \in JobState /\ job[w].step \in 1 .. 6 /\ FlagRows(job[w])
        /\ Current(w) = Tables[job[w].step] /\ Current(w) \in TableNames
    BY <1>0, <1>4, TypeStep, CurrentTable DEF TInv, Current
  <2>1. ASSUME NEW j \in JobState, job' = [job EXCEPT ![w] = j], FlagRows(j),
               Flags(redis'), Flags(pg')
        PROVE  TInv'
    <3>1. job'[w] = j /\ \A v \in Workers : v # w => job'[v] = job[v]
      BY <1>0, <2>1, JobSet
    <3>2. \A v \in Workers : FlagRows(job'[v])
      BY <2>1, <3>1 DEF TInv
    <3> QED
      BY <2>0, <2>1, <3>2 DEF TInv, FlagRows
  <2>2. /\ \A op : FlagRows(Idle(op))
        /\ \A op : FlagRows(Next1(job[w], op))
    BY <2>0 DEF FlagRows, Idle, Next1, JobState
  <2>3. CASE Start(w) \/ RestoreCheck(w) \/ SnapBegin(w) \/ RestoreError(w) \/ Crash(w)
    <3>1. PICK op \in {"down", "check", "restore", "run", "snap"} :
            job' = [job EXCEPT ![w] = Idle(op)]
      BY <2>3 DEF Start, RestoreCheck, SnapBegin, RestoreError, Crash
    <3>2. UNCHANGED <<redis, pg>>
      BY <2>3 DEF Start, RestoreCheck, SnapBegin, RestoreError, Crash
    <3>3. Flags(redis') /\ Flags(pg')
      BY <3>2 DEF TInv
    <3> QED
      BY <2>1, <2>2, <3>1, <3>3, IdleJob
  <2>4. CASE RestoreRead(w)
    <3> DEFINE j == [job[w] EXCEPT !.read = TRUE, !.rows = pg[Current(w)], !.subs = {}]
    <3>1. job' = [job EXCEPT ![w] = j] /\ j \in JobState
      BY <1>0, <2>4, CurrentTable, ReadJob DEF RestoreRead, ListAll
    <3>2. FlagRows(j)
      BY <2>0 DEF FlagRows, TInv, Flags, JobState
    <3>3. Flags(redis') /\ Flags(pg')
      BY <2>4 DEF RestoreRead, TInv
    <3> QED
      BY <2>1, <3>1, <3>2, <3>3
  <2>5. CASE SnapRead(w)
    <3>1. PICK rows, subs :
            /\ Read(w, rows, subs) /\ rows \in [Keys -> Nat] /\ subs \in SUBSET Users
            /\ \A k \in Keys : rows[k] = 0 \/ rows[k] = redis[Current(w)][k]
      BY <1>0, <2>5, CurrentTable DEF SnapRead
    <3> DEFINE j == [job[w] EXCEPT !.read = TRUE, !.rows = rows, !.subs = subs]
    <3>2. job' = [job EXCEPT ![w] = j] /\ j \in JobState
      BY <1>0, <3>1, ReadJob
    <3>3. FlagRows(j)
      BY <2>0, <3>1 DEF FlagRows, TInv, Flags, JobState
    <3>4. Flags(redis') /\ Flags(pg')
      BY <2>5 DEF SnapRead, TInv
    <3> QED
      BY <2>1, <3>2, <3>3, <3>4
  <2>6. CASE RestoreWrite(w) \/ SnapWrite(w)
    <3>1. job' = [job EXCEPT ![w] = Next1(job[w], "run")] /\ Next1(job[w], "run") \in JobState
      BY <1>0, <2>6, AdvanceJob DEF RestoreWrite, SnapWrite
    <3>2. Flags(redis') /\ Flags(pg')
      BY <1>0, <2>0, <2>6, FlagsCopied DEF RestoreWrite, SnapWrite, TInv
    <3> QED
      BY <2>1, <2>2, <3>1, <3>2
  <2>7. CASE SnapError(w)
    <3>1. \/ job' = [job EXCEPT ![w] = Next1(job[w], "run")] /\ Next1(job[w], "run") \in JobState
          \/ job' = [job EXCEPT ![w] = Idle("run")] /\ Idle("run") \in JobState
      BY <1>0, <2>7, AdvanceJob, IdleJob DEF SnapError
    <3>2. Flags(redis') /\ Flags(pg')
      BY <2>7 DEF SnapError, TInv
    <3> QED
      BY <2>1, <2>2, <3>1, <3>2
  <2> QED
    BY <1>4, <2>3, <2>4, <2>5, <2>6, <2>7 DEF Copying, Restore, Snap
<1> QED
  BY <1>1, <1>2, <1>3, <1>4 DEF Next, Copying

(* Every variable of the snapshots and restores has its type.              *)
THEOREM SnapshotTypeCorrect == Spec => []TypeOK
<1>1. TInv /\ [Next]_vars => TInv'
  BY StepTypes
<1>2. TInv => TypeOK
  BY DEF TInv
<1> QED
  BY InitTypes, <1>1, <1>2, PTL DEF Spec

-----------------------------------------------------------------------------
(* The backup.                                                             *)

SingleWorker == \A v, w \in Workers : v = w

(* What Redis holds beyond the backup is the counter, or of a user on the  *)
(* board: an empty Redis, by the test of Restore, holds nothing new.       *)
Backed(r, p) ==
  \A t \in TableNames : \A k \in Keys :
    \/ r[t][k] <= p[t][k]
    \/ t = "counter" /\ k = Game
    \/ k \in Users /\ r["board"][k] > 0

(* Before a restore has written anything Redis is ahead, or was lost; while*)
(* it writes Redis is behind, but for the tables that are done; then Redis *)
(* is ahead, and what a snapshot has read lies between the two.            *)
Settled(j) == j.op \in {"down", "check"} \/ (j.op = "restore" /\ j.step = 1)

Refilled(j, r, p) ==
  /\ Covers(p, r)
  /\ \A i \in 1 .. 6 : i < j.step => \A k \in Keys : p[Tables[i]][k] <= r[Tables[i]][k]
  /\ j.read => j.rows = p[Tables[j.step]]

Between(j, r, p) ==
  \A k \in Keys :
    /\ j.rows[k] <= r[Tables[j.step]][k]
    /\ j.rows[k] # 0 => p[Tables[j.step]][k] <= j.rows[k]

Phase(j, r, p) ==
  /\ Settled(j) => Covers(r, p) \/ r = Nothing
  /\ j.op = "restore" => Refilled(j, r, p)
  /\ j.op \in {"run", "snap"} => Covers(r, p)
  /\ j.op = "snap" /\ j.read => Between(j, r, p)

SInv == TInv /\ Backed(redis, pg) /\ \A w \in Workers : Phase(job[w], redis, pg)

(* The one worker's job is all there is to look at.                        *)
LEMMA OneJob ==
  ASSUME SingleWorker, TypeOK, NEW w \in Workers, NEW j \in JobState,
         job' = [job EXCEPT ![w] = j], Phase(j, redis', pg')
  PROVE  \A v \in Workers : Phase(job'[v], redis', pg')
BY JobSet DEF SingleWorker

(* The first state.                                                        *)
LEMMA InitBackup == Init => SInv
<1> SUFFICES ASSUME Init PROVE SInv
  OBVIOUS
<1>1. \A t \in TableNames : \A k \in Keys : Nothing[t][k] = 0
  BY DEF Nothing, NoRows
<1>2. Backed(Nothing, Nothing)
  BY <1>1 DEF Backed
<1>3. Phase(Idle("down"), Nothing, Nothing)
  BY DEF Phase, Settled, Idle
<1> QED
  BY <1>2, <1>3, InitTypes DEF Init, SInv

(* The consumers only add to what is covered.                              *)
LEMMA PlayBackup ==
  ASSUME SingleWorker, SInv, NEW w \in Workers, Play(w)
  PROVE  Backed(redis', pg') /\ (\A v \in Workers : Phase(job'[v], redis', pg')) /\ pg' = pg
<1>1. /\ Played(redis, redis') /\ Consuming(w) /\ UNCHANGED <<pg, job, faults>>
      /\ redis \in TableType /\ pg \in TableType /\ job[w] \in JobState
  BY PlayGrows DEF SInv, TInv, TypeOK, JobState
<1>2. Covers(redis, pg) /\ job[w].op \in {"run", "snap"} /\ Phase(job[w], redis, pg)
  BY <1>1 DEF SInv, Phase, Consuming
<1>3. /\ \A t \in TableNames : \A k \in Keys :
           /\ redis[t][k] \in Nat /\ redis'[t][k] \in Nat /\ pg[t][k] \in Nat
           /\ redis[t][k] <= redis'[t][k] /\ pg[t][k] <= redis[t][k]
      /\ "board" \in TableNames /\ \A u \in Users : u \in Keys
  BY <1>1, <1>2, TablesByPlace DEF Played, Covers, TableType, Keys
<1>4. Backed(redis', pg)
  <2> SUFFICES ASSUME NEW t \in TableNames, NEW k \in Keys
               PROVE  \/ redis'[t][k] <= pg[t][k]
                      \/ t = "counter" /\ k = Game
                      \/ k \in Users /\ redis'["board"][k] > 0
    BY DEF Backed
  <2>1. \/ redis[t][k] <= pg[t][k]
        \/ t = "counter" /\ k = Game
        \/ k \in Users /\ redis["board"][k] > 0
    BY DEF SInv, Backed
  <2>2. \/ redis'[t][k] = redis[t][k]
        \/ t = "counter" /\ k = Game
        \/ k \in Users /\ redis'["board"][k] > 0
    BY <1>1 DEF Played
  <2> QED
    BY <1>3, <2>1, <2>2
<1>5. Covers(redis', pg)
  BY <1>3 DEF Covers
<1>6. Phase(job[w], redis', pg)
  <2>1. ~Settled(job[w]) /\ job[w].op # "restore"
    BY <1>2 DEF Settled
  <2>2. job[w].op = "snap" /\ job[w].read => Between(job[w], redis', pg)
    <3> SUFFICES ASSUME Between(job[w], redis, pg) PROVE Between(job[w], redis', pg)
      BY <1>2 DEF Phase
    <3>1. Tables[job[w].step] \in TableNames /\ \A k \in Keys : job[w].rows[k] \in Nat
      BY <1>1, TablesByPlace DEF JobState
    <3> QED
      BY <1>3, <3>1 DEF Between
  <2> QED
    BY <1>5, <2>1, <2>2 DEF Phase
<1> QED
  BY <1>1, <1>4, <1>6 DEF SingleWorker

(* A restored table is the backup's.                                       *)
LEMMA RestoredTable ==
  ASSUME NEW r \in TableType, NEW p \in TableType, Flags(p), NEW t \in TableNames, Covers(p, r)
  PROVE  Upsert(t, r[t], p[t]) = p[t]
<1>1. /\ r[t] \in [Keys -> Nat] /\ p[t] \in [Keys -> Nat]
      /\ \A k \in Keys : r[t][k] <= p[t][k] /\ r[t][k] \in Nat /\ p[t][k] \in Nat
  BY DEF TableType, Covers
<1>2. t = "unlocks" => \A k \in Keys : p[t][k] <= 1
  BY DEF Flags
<1>3. \A k \in Keys : Upsert(t, r[t], p[t])[k] = p[t][k]
  <2> SUFFICES ASSUME NEW k \in Keys PROVE Upsert(t, r[t], p[t])[k] = p[t][k]
    OBVIOUS
  <2>1. Upsert(t, r[t], p[t])[k] =
          IF t = "unlocks" THEN IF r[t][k] # 0 THEN r[t][k] ELSE p[t][k]
                           ELSE IF p[t][k] # 0 THEN p[t][k] ELSE r[t][k]
    BY <1>1, UpsertRows
  <2>2. r[t][k] # 0 /\ t = "unlocks" => r[t][k] = p[t][k]
    BY <1>1, <1>2
  <2> QED
    BY <1>1, <2>1, <2>2
<1>4. Upsert(t, r[t], p[t]) \in [Keys -> Nat]
  BY <1>1, UpsertRows
<1> QED
  BY <1>1, <1>3, <1>4

(* A table of a snapshot lies between the backup and Redis.                *)
LEMMA SavedTable ==
  ASSUME NEW r \in TableType, NEW p \in TableType, NEW j \in JobState,
         Covers(r, p), Between(j, r, p)
  PROVE  \A k \in Keys :
           /\ p[Tables[j.step]][k] <= Upsert(Tables[j.step], p[Tables[j.step]], j.rows)[k]
           /\ Upsert(Tables[j.step], p[Tables[j.step]], j.rows)[k] <= r[Tables[j.step]][k]
<1> SUFFICES ASSUME NEW k \in Keys
             PROVE  /\ p[Tables[j.step]][k]
                         <= Upsert(Tables[j.step], p[Tables[j.step]], j.rows)[k]
                    /\ Upsert(Tables[j.step], p[Tables[j.step]], j.rows)[k]
                         <= r[Tables[j.step]][k]
  OBVIOUS
<1> DEFINE t == Tables[j.step]
           n == Upsert(t, p[t], j.rows)
<1>1. t \in TableNames /\ j.rows \in [Keys -> Nat]
  BY TablesByPlace DEF JobState
<1>2. /\ p[t] \in [Keys -> Nat] /\ r[t][k] \in Nat /\ p[t][k] \in Nat /\ j.rows[k] \in Nat
      /\ p[t][k] <= r[t][k] /\ j.rows[k] <= r[t][k]
      /\ j.rows[k] # 0 => p[t][k] <= j.rows[k]
  BY <1>1 DEF TableType, Covers, Between
<1>3. n[k] = IF t = "unlocks" THEN IF p[t][k] # 0 THEN p[t][k] ELSE j.rows[k]
                              ELSE IF j.rows[k] # 0 THEN j.rows[k] ELSE p[t][k]
  BY <1>1, <1>2, UpsertRows
<1> HIDE DEF n
<1>4. p[t][k] <= n[k] /\ n[k] <= r[t][k]
  BY <1>2, <1>3
<1> QED
  BY <1>4 DEF n

(* Redis is seen to be empty: it holds no more than the backup.            *)
LEMMA EmptyIsBehind ==
  ASSUME TypeOK, Backed(redis, pg), RedisEmpty
  PROVE  Covers(pg, redis)
<1>1. ASSUME NEW t \in TableNames, NEW k \in Keys
      PROVE  pg[t][k] >= redis[t][k]
  <2>1. redis[t][k] \in Nat /\ pg[t][k] \in Nat /\ Game \in Keys
    BY DEF TypeOK, TableType, Keys
  <2>2. ~(k \in Users /\ redis["board"][k] > 0)
    <3>1. \A u \in Users : redis["board"][u] = 0
      BY DEF RedisEmpty
    <3> QED
      BY <3>1
  <2>3. CASE t = "counter" /\ k = Game
    BY <2>1, <2>3 DEF RedisEmpty
  <2>4. CASE redis[t][k] <= pg[t][k]
    BY <2>1, <2>4
  <2> QED
    BY <2>2, <2>3, <2>4 DEF Backed
<1> QED
  BY <1>1 DEF Covers

(* A table is read and written back; the other tables stay.                *)
LEMMA RestoreWriteBackup ==
  ASSUME SingleWorker, SInv, NEW w \in Workers, RestoreWrite(w)
  PROVE  /\ Backed(redis', pg') /\ \A v \in Workers : Phase(job'[v], redis', pg')
         /\ pg' = pg /\ Covers(redis', redis)
<1>0. /\ redis \in TableType /\ pg \in TableType /\ job[w] \in JobState /\ Flags(pg)
      /\ TypeOK /\ job[w].op = "restore" /\ job[w].read
      /\ Current(w) \in TableNames /\ job[w].step \in 1 .. 6 /\ pg' = pg
      /\ Current(w) = Tables[job[w].step]
  BY CurrentTable DEF SInv, TInv, TypeOK, RestoreWrite, Doing, Current
<1>1. Covers(pg, redis) /\ Refilled(job[w], redis, pg) /\ job[w].rows = pg[Current(w)]
  BY <1>0 DEF SInv, Phase, Refilled
<1>2. redis' = [redis EXCEPT ![Current(w)] = pg[Current(w)]]
  <2>1. Upsert(Current(w), redis[Current(w)], pg[Current(w)]) = pg[Current(w)]
    BY <1>0, <1>1, RestoredTable
  <2> QED
    BY <1>1, <2>1 DEF RestoreWrite
<1>3. /\ redis'[Current(w)] = pg[Current(w)]
      /\ \A t \in TableNames : t # Current(w) => redis'[t] = redis[t]
  BY <1>0, <1>2 DEF TableType
<1>4. \A t \in TableNames : \A k \in Keys :
        /\ redis[t][k] \in Nat /\ pg[t][k] \in Nat
        /\ redis'[t][k] \in Nat
        /\ redis[t][k] <= pg[t][k]
        /\ redis[t][k] <= redis'[t][k] /\ redis'[t][k] <= pg[t][k]
  <2>1. \A t \in TableNames : \A k \in Keys :
          redis[t][k] \in Nat /\ pg[t][k] \in Nat /\ redis[t][k] <= pg[t][k]
    BY <1>0, <1>1 DEF TableType, Covers
  <2>2. \A t \in TableNames : redis'[t] = redis[t] \/ redis'[t] = pg[t]
    BY <1>3
  <2> QED
    BY <2>1, <2>2
<1>5. Covers(redis', redis) /\ Covers(pg, redis') /\ Backed(redis', pg)
  BY <1>4 DEF Covers, Backed
<1>6. \A i \in 1 .. 6 : i < job[w].step + 1 =>
        \A k \in Keys : pg[Tables[i]][k] <= redis'[Tables[i]][k]
  <2> SUFFICES ASSUME NEW i \in 1 .. 6, i < job[w].step + 1, NEW k \in Keys
               PROVE  pg[Tables[i]][k] <= redis'[Tables[i]][k]
    OBVIOUS
  <2>1. Tables[i] \in TableNames
    BY TablesByPlace
  <2>2. CASE i = job[w].step
    BY <1>0, <1>3, <1>4, <2>1, <2>2
  <2>3. CASE i # job[w].step
    <3>1. i < job[w].step
      BY <1>0, <2>3
    <3>2. pg[Tables[i]][k] <= redis[Tables[i]][k]
      BY <1>1, <3>1 DEF Refilled
    <3> QED
      BY <1>4, <2>1, <3>2
  <2> QED
    BY <2>2, <2>3
<1>7. job' = [job EXCEPT ![w] = Next1(job[w], "run")] /\ Next1(job[w], "run") \in JobState
  BY <1>0, AdvanceJob DEF RestoreWrite
<1>8. Phase(Next1(job[w], "run"), redis', pg)
  <2>1. CASE job[w].step = 6
    <3>1. \A i \in 1 .. 6 : i < job[w].step + 1
      BY <2>1
    <3>2. Covers(redis', pg)
      <4> SUFFICES ASSUME NEW t \in TableNames, NEW k \in Keys PROVE redis'[t][k] >= pg[t][k]
        BY DEF Covers
      <4>1. PICK i \in 1 .. 6 : Tables[i] = t
        BY TablesByPlace
      <4>2. pg[t][k] <= redis'[t][k]
        BY <1>6, <3>1, <4>1
      <4> QED
        BY <1>4, <4>2
    <3>3. Next1(job[w], "run") = Idle("run")
      BY <2>1 DEF Next1
    <3> QED
      BY <3>2, <3>3 DEF Phase, Settled, Idle
  <2>2. CASE job[w].step # 6
    <3> DEFINE j == [job[w] EXCEPT !.step = @ + 1, !.read = FALSE, !.rows = NoRows]
    <3>1. Next1(job[w], "run") = j
      BY <2>2 DEF Next1
    <3>2. j.op = "restore" /\ j.step = job[w].step + 1 /\ j.read = FALSE
      BY <1>0 DEF JobState
    <3>3. j.step # 1
      BY <1>0, <3>2
    <3> HIDE DEF j
    <3>4. Refilled(j, redis', pg)
      BY <1>5, <1>6, <3>2 DEF Refilled
    <3> QED
      BY <3>1, <3>2, <3>3, <3>4 DEF Phase, Settled
  <2> QED
    BY <2>1, <2>2
<1> QED
  BY <1>0, <1>5, <1>7, <1>8, OneJob

(* A table that was read is written to the backup.                         *)
LEMMA SnapWriteBackup ==
  ASSUME SingleWorker, SInv, NEW w \in Workers, SnapWrite(w)
  PROVE  /\ Backed(redis', pg') /\ \A v \in Workers : Phase(job'[v], redis', pg')
         /\ redis' = redis /\ Covers(pg', pg)
<1> DEFINE n == Upsert(Current(w), pg[Current(w)], job[w].rows)
<1>0. /\ redis \in TableType /\ pg \in TableType /\ job[w] \in JobState
      /\ TypeOK /\ job[w].op = "snap" /\ job[w].read
      /\ Current(w) \in TableNames /\ redis' = redis
      /\ Current(w) = Tables[job[w].step]
  BY CurrentTable DEF SInv, TInv, TypeOK, JobState, SnapWrite, Doing, Current
<1>1. Covers(redis, pg) /\ Between(job[w], redis, pg)
  BY <1>0 DEF SInv, Phase
<1>2. pg' = [pg EXCEPT ![Current(w)] = n] /\ n \in [Keys -> Nat]
  <2>1. pg[Current(w)] \in [Keys -> Nat] /\ job[w].rows \in [Keys -> Nat]
    BY <1>0, CurrentTable
  <2>2. n \in [Keys -> Nat]
    BY <2>1, UpsertRows
  <2> QED
    BY <2>2 DEF SnapWrite
<1>3. \A k \in Keys : pg[Current(w)][k] <= n[k] /\ n[k] <= redis[Current(w)][k]
  BY <1>0, <1>1, SavedTable
<1> HIDE DEF n
<1>4. pg'[Current(w)] = n /\ \A t \in TableNames : t # Current(w) => pg'[t] = pg[t]
  BY <1>0, <1>2 DEF TableType
<1>5. \A t \in TableNames : \A k \in Keys :
        /\ redis[t][k] \in Nat /\ pg[t][k] \in Nat /\ pg'[t][k] \in Nat
        /\ pg[t][k] <= pg'[t][k] /\ pg'[t][k] <= redis[t][k]
  <2>1. \A t \in TableNames : \A k \in Keys :
          redis[t][k] \in Nat /\ pg[t][k] \in Nat /\ pg[t][k] <= redis[t][k]
    BY <1>0, <1>1 DEF TableType, Covers
  <2>2. \A t \in TableNames : \A k \in Keys :
          pg'[t][k] \in Nat /\ pg[t][k] <= pg'[t][k] /\ pg'[t][k] <= redis[t][k]
    BY <1>0, <1>2, <1>3, <1>4, <2>1
  <2> QED
    BY <2>1, <2>2
<1>6. Covers(pg', pg) /\ Covers(redis, pg')
  BY <1>5 DEF Covers
<1>7. Backed(redis, pg')
  <2> SUFFICES ASSUME NEW t \in TableNames, NEW k \in Keys
               PROVE  \/ redis[t][k] <= pg'[t][k]
                      \/ t = "counter" /\ k = Game
                      \/ k \in Users /\ redis["board"][k] > 0
    BY DEF Backed
  <2>1. \/ redis[t][k] <= pg[t][k]
        \/ t = "counter" /\ k = Game
        \/ k \in Users /\ redis["board"][k] > 0
    BY DEF SInv, Backed
  <2> QED
    BY <1>5, <2>1
<1>8. job' = [job EXCEPT ![w] = Next1(job[w], "run")] /\ Next1(job[w], "run") \in JobState
  BY <1>0, AdvanceJob DEF SnapWrite
<1>9. Next1(job[w], "run").op \in {"run", "snap"} /\ Next1(job[w], "run").read = FALSE
  BY <1>0 DEF Next1, Idle, JobState
<1>10. Phase(Next1(job[w], "run"), redis, pg')
  BY <1>6, <1>9 DEF Phase, Settled
<1> QED
  BY <1>0, <1>6, <1>7, <1>8, <1>10, OneJob

(* The other steps of a worker change its job alone.                       *)
LEMMA JobBackup ==
  ASSUME SingleWorker, "halfway" \notin FaultKinds, SInv, NEW w \in Workers,
         Copying(w), ~RestoreWrite(w), ~SnapWrite(w)
  PROVE  UNCHANGED <<redis, pg>> /\ \A v \in Workers : Phase(job'[v], redis', pg')
<1>0. /\ TypeOK /\ job[w] \in JobState /\ redis \in TableType /\ pg \in TableType
      /\ Phase(job[w], redis, pg) /\ Current(w) = Tables[job[w].step]
      /\ Current(w) \in TableNames
  BY CurrentTable DEF SInv, TInv, TypeOK, JobState, Current
<1>1. UNCHANGED <<redis, pg>>
  BY DEF Copying, Restore, Snap, Start, RestoreCheck, RestoreRead, SnapBegin, SnapRead,
         RestoreError, SnapError, Crash
<1> SUFFICES \A v \in Workers : Phase(job'[v], redis', pg')
  BY <1>1
<1>2. ASSUME NEW j \in JobState, job' = [job EXCEPT ![w] = j], Phase(j, redis, pg)
      PROVE  \A v \in Workers : Phase(job'[v], redis', pg')
  BY <1>0, <1>1, <1>2, OneJob
<1>3. /\ Covers(redis, pg) \/ redis = Nothing =>
           Phase(Idle("down"), redis, pg) /\ Phase(Idle("check"), redis, pg)
      /\ Covers(redis, pg) => Phase(Idle("run"), redis, pg) /\ Phase(Idle("snap"), redis, pg)
  BY DEF Phase, Settled, Idle
<1>4. CASE Start(w)
  BY <1>0, <1>2, <1>3, <1>4, IdleJob DEF Start, Doing, Phase, Settled
<1>5. CASE RestoreCheck(w)
  <2>1. job[w].op = "check" /\ (Covers(redis, pg) \/ redis = Nothing)
    BY <1>0, <1>5 DEF RestoreCheck, Doing, Phase, Settled
  <2>2. CASE RedisEmpty
    <3>1. Covers(pg, redis)
      BY <1>0, <2>2, EmptyIsBehind DEF SInv
    <3>2. Phase(Idle("restore"), redis, pg)
      <4>1. Refilled(Idle("restore"), redis, pg)
        BY <3>1 DEF Refilled, Idle
      <4> QED
        BY <2>1, <4>1 DEF Phase, Settled, Idle
    <3> QED
      BY <1>2, <1>5, <2>2, <3>2, IdleJob DEF RestoreCheck
  <2>3. CASE ~RedisEmpty
    <3>1. redis # Nothing
      BY <2>3, TablesByPlace DEF RedisEmpty, Nothing, NoRows, Keys
    <3> QED
      BY <1>2, <1>3, <1>5, <2>1, <2>3, <3>1, IdleJob DEF RestoreCheck
  <2> QED
    BY <2>2, <2>3
<1>6. CASE RestoreRead(w)
  <2> DEFINE j == [job[w] EXCEPT !.read = TRUE, !.rows = pg[Current(w)], !.subs = {}]
  <2>1. job' = [job EXCEPT ![w] = j] /\ j \in JobState
    BY <1>0, <1>6, CurrentTable, ReadJob DEF RestoreRead, ListAll
  <2>2. j.op = "restore" /\ j.step = job[w].step /\ j.rows = pg[Tables[j.step]]
    BY <1>0, <1>6 DEF RestoreRead, Doing, JobState
  <2> HIDE DEF j
  <2>3. job[w].op = "restore"
    BY <1>6 DEF RestoreRead, Doing
  <2>4. Refilled(j, redis, pg)
    BY <1>0, <2>2, <2>3 DEF Phase, Refilled
  <2>5. Settled(j) => Settled(job[w])
    BY <2>2, <2>3 DEF Settled
  <2>6. Phase(j, redis, pg)
    BY <1>0, <2>2, <2>4, <2>5 DEF Phase
  <2> QED
    BY <1>2, <2>1, <2>6
<1>7. CASE RestoreError(w) \/ Crash(w)
  <2>1. job' = [job EXCEPT ![w] = Idle("down")]
    BY <1>7 DEF RestoreError, Crash
  <2>2. ~Halfway(w)
    BY <1>7 DEF RestoreError, Crash, Fault
  <2>3. job[w].op = "restore" => Settled(job[w])
    BY <1>0, <2>2, TablesByPlace DEF Halfway, Doing, Settled, JobState
  <2>4. Covers(redis, pg) \/ redis = Nothing
    BY <1>0, <2>3 DEF Phase, Settled, JobState
  <2> QED
    BY <1>2, <1>3, <2>1, <2>4, IdleJob
<1>8. CASE SnapBegin(w)
  BY <1>0, <1>2, <1>3, <1>8, IdleJob DEF SnapBegin, Doing, Phase
<1>9. CASE SnapRead(w)
  <2>1. PICK rows, subs :
          /\ Read(w, rows, subs) /\ rows \in [Keys -> Nat] /\ subs \in SUBSET Users
          /\ \A k \in Keys : rows[k] = 0 \/ rows[k] = redis[Current(w)][k]
    BY <1>0, <1>9, CurrentTable DEF SnapRead
  <2> DEFINE j == [job[w] EXCEPT !.read = TRUE, !.rows = rows, !.subs = subs]
  <2>2. job' = [job EXCEPT ![w] = j] /\ j \in JobState
    BY <1>0, <2>1, ReadJob
  <2>3. j.op = "snap" /\ j.step = job[w].step /\ j.rows = rows
    BY <1>0, <1>9 DEF SnapRead, Doing, JobState
  <2>4. Covers(redis, pg)
    BY <1>0, <1>9 DEF SnapRead, Doing, Phase
  <2> HIDE DEF j
  <2>5. Between(j, redis, pg)
    <3>1. \A k \in Keys : redis[Current(w)][k] \in Nat /\ pg[Current(w)][k] <= redis[Current(w)][k]
      BY <1>0, <2>4 DEF Covers, TableType
    <3> QED
      BY <1>0, <2>1, <2>3, <3>1 DEF Between
  <2>6. Phase(j, redis, pg)
    BY <2>3, <2>4, <2>5 DEF Phase, Settled
  <2> QED
    BY <1>2, <2>2, <2>6
<1>10. CASE SnapError(w)
  <2>1. \/ job' = [job EXCEPT ![w] = Next1(job[w], "run")] /\ Next1(job[w], "run") \in JobState
        \/ job' = [job EXCEPT ![w] = Idle("run")] /\ Idle("run") \in JobState
    BY <1>0, <1>10, AdvanceJob, IdleJob DEF SnapError
  <2>2. Covers(redis, pg) /\ job[w].op = "snap"
    BY <1>0, <1>10 DEF SnapError, Doing, Phase
  <2>3. Next1(job[w], "run").op \in {"run", "snap"} /\ Next1(job[w], "run").read = FALSE
    BY <1>0, <2>2 DEF Next1, Idle, JobState
  <2>4. Phase(Next1(job[w], "run"), redis, pg)
    BY <2>2, <2>3 DEF Phase, Settled
  <2> QED
    BY <1>2, <1>3, <2>1, <2>2, <2>4
<1> QED
  BY <1>1, <1>4, <1>5, <1>6, <1>7, <1>8, <1>9, <1>10 DEF Copying, Restore, Snap

(* Every step keeps the invariant, and what a step may not do it does not. *)
LEMMA StepBackup ==
  ASSUME SingleWorker, "halfway" \notin FaultKinds, "loss" \notin FaultKinds,
         SInv, [Next]_vars
  PROVE  SInv' /\ Covers(pg', pg)
<1>0. TInv' /\ pg \in TableType /\ redis \in TableType
  BY StepTypes DEF SInv, TInv, TypeOK
<1>1. Covers(pg, pg)
  BY <1>0 DEF Covers, TableType
<1>2. CASE UNCHANGED vars
  BY <1>0, <1>1, <1>2 DEF vars, SInv
<1>3. ASSUME NEW w \in Workers, Play(w) PROVE SInv' /\ Covers(pg', pg)
  BY <1>0, <1>1, <1>3, PlayBackup DEF SInv
<1>4. ASSUME NEW w \in Workers, Copying(w) PROVE SInv' /\ Covers(pg', pg)
  <2>1. CASE RestoreWrite(w)
    BY <1>0, <1>1, <2>1, RestoreWriteBackup DEF SInv
  <2>2. CASE SnapWrite(w)
    BY <1>0, <2>2, SnapWriteBackup DEF SInv
  <2>3. CASE ~RestoreWrite(w) /\ ~SnapWrite(w)
    BY <1>0, <1>1, <1>4, <2>3, JobBackup DEF SInv
  <2> QED
    BY <2>1, <2>2, <2>3
<1>5. CASE RedisLoss
  <2>1. \A w \in Workers : job[w].op = "down"
    BY <1>5 DEF RedisLoss, Fault, Doing
  <2>2. redis' = Nothing /\ UNCHANGED <<pg, job>>
    BY <1>5 DEF RedisLoss
  <2>3. Backed(Nothing, pg)
    BY <1>0 DEF Backed, Nothing, NoRows, TableType
  <2>4. \A w \in Workers : Phase(job[w], Nothing, pg)
    BY <2>1 DEF Phase, Settled
  <2> QED
    BY <1>0, <1>1, <2>2, <2>3, <2>4 DEF SInv
<1> QED
  BY <1>2, <1>3, <1>4, <1>5 DEF Next, Copying

(* snapshot.go:1-4.  The invariant, and with it that once consumers run    *)
(* Redis holds everything the backup holds, when Redis is lost only while  *)
(* the worker is down and a restore that began to write is not cut off.    *)
THEOREM BackupIsRestored ==
  ASSUME SingleWorker, "halfway" \notin FaultKinds, "loss" \notin FaultKinds
  PROVE  Spec => []AheadOfBackup
<1>1. SInv /\ [Next]_vars => SInv'
  BY StepBackup
<1>2. SInv => AheadOfBackup
  BY DEF SInv, AheadOfBackup, Consuming, Phase
<1> QED
  BY <1>1, <1>2, InitBackup, PTL DEF Spec

(* Under the same conditions no snapshot overwrites what the backup holds  *)
(* with less, although it reads a table, waits, and writes it.             *)
THEOREM BackupOnlyGrows ==
  ASSUME SingleWorker, "halfway" \notin FaultKinds, "loss" \notin FaultKinds
  PROVE  Spec => BackupNeverShrinks
<1>1. SInv /\ [Next]_vars => SInv'
  BY StepBackup
<1>2. SInv /\ [Next]_vars => [Covers(pg', pg)]_vars
  BY StepBackup
<1> QED
  BY <1>1, <1>2, InitBackup, PTL DEF Spec, BackupNeverShrinks

-----------------------------------------------------------------------------
(* Restores that nobody counts behind.                                     *)

(* Rows taken from the backup, or not there.                               *)
Copied(rows, backup) == \A k \in Keys : rows[k] = 0 \/ rows[k] = backup[k]

(* What a job has read, to put it back or to save it, is in the backup.    *)
CopiedRows(j, p) ==
  j.read => /\ j.op = "restore" => j.rows = p[Tables[j.step]]
            /\ j.op = "snap" => Copied(j.rows, p[Tables[j.step]])

(* Nothing was counted since Redis was lost, or since a restore looked.    *)
Quiet == RedisEmpty \/ \E w \in Workers : Doing(w, "restore") /\ w \notin raced

(* In the quiet Redis holds rows of the backup and no other, and so does   *)
(* every copy under way.                                                   *)
QInv ==
  Quiet => /\ \A t \in TableNames : Copied(redis[t], pg[t])
           /\ \A w \in Workers : CopiedRows(job[w], pg)

(* A consumer's step ends the quiet.                                       *)
LEMMA PlayIsHeard ==
  ASSUME TInv, NEW w \in Workers, Play(w)
  PROVE  ~Quiet'
<1>1. RaceRestores /\ job' = job /\ redis' \in TableType /\ Covers(redis', redis)
  BY PlayGrows DEF TInv, Played
<1>2. \A v \in Workers : Doing(v, "restore")' => v \in raced'
  BY <1>1 DEF RaceRestores, Doing
<1>3. /\ redis \in TableType /\ Game \in Keys /\ \A u \in Users : u \in Keys
      /\ {"counter", "board", "week", "names"} \subseteq TableNames
  BY TablesByPlace DEF TInv, TypeOK, Keys
<1>4. ~RedisEmpty'
  <2>1. CASE Count(w)
    <3>1. redis["counter"][Game] \in Nat
      BY <1>3 DEF TableType
    <3>2. redis'["counter"][Game] = redis["counter"][Game] + 1
      BY <1>3, <2>1 DEF Count, Grow, TableType
    <3> QED
      BY <3>1, <3>2 DEF RedisEmpty
  <2>2. ASSUME NEW u \in Users, Progress(w, u)
        PROVE  ~RedisEmpty'
    <3>1. redis["board"][u] \in Nat
      BY <1>3 DEF TableType
    <3>2. redis'["board"][u] = redis["board"][u] + 1
      BY <1>3, <2>2 DEF Progress, TableType
    <3> QED
      BY <3>1, <3>2 DEF RedisEmpty
  <2>3. ASSUME NEW u \in Users, Unlock(w, u) \/ Streak(w, u)
        PROVE  ~RedisEmpty'
    <3>1. redis["board"][u] > 0
      BY <2>3 DEF Unlock, Streak
    <3>2. redis'["board"][u] >= redis["board"][u] /\ redis'["board"][u] \in Nat
      BY <1>1, <1>3 DEF Covers, TableType
    <3>3. redis["board"][u] \in Nat
      BY <1>3 DEF TableType
    <3> QED
      BY <3>1, <3>2, <3>3 DEF RedisEmpty
  <2> QED
    BY <2>1, <2>2, <2>3 DEF Play
<1> QED
  BY <1>2, <1>4 DEF Quiet

(* The worker that does not consume brings no quiet about.                 *)
LEMMA QuietIsOld ==
  ASSUME TypeOK, NEW w \in Workers, NEW j \in JobState, job' = [job EXCEPT ![w] = j],
         RedisEmpty' => RedisEmpty,
         \/ raced' = raced /\ (j.op = "restore" => job[w].op = "restore")
         \/ raced' = raced \ {w} /\ (j.op = "restore" => RedisEmpty),
         Quiet'
  PROVE  Quiet
<1>1. job'[w] = j /\ \A v \in Workers : v # w => job'[v] = job[v]
  BY JobSet
<1> QED
  BY <1>1 DEF Quiet, Doing

(* A job that has read nothing, and one that has just been advanced.       *)
LEMMA UnreadJob ==
  ASSUME NEW j \in JobState, NEW p, NEW op
  PROVE  /\ CopiedRows(Idle(op), p) /\ CopiedRows(Next1(j, op), p)
         /\ Next1(j, op).op \in {op, j.op} /\ Idle(op).op = op
BY DEF CopiedRows, Idle, Next1, JobState

(* The jobs after a step of w.                                             *)
LEMMA QuietJobs ==
  ASSUME TypeOK, QInv, NEW w \in Workers, NEW j \in JobState, job' = [job EXCEPT ![w] = j],
         pg' = pg, Quiet, CopiedRows(j, pg)
  PROVE  \A v \in Workers : CopiedRows(job'[v], pg')
<1>1. job'[w] = j /\ \A v \in Workers : v # w => job'[v] = job[v]
  BY JobSet
<1> QED
  BY <1>1 DEF QInv

(* A table is put back: Redis takes rows of the backup and loses none.     *)
LEMMA QuietWrite ==
  ASSUME TInv, QInv, NEW w \in Workers, RestoreWrite(w)
  PROVE  /\ QInv'
         /\ Quiet => Covers(redis', redis)
<1>0. /\ TypeOK /\ redis \in TableType /\ pg \in TableType /\ job[w] \in JobState
      /\ job[w].op = "restore" /\ job[w].read /\ pg' = pg /\ raced' = raced
      /\ Current(w) \in TableNames /\ job[w].rows \in [Keys -> Nat]
      /\ Current(w) = Tables[job[w].step] /\ redis[Current(w)] \in [Keys -> Nat]
  BY CurrentTable DEF TInv, TypeOK, RestoreWrite, Doing, Current
<1> DEFINE n == Upsert(Current(w), redis[Current(w)], job[w].rows)
<1>1. /\ n \in [Keys -> Nat]
      /\ \A k \in Keys : n[k] = 0 => redis[Current(w)][k] = 0
      /\ \A k \in Keys : n[k] = redis[Current(w)][k] \/ n[k] = job[w].rows[k]
  BY <1>0, UpsertRows
<1>2. redis' = [redis EXCEPT ![Current(w)] = n]
  BY DEF RestoreWrite
<1> HIDE DEF n
<1>3. redis'[Current(w)] = n /\ \A t \in TableNames : t # Current(w) => redis'[t] = redis[t]
  BY <1>0, <1>2 DEF TableType
<1>4. RedisEmpty' => RedisEmpty
  <2>1. \A t \in TableNames : \A k \in Keys : redis'[t][k] = 0 => redis[t][k] = 0
    BY <1>1, <1>3
  <2> QED
    BY <2>1, TablesByPlace DEF RedisEmpty, Keys
<1>5. job' = [job EXCEPT ![w] = Next1(job[w], "run")] /\ Next1(job[w], "run") \in JobState
  BY <1>0, AdvanceJob DEF RestoreWrite
<1>6. Next1(job[w], "run").op = "restore" => job[w].op = "restore"
  BY <1>0
<1>7. Quiet' => Quiet
  BY <1>0, <1>4, <1>5, <1>6, QuietIsOld
<1>8. ASSUME Quiet PROVE QInv' /\ Covers(redis', redis)
  <2>1. job[w].rows = pg[Current(w)] /\ \A t \in TableNames : Copied(redis[t], pg[t])
    BY <1>0, <1>8 DEF QInv, CopiedRows
  <2>2. \A t \in TableNames : Copied(redis'[t], pg'[t])
    BY <1>0, <1>1, <1>3, <2>1 DEF Copied
  <2>3. \A v \in Workers : CopiedRows(job'[v], pg')
    BY <1>0, <1>5, <1>8, QuietJobs, UnreadJob
  <2>4. \A k \in Keys : redis'[Current(w)][k] >= redis[Current(w)][k]
    <3> SUFFICES ASSUME NEW k \in Keys PROVE n[k] >= redis[Current(w)][k]
      BY <1>3
    <3>1. redis[Current(w)][k] \in Nat /\ pg[Current(w)][k] \in Nat /\ n[k] \in Nat
      BY <1>0, <1>1 DEF TableType
    <3>2. redis[Current(w)][k] = 0 \/ redis[Current(w)][k] = pg[Current(w)][k]
      BY <1>0, <2>1 DEF Copied
    <3>3. n[k] = redis[Current(w)][k] \/ n[k] = pg[Current(w)][k]
      BY <1>1, <2>1
    <3> QED
      BY <3>1, <3>2, <3>3
  <2>5. Covers(redis', redis)
    BY <1>0, <1>3, <2>4 DEF Covers, TableType
  <2> QED
    BY <2>2, <2>3, <2>5 DEF QInv
<1> QED
  BY <1>7, <1>8 DEF QInv

(* A table is saved: the backup has these rows already.                    *)
LEMMA QuietSave ==
  ASSUME TInv, QInv, NEW w \in Workers, SnapWrite(w)
  PROVE  QInv'
<1>0. /\ TypeOK /\ redis \in TableType /\ pg \in TableType /\ job[w] \in JobState
      /\ job[w].op = "snap" /\ job[w].read /\ redis' = redis /\ raced' = raced
      /\ Current(w) \in TableNames /\ job[w].rows \in [Keys -> Nat]
      /\ Current(w) = Tables[job[w].step] /\ pg[Current(w)] \in [Keys -> Nat]
  BY CurrentTable DEF TInv, TypeOK, SnapWrite, Doing, Current
<1>1. job' = [job EXCEPT ![w] = Next1(job[w], "run")] /\ Next1(job[w], "run") \in JobState
  BY <1>0, AdvanceJob DEF SnapWrite
<1>2. Next1(job[w], "run").op # "restore"
  BY <1>0, UnreadJob
<1>3. RedisEmpty' => RedisEmpty
  BY <1>0 DEF RedisEmpty
<1>4. Quiet' => Quiet
  BY <1>0, <1>1, <1>2, <1>3, QuietIsOld
<1>5. ASSUME Quiet PROVE QInv'
  <2> DEFINE n == Upsert(Current(w), pg[Current(w)], job[w].rows)
  <2>1. Copied(job[w].rows, pg[Current(w)]) /\ \A t \in TableNames : Copied(redis[t], pg[t])
    BY <1>0, <1>5 DEF QInv, CopiedRows
  <2>2. n = pg[Current(w)]
    <3> DEFINE old == pg[Current(w)]
               rows == job[w].rows
    <3>1. /\ old \in [Keys -> Nat] /\ rows \in [Keys -> Nat]
          /\ \A k \in Keys : rows[k] = 0 \/ rows[k] = old[k]
      BY <1>0, <2>1 DEF Copied
    <3> HIDE DEF old, rows
    <3>2. /\ Upsert(Current(w), old, rows) \in [Keys -> Nat]
          /\ \A k \in Keys :
               \/ Upsert(Current(w), old, rows)[k] = old[k]
               \/ Upsert(Current(w), old, rows)[k] = rows[k] /\ rows[k] # 0
      BY <3>1, UpsertRows
    <3>3. Upsert(Current(w), old, rows) = old
      BY <3>1, <3>2
    <3> QED
      BY <3>3 DEF old, rows
  <2>3. pg' = [pg EXCEPT ![Current(w)] = n]
    BY DEF SnapWrite
  <2> HIDE DEF n
  <2>4. pg' = pg
    BY <1>0, <2>2, <2>3 DEF TableType
  <2>5. \A v \in Workers : CopiedRows(job'[v], pg')
    BY <1>0, <1>1, <1>5, <2>4, QuietJobs, UnreadJob
  <2> QED
    BY <1>0, <2>1, <2>4, <2>5 DEF QInv
<1> QED
  BY <1>4, <1>5 DEF QInv

(* The other steps of a worker.                                            *)
LEMMA QuietCopying ==
  ASSUME TInv, QInv, NEW w \in Workers, Copying(w), ~RestoreWrite(w), ~SnapWrite(w)
  PROVE  QInv'
<1>0. /\ TypeOK /\ job[w] \in JobState /\ redis \in TableType /\ pg \in TableType
      /\ Current(w) = Tables[job[w].step] /\ Current(w) \in TableNames
  BY CurrentTable DEF TInv, TypeOK, JobState, Current
<1>1. UNCHANGED <<redis, pg>>
  BY DEF Copying, Restore, Snap, Start, RestoreCheck, RestoreRead, SnapBegin, SnapRead,
         RestoreError, SnapError, Crash
<1>2. RedisEmpty' => RedisEmpty
  BY <1>1 DEF RedisEmpty
<1>3. ASSUME NEW j \in JobState, job' = [job EXCEPT ![w] = j],
             \/ raced' = raced /\ (j.op = "restore" => job[w].op = "restore")
             \/ raced' = raced \ {w} /\ (j.op = "restore" => RedisEmpty),
             Quiet => CopiedRows(j, pg)
      PROVE  QInv'
  <2>1. Quiet' => Quiet
    BY <1>0, <1>2, <1>3, QuietIsOld
  <2>2. Quiet => \A v \in Workers : CopiedRows(job'[v], pg')
    BY <1>0, <1>1, <1>3, QuietJobs
  <2> QED
    BY <1>1, <2>1, <2>2 DEF QInv
<1>4. ASSUME NEW op \in {"down", "check", "run", "snap"}, raced' = raced,
             job' = [job EXCEPT ![w] = Idle(op)]
      PROVE  QInv'
  <2>1. Idle(op) \in JobState /\ Idle(op).op = op /\ CopiedRows(Idle(op), pg)
    BY <1>0, IdleJob, UnreadJob
  <2> HIDE DEF Idle
  <2> QED
    BY <1>3, <1>4, <2>1
<1>5. CASE Start(w) \/ SnapBegin(w) \/ RestoreError(w) \/ Crash(w)
  <2>1. raced' = raced
    BY <1>5 DEF Start, SnapBegin, RestoreError, Crash
  <2>2. \E op \in {"down", "check", "run", "snap"} : job' = [job EXCEPT ![w] = Idle(op)]
    BY <1>5 DEF Start, SnapBegin, RestoreError, Crash
  <2> QED
    BY <1>4, <2>1, <2>2
<1>6. CASE RestoreCheck(w)
  <2>1. raced' = raced \ {w}
    BY <1>6 DEF RestoreCheck
  <2>2. PICK op \in {"run", "restore"} :
          job' = [job EXCEPT ![w] = Idle(op)] /\ (op = "restore" => RedisEmpty)
    BY <1>6 DEF RestoreCheck
  <2>3. Idle(op) \in JobState /\ Idle(op).op = op /\ CopiedRows(Idle(op), pg)
    BY <1>0, IdleJob, UnreadJob
  <2> HIDE DEF Idle
  <2> QED
    BY <1>3, <2>1, <2>2, <2>3
<1>7. CASE RestoreRead(w)
  <2> DEFINE j == [job[w] EXCEPT !.read = TRUE, !.rows = pg[Current(w)], !.subs = {}]
  <2>1. job' = [job EXCEPT ![w] = j] /\ j \in JobState
    BY <1>0, <1>7, CurrentTable, ReadJob DEF RestoreRead, ListAll
  <2>2. j.op = "restore" /\ j.step = job[w].step /\ j.rows = pg[Tables[j.step]]
    BY <1>0, <1>7 DEF RestoreRead, Doing, JobState
  <2>3. raced' = raced /\ job[w].op = "restore"
    BY <1>7 DEF RestoreRead, Doing
  <2> HIDE DEF j
  <2>4. CopiedRows(j, pg)
    BY <2>2 DEF CopiedRows
  <2> QED
    BY <1>3, <2>1, <2>3, <2>4
<1>8. CASE SnapRead(w)
  <2>1. PICK rows, subs :
          /\ Read(w, rows, subs) /\ rows \in [Keys -> Nat] /\ subs \in SUBSET Users
          /\ \A k \in Keys : rows[k] = 0 \/ rows[k] = redis[Current(w)][k]
    BY <1>0, <1>8, CurrentTable DEF SnapRead
  <2> DEFINE j == [job[w] EXCEPT !.read = TRUE, !.rows = rows, !.subs = subs]
  <2>2. job' = [job EXCEPT ![w] = j] /\ j \in JobState
    BY <1>0, <2>1, ReadJob
  <2>3. j.op = "snap" /\ j.step = job[w].step /\ j.rows = rows /\ raced' = raced
    BY <1>0, <1>8 DEF SnapRead, Doing, JobState
  <2> HIDE DEF j
  <2>4. Quiet => CopiedRows(j, pg)
    BY <1>0, <2>1, <2>3 DEF QInv, CopiedRows, Copied
  <2> QED
    BY <1>3, <2>2, <2>3, <2>4
<1>9. CASE SnapError(w)
  <2>1. job[w].op = "snap" /\ raced' = raced
    BY <1>9 DEF SnapError, Doing
  <2>2. CASE Advance(w, "run")
    <3>1. /\ job' = [job EXCEPT ![w] = Next1(job[w], "run")]
          /\ Next1(job[w], "run") \in JobState
      BY <1>0, <2>2, AdvanceJob
    <3>2. CopiedRows(Next1(job[w], "run"), pg) /\ Next1(job[w], "run").op # "restore"
      BY <1>0, <2>1, UnreadJob
    <3> QED
      BY <1>3, <2>1, <3>1, <3>2
  <2>3. CASE job' = [job EXCEPT ![w] = Idle("run")]
    BY <1>4, <2>1, <2>3
  <2> QED
    BY <1>9, <2>2, <2>3 DEF SnapError
<1> QED
  BY <1>5, <1>6, <1>7, <1>8, <1>9 DEF Copying, Restore, Snap

(* Every step keeps what the quiet means.                                  *)
LEMMA StepQuiet ==
  ASSUME "loss" \notin FaultKinds, TInv, QInv, [Next]_vars
  PROVE  QInv'
<1>1. CASE UNCHANGED vars
  BY <1>1 DEF vars, QInv, Quiet, RedisEmpty, Doing, Copied, CopiedRows
<1>2. ASSUME NEW w \in Workers, Play(w) PROVE QInv'
  BY <1>2, PlayIsHeard DEF QInv
<1>3. ASSUME NEW w \in Workers, Copying(w) PROVE QInv'
  BY <1>3, QuietWrite, QuietSave, QuietCopying
<1>4. CASE RedisLoss
  <2>1. \A w \in Workers : job[w].op = "down"
    BY <1>4 DEF RedisLoss, Fault, Doing
  <2>2. redis' = Nothing /\ UNCHANGED <<pg, job>>
    BY <1>4 DEF RedisLoss
  <2>3. \A t \in TableNames : Copied(Nothing[t], pg'[t])
    BY DEF Copied, Nothing, NoRows
  <2>4. \A w \in Workers : CopiedRows(job'[w], pg')
    BY <2>1, <2>2 DEF CopiedRows
  <2> QED
    BY <2>2, <2>3, <2>4 DEF QInv
<1> QED
  BY <1>1, <1>2, <1>3, <1>4 DEF Next, Copying

(* Nothing is running and Redis and the backup are empty.                  *)
LEMMA InitQuiet == Init => TInv /\ QInv
<1> SUFFICES ASSUME Init PROVE QInv
  BY InitTypes
<1>1. \A t \in TableNames : Copied(redis[t], pg[t])
  BY DEF Init, Copied, Nothing, NoRows
<1>2. \A w \in Workers : CopiedRows(job[w], pg)
  BY DEF Init, CopiedRows, Idle
<1> QED
  BY <1>1, <1>2 DEF QInv

(* snapshot.go:165-167, "A non-empty Redis is authoritative and left       *)
(* untouched", for any number of workers that restore, snapshot, fail and  *)
(* crash anywhere: a restore takes nothing away from Redis unless a        *)
(* consumer has counted since it looked.                                   *)
THEOREM QuietRestoresAdd ==
  ASSUME "loss" \notin FaultKinds
  PROVE  Spec => QuietRestoreAdds
<1>1. TInv /\ QInv /\ [Next]_vars => TInv' /\ QInv'
  BY StepTypes, StepQuiet
<1>2. TInv /\ QInv =>
        \A w \in Workers : RestoreWrite(w) /\ w \notin raced => Covers(redis', redis)
  BY QuietWrite DEF Quiet, RestoreWrite
<1>3. TInv /\ QInv /\ [Next]_vars =>
        [\A w \in Workers : RestoreWrite(w) /\ w \notin raced => Covers(redis', redis)]_vars
  BY <1>2
<1> QED
  BY <1>1, <1>3, InitQuiet, PTL DEF Spec, QuietRestoreAdds
=============================================================================
