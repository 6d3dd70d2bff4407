------------------------------ MODULE Snapshot ------------------------------
(***************************************************************************)
(* internal/snapshot and the start of cmd/the-button-worker: Redis holds   *)
(* the game, a snapshotter in every worker process copies it to Postgres   *)
(* table by table, and a worker that starts against an empty Redis copies  *)
(* the backup back before its consumers run.  Neither copy is atomic: each *)
(* table is read, then written, while the consumers of this and of other   *)
(* workers go on, and an error or a crash may end it in the middle.        *)
(*                                                                         *)
(* A table is a map from keys to numbers, 0 for a key that is not there:   *)
(* clicks for the counter and the boards, a version that grows for the     *)
(* streaks, 1 for a name or an unlock.  The week is the current one.       *)
(***************************************************************************)
EXTENDS Naturals, Sequences

CONSTANTS
  Users,
  Game,        \* the key of the one counter row
  Workers,
  FaultKinds,  \* the kinds of fault that happen in this instance
  MaxFaults,   \* bound: faults in a behaviour
  MaxClicks,   \* bound: clicks counted, in all and for a user
  MaxDays      \* bound: advances of a streak

ASSUME GameIsNoUser == Game \notin Users

VARIABLES
  redis,   \* redis[t][k]
  pg,      \* pg[t][k]
  job,     \* job[w]: what worker w's main and snapshot goroutines are doing
  faults,  \* faults so far
  raced    \* history: restores during which a consumer has counted

vars == <<redis, pg, job, faults, raced>>

(* The order in which both Snapshot and Restore take the tables.           *)
Tables == <<"counter", "board", "week", "names", "unlocks", "streaks">>
TableNames == {Tables[i] : i \in DOMAIN Tables}
Keys == Users \cup {Game}
NoRows == [k \in Keys |-> 0]
Nothing == [t \in TableNames |-> NoRows]

(* op: "down", "check" and "restore" in Restore, "run" while the consumers *)
(* run and the snapshotter waits, "snap" in Snapshot.  rows is the table   *)
(* that was read and not yet written; subs the users snapshot so far.      *)
Idle(op) == [op |-> op, step |-> 1, read |-> FALSE, rows |-> NoRows, subs |-> {}]

Fault(k) ==
  /\ k \in FaultKinds
  /\ faults < MaxFaults
  /\ faults' = faults + 1

Doing(w, op) == job[w].op = op
Consuming(w) == job[w].op \in {"run", "snap"}
Halfway(w) == Doing(w, "restore") /\ job[w].step > 1
Current(w) == Tables[job[w].step]

(* INSERT ... ON CONFLICT DO UPDATE SET x = EXCLUDED.x, and SET, ZADD and  *)
(* HSET: the rows given are set, the others stay.                          *)
SetRows(old, rows) == [k \in Keys |-> IF rows[k] # 0 THEN rows[k] ELSE old[k]]

(* ON CONFLICT DO NOTHING, and HSETNX: an unlock keeps its first time.     *)
AddRows(old, rows) == [k \in Keys |-> IF old[k] # 0 THEN old[k] ELSE rows[k]]

Upsert(t, old, rows) ==
  IF t = "unlocks" THEN AddRows(old, rows) ELSE SetRows(old, rows)

(* SELECT every row of a table.                                            *)
ListAll(t) == pg[t]

Read(w, rows, subs) ==
  job' = [job EXCEPT ![w].read = TRUE, ![w].rows = rows, ![w].subs = subs]

(* Wrong: one table too many.                                              *)
Advance_Wrong(w, op) ==
  job' = [job EXCEPT ![w] =
    IF job[w].step > Len(Tables) THEN Idle(op)
    ELSE [job[w] EXCEPT !.step = @ + 1, !.read = FALSE, !.rows = NoRows]]

(* On to the next table, or to op when this was the last.                  *)
Advance(w, op) ==
  job' = [job EXCEPT ![w] =
    IF job[w].step = Len(Tables) THEN Idle(op)
    ELSE [job[w] EXCEPT !.step = @ + 1, !.read = FALSE, !.rows = NoRows]]

Init ==
  /\ redis = Nothing
  /\ pg = Nothing
  /\ job = [w \in Workers |-> Idle("down")]
  /\ faults = 0
  /\ raced = {}

-----------------------------------------------------------------------------
(* Start of a worker: Restore, then the consumers and the snapshotter.     *)

Start(w) ==
  /\ Doing(w, "down")
  /\ job' = [job EXCEPT ![w] = Idle("check")]
  /\ UNCHANGED <<redis, pg, faults, raced>>

RedisEmpty ==
  /\ redis["counter"][Game] = 0
  /\ \A u \in Users : redis["board"][u] = 0

(* Wrong: the test is the wrong way round.                                 *)
RestoreCheck_Wrong(w) ==
  /\ Doing(w, "check")
  /\ job' = [job EXCEPT ![w] = Idle(IF RedisEmpty THEN "run" ELSE "restore")]
  /\ raced' = raced \ {w}
  /\ UNCHANGED <<redis, pg, faults>>

RestoreCheck(w) ==
  /\ Doing(w, "check")
  /\ job' = [job EXCEPT ![w] = Idle(IF RedisEmpty THEN "restore" ELSE "run")]
  /\ raced' = raced \ {w}
  /\ UNCHANGED <<redis, pg, faults>>

RestoreRead(w) ==
  /\ Doing(w, "restore") /\ ~job[w].read
  /\ Read(w, ListAll(Current(w)), {})
  /\ UNCHANGED <<redis, pg, faults, raced>>

RestoreWrite(w) ==
  /\ Doing(w, "restore") /\ job[w].read
  /\ redis' = [redis EXCEPT ![Current(w)] = Upsert(Current(w), @, job[w].rows)]
  /\ Advance(w, "run")
  /\ UNCHANGED <<pg, faults, raced>>

(* Restore returns an error and the process exits; "halfway" when some     *)
(* table has been written by then.  A write that took effect and reported  *)
(* an error is RestoreWrite followed by this, or by Crash after the last.  *)
RestoreError(w) ==
  /\ Doing(w, "check") \/ Doing(w, "restore")
  /\ Fault(IF Halfway(w) THEN "halfway" ELSE "error")
  /\ job' = [job EXCEPT ![w] = Idle("down")]
  /\ UNCHANGED <<redis, pg, raced>>

-----------------------------------------------------------------------------
(* The snapshotter's 30 s tick.                                            *)

SnapBegin(w) ==
  /\ Doing(w, "run")
  /\ job' = [job EXCEPT ![w] = Idle("snap")]
  /\ UNCHANGED <<redis, pg, faults, raced>>

(* Unlocks and streaks are read for the users found on the board.          *)
SnapRead(w) ==
  /\ Doing(w, "snap") /\ ~job[w].read
  /\ LET t == Current(w)
         all == redis[t]
         subs == IF t = "board" THEN {u \in Users : all[u] > 0} ELSE job[w].subs
     IN  Read(w, [k \in Keys |->
                    IF t \in {"unlocks", "streaks"} /\ k \notin subs THEN 0 ELSE all[k]],
              subs)
  /\ UNCHANGED <<redis, pg, faults, raced>>

(* Wrong: the counter is left out of the snapshot.                         *)
SnapWrite_Wrong(w) ==
  /\ Doing(w, "snap") /\ job[w].read
  /\ pg' = IF Current(w) = "counter" THEN pg
           ELSE [pg EXCEPT ![Current(w)] = Upsert(Current(w), @, job[w].rows)]
  /\ Advance(w, "run")
  /\ UNCHANGED <<redis, faults, raced>>

SnapWrite(w) ==
  /\ Doing(w, "snap") /\ job[w].read
  /\ pg' = [pg EXCEPT ![Current(w)] = Upsert(Current(w), @, job[w].rows)]
  /\ Advance(w, "run")
  /\ UNCHANGED <<redis, faults, raced>>

(* Snapshot returns an error, is logged, and waits for the next tick; only *)
(* a failed read of the names is passed over.                              *)
SnapError(w) ==
  /\ Doing(w, "snap")
  /\ Fault("error")
  /\ IF Current(w) = "names" /\ ~job[w].read
     THEN Advance(w, "run")
     ELSE job' = [job EXCEPT ![w] = Idle("run")]
  /\ UNCHANGED <<redis, pg, raced>>

(* The process dies.                                                       *)
Crash(w) ==
  /\ ~Doing(w, "down")
  /\ Fault(IF Halfway(w) THEN "halfway" ELSE "crash")
  /\ job' = [job EXCEPT ![w] = Idle("down")]
  /\ UNCHANGED <<redis, pg, raced>>

-----------------------------------------------------------------------------
(* What the consumers of a running worker do to Redis meanwhile.           *)

(* History: what is counted now is counted behind these restores' backs.   *)
RaceRestores == raced' = raced \cup {v \in Workers : Doing(v, "restore")}

Grow(t, k, max) ==
  /\ redis[t][k] < max
  /\ redis' = [redis EXCEPT ![t][k] = @ + 1]

(* The counter group.                                                      *)
Count(w) ==
  /\ Consuming(w)
  /\ Grow("counter", Game, MaxClicks)
  /\ RaceRestores
  /\ UNCHANGED <<pg, job, faults>>

(* The progress group: boards and name in one transaction.                 *)
Progress(w, u) ==
  /\ Consuming(w)
  /\ redis["board"][u] < MaxClicks
  /\ redis' = [redis EXCEPT !["board"][u] = @ + 1, !["week"][u] = @ + 1,
                            !["names"][u] = 1]
  /\ RaceRestores
  /\ UNCHANGED <<pg, job, faults>>

(* Its later writes for a user that has clicked.                           *)
Unlock(w, u) ==
  /\ Consuming(w)
  /\ redis["board"][u] > 0
  /\ Grow("unlocks", u, 1)
  /\ RaceRestores
  /\ UNCHANGED <<pg, job, faults>>

Streak(w, u) ==
  /\ Consuming(w)
  /\ redis["board"][u] > 0
  /\ Grow("streaks", u, MaxDays)
  /\ RaceRestores
  /\ UNCHANGED <<pg, job, faults>>

(* Redis loses its data: in a cold start of everything, or while workers   *)
(* run and go on counting.                                                 *)
RedisLoss ==
  /\ IF \A w \in Workers : Doing(w, "down") THEN Fault("coldloss") ELSE Fault("loss")
  /\ redis' = Nothing
  /\ UNCHANGED <<pg, job, raced>>

Play(w) ==
  \/ Count(w)
  \/ \E u \in Users : Progress(w, u) \/ Unlock(w, u) \/ Streak(w, u)

Restore(w) == RestoreCheck(w) \/ RestoreRead(w) \/ RestoreWrite(w)
Snap(w) == SnapBegin(w) \/ SnapRead(w) \/ SnapWrite(w)

Next ==
  \/ \E w \in Workers :
       \/ Start(w) \/ Restore(w) \/ Snap(w) \/ Play(w)
       \/ RestoreError(w) \/ SnapError(w) \/ Crash(w)
  \/ RedisLoss

Spec == Init /\ [][Next]_vars

(* A worker is restarted, and its restore and its snapshots proceed.       *)
Fairness == \A w \in Workers : WF_vars(Start(w) \/ Restore(w) \/ Snap(w))

LiveSpec == Spec /\ Fairness

-----------------------------------------------------------------------------
TableType == [TableNames -> [Keys -> Nat]]

(* Every variable has its type.                                            *)
TypeOK ==
  /\ redis \in TableType
  /\ pg \in TableType
  /\ job \in [Workers ->
       [op : {"down", "check", "restore", "run", "snap"}, step : DOMAIN Tables,
        read : BOOLEAN, rows : [Keys -> Nat], subs : SUBSET Users]]
  /\ faults \in Nat
  /\ raced \subseteq Workers

Covers(a, b) == \A t \in TableNames : \A k \in Keys : a[t][k] >= b[t][k]

(* snapshot.go:1-4, Postgres "guards against a Redis loss zeroing the      *)
(* global counter, leaderboards, unlocks, and streaks": once consumers     *)
(* run, Redis holds everything the backup holds.                           *)
AheadOfBackup == (\E w \in Workers : Consuming(w)) => Covers(redis, pg)

(* The same promise seen from the backup: nothing it holds is overwritten  *)
(* with less.                                                              *)
BackupNeverShrinks == [][Covers(pg', pg)]_vars

(* snapshot.go:165-167, "A non-empty Redis is authoritative and left       *)
(* untouched": a restore takes nothing away that the consumers wrote.      *)
(* Restore looks once, at its start: a consumer of another worker that     *)
(* counts during the restore is overwritten.                               *)
RestoreOnlyAdds ==
  [][(\E w \in Workers : RestoreWrite(w)) => Covers(redis', redis)]_vars

(* What is left of the promise: as long as no consumer has counted since   *)
(* it looked, a restore takes nothing away, whatever other workers restore *)
(* and snapshot meanwhile and wherever earlier restores stopped.           *)
QuietRestoreAdds ==
  [][\A w \in Workers :
       RestoreWrite(w) /\ w \notin raced => Covers(redis', redis)]_vars

(* A count that Redis holds reaches the backup, unless Redis loses it      *)
(* first, however often workers die and snapshots fail.                    *)
CountBackedUp ==
  \A n \in 1 .. MaxClicks :
    redis["counter"][Game] >= n ~>
      pg["counter"][Game] >= n \/ redis["counter"][Game] < n
=============================================================================
