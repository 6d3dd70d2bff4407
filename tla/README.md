# A verification development of the-button-service

The service counts clicks on one global button.  A client gets a signed
proof-of-work challenge, clicks for a while, and submits one batch for it.  The
API only checks, throttles and appends to Kafka; two consumer groups turn the
log into Redis state; Postgres holds a periodic backup of Redis.  This directory
holds TLA+ models of those parts, the TLC configurations that check them, and
TLAPS proofs of what matters most about them.

    client --IssueChallenge--> server --(min_interval, L)<-- difficulty cache <-- Redis
    client --SubmitClicks----> server: token, work --> clicks: throttle (Redis), produce
                                                               |
                                                         Kafka topic `clicks`
                                          +--------------------+--------------------+
                                   counter group                             progress group
                        seen:counter:*, counter:total, stats     seen:progress:*, boards, unlocks, ...
                                          |    tick: frames, milestones, difficulty |
                                          +----------------- Redis -----------------+
                                                               |
                                              snapshotter (every 30 s) / Restore (cold start)
                                                               |
                                                            Postgres  <-- migrations

## 1. Inventory

| component (src/...) | state | operations | what is hard | what makes it correct |
|---|---|---|---|---|
| `internal/counterworker`: `consume`, `apply` | seen keys, `counter:total`, `stats:accepted_total`; committed offset, fetch position and batch of each worker | poll, FirstSee, INCRBY, INCR, commit | at-least-once delivery, crashes between any two calls, rebalances with overlapping owners, Redis errors that may have taken effect, resends of the Redis client, expiry of the seen key | a click is counted at most once; a handled click is counted; nothing is committed unhandled; everything is handled in the end |
| `internal/counterworker`: `tick` | loop variables of each replica, `pow:*`, `milestone:*` | sample, publish, claim, step the difficulty | several replicas, partial failures, a Redis that restarts at zero | one announcement per milestone, a bound on how fast the difficulty rises, consistent difficulty keys |
| `internal/idem` | `seen:<group>:<id>` | FirstSee | expiry against late records | first time true, then false |
| `internal/server`: `IssueChallenge`, `SubmitClicks`; `internal/clicks` | `throttle:<sub>` | verify, SETNX, produce, DEL | calls of one user that overlap, slow or ambiguous produce, one check of a clock before two remote calls | the interval spaces batches; a record is appended in its window; the events of calls that are prompt are in order |
| `internal/pow` | none (signed tokens) | Sign, Parse, Verify, NextL, MinInterval, EWMA | key rotation, boundaries of the ladder | only fresh tokens of the caller pass |
| `internal/difficulty` | cached `l`, `minInterval`, `have` | refresh, Get | two reads, two stores | a challenge carries the L and the interval of one setting |
| `internal/progressworker` | boards, names, day and week counters, `unlocks:*`, `streak:*`, `quests_done:*` | FirstSee, one read, one transaction, then best-effort reads, claims and a frame; `leaderboardTick` | crash between the gate and the transaction, or between the transaction and the claims; two owners of one user's events; failed reads that look like zeros; times out of order; two keys that are one on a Monday | an event counts once, everywhere or nowhere; what is awarded was earned; what was earned is awarded unless a failure or an overlap came between |
| `internal/streak`, `achievements`, `quests`, `troll` | none | Advance, Evaluate, Progress, the quests of a date | days, hours and weeks of HCMC, thresholds and gaps | a streak has a contribution on each of its days; a threshold is crossed by one event |
| `internal/server`: `GetPlayerState`, `GetLeaderboard`; `internal/leaderboard` | none | reads one after the other | everything moves between two reads, and a read that fails counts as empty | an answer fits together |
| `internal/snapshot`, `cmd/the-button-worker` | a copy of Redis in Postgres; progress of a snapshot or restore | Snapshot, Restore | neither is atomic; crashes halfway; consumers meanwhile; Redis losses | the backup never shrinks; after a cold start Redis holds all of it; a restore takes nothing away |
| `internal/migrate`, `cmd/the-button-migrate` | schema version | Up, Down, Down by force | processes side by side; a version that is checked under one lock and reversed under the next | an unforced Down never drops the click tables; versions have no gap |
| `config`, `store`, `db`, `kafka`, `clickevent`, `cmd/the-button-service`, `load` | none of their own | | | |

## 2. Modules

| module | models | checked by | proved in |
|---|---|---|---|
| `CounterGroup` | `consume`/`apply` of the counter group, FirstSee, the consumer-group protocol as the client library shows it | `MCCounterGroup_*` | `CounterGroupProofs` |
| `ClickIngest` | `IssueChallenge`, `SubmitClicks`, `clicks.Submit` | `MCClickIngest_*` | `ClickIngestProofs` |
| `ClickPipeline` | both composed over one log and one clock | `MCClickPipeline_path` | `ClickPipelineProofs` |
| `Snapshot` | `Snapshot`, `Restore`, the start of a worker, Redis losses | `MCSnapshot_*` | `SnapshotProofs` |
| `CounterTick` | `tick` up to the claims, `claimMilestones`, `produceSSE` | `MCCounterTick_frames` | `CounterTickProofs` |
| `Engines` | the pure rules: HCMC calendar, streaks, achievements, hidden unlocks, quests, ranks | with `ProgressGroup` | with `ProgressGroup` |
| `Tally` | abstract: every distinct event counts at most once, everywhere or nowhere | refined by `ProgressGroup` | `ProgressProofs` |
| `ProgressGroup` | the consumer loop, `applyEvent` step by step | `MCPlayerReads_*` | `ProgressProofs` |
| `PlayerReads` | `GetPlayerState`, `GetLeaderboard`, `leaderboardTick`, composed with `ProgressGroup` | `MCPlayerReads_*` | `ProgressProofs` |
| `Migrate` | `migrate.Up`, `migrate.Down`, `cmd/the-button-migrate` | `MCMigrate_guard` | `MigrateProofs` |
| `Difficulty` | the rest of `tick`, `writeDifficulty`, `currentL`, `NextL`, `MinInterval`, the cache, its reading in `issue` | `MCDifficulty_*` | `DifficultyProofs` |

**CounterGroup.**  One partition.  `clicks` is its log, a record reduced to its
challenge and the time of its append; `seen[ch]` is the expiry of
`seen:counter:ch`; `credits[ch]` how often `ch` was added to `counter:total`;
`worker[w]` the program counter of a worker's loop (`poll`, `apply` before
FirstSee, `incr` before INCRBY, `stats` before INCR, `commit`), its fetch
position and its batch.  Each Redis call is an action, with an action for its
error -- the call may have taken effect or not -- and one for a resend by the
client library.  `Assign` gives the partition to a worker and does not stop the
old one, whose batch and commit go on.  `handled`, `late`, `repeats` and `lost`
are history variables that only properties read: offsets `apply` returned nil
for, challenges looked up later than `MaxLag` after the append, INCRBYs the
client library sent twice, and challenges whose seen key was set by a FirstSee
whose INCRBY never took effect.  `Issue`, `Append1`, `AppendPoison` and `Tick`
are the environment.

**ClickIngest.**  `call[r]` is a SubmitClicks call in progress: `throttle` before
the SETNX, `produce` before the append, `unthrottle` before the DEL, `next`
before the piggybacked challenge.  `ts` is the one clock reading of the call.
`Tick` lets no call last longer than `MaxRequest`, which is an abstraction: the
client library fails a record 10 s after it was produced, but not one that is in
flight just then, so a call may last a little longer.  `MaxRequest` stands for
the longest one.  The proof of work, the count and the signature are taken as
valid: a call that fails these has no effect.  `acked`, `claimer` and `freed` are
history: the acknowledged records, who set the throttle key of a user last, and
when a failed call deleted a key of a user that it did not set.

**ClickPipeline.**  `INSTANCE`s both; the group's `Window` is `Life + MaxRequest`.

**Snapshot.**  `redis` and `pg` map tables to rows.  `job[w]` is what a worker
process does: `down`, `check` and `restore` inside Restore, `run`, `snap` inside
Snapshot; within the last two, the table it is at and whether it has been read
and not yet written.  Restore's EXISTS and ZCARD are one action: they can differ
from one read only when another worker writes between them.  `raced` is history:
the workers in whose restore a consumer of another worker has counted since they
looked.  A write of Restore that takes effect and reports an error is the write
followed by `RestoreError`, of the kind `halfway`.

**CounterTick.**  `loop[r]` is the tick of a worker: `wait` at the ticker,
`publish` with a total that moved, `claim` before the SETNX of `Milestones[at]`,
`announce` before the produce of its frame; `last` is `lastPublished`.  `topic`
is what a follower of `sse.counter` has seen: the last total, the highest one,
and the announcements of each milestone.  `missed` and `losses` are history: the
frames a worker gave up after an error, a resend or a crash, and the losses of
Redis.

**Difficulty.**  `powL` and `powMi` are the two keys, `ctl[w]` the controller of a
worker (`writeL`, `writeMi`, `run`; `last` is `lastChange`, unset until the first
write is over).  The cache is its three atomics, `refresh` and `get` are the
refresh and the Get in progress, one load or store a step.  The accepted rate is
whatever the environment likes.  The two halves of `tick` share no variable and
are therefore two modules; a failed read of the total skips both, which in
Difficulty is a tick that does nothing.  `RedisLoss` takes both keys away while
workers run.  `torn` and `held` are history: whether a write failed, two
controllers wrote at once, or a loss came when nobody had the keys still to
write; and what the controllers and the key held at the end of each second.
`Init` has the keys as workers of another day left them, or not at all.

**Engines.**  A time is minutes since 1970 in UTC, a date the number of a day in
HCMC, so the hour rules, the Monday that opens a week and the next day of a
streak are computed as in the code.  Totals and thresholds are the real ones.
The hash that chooses a day's quests is the constant `Hash`; `MCHash` holds the
real FNV-1a values of the dates used (modulo 6, which both pool sizes divide).

**ProgressGroup.**  One partition, its log chosen at the start and then fixed.
`worker[w]` is as in CounterGroup, with a program counter inside `applyEvent`:
`max` before the HGET of maxbatch, `tx` before EXEC, then `total`, `day`, `week`
(the reads), `claims`, `load`, `streak`, `quests`, `expday`, `expweek`, `frame`.
`job[w]` holds the local variables.  Calls of one kind are one step (the four
reads of the day's counters, the HSETNXs of one event, the SADDs): between them
the counters of a user only grow, and no property distinguishes where between
them another worker came.  Each step has its error where the code ignores or
returns it: a failed read gives zero, a failed transaction may have taken effect,
a claim whose answer is lost is not announced.  `KeyExpires` removes a done key
two days after an EXPIRE of 48 hours.  The seen keys do not expire here (their
expiry is CounterGroup's subject).  `applied`, `told`, `granted` and `again` are
history; so is `torn`, which records for a user and a part of the progress
(`event`, `claims`, `streak`, `maxbatch`, `quests`) that a failure, a crash or an
overlap of two owners may have spoiled it: a property that has an exception
names its part.

**Tally.**  Counts an event of the log whose challenge is not yet counted, on all
five counters in one step.  ProgressGroup implements it with the variables of
the same names.

**PlayerReads.**  `call` is the one call in progress, a sequence of reads with the
date of the server's clock; a failed read leaves its part empty and makes the
call `blind`.  Any step of the group may come between two reads.  `before` is
history: what had been granted when the call began.

**Migrate.**  `applied` is goose's version table, `lock` the session lock,
`runner[r]` a process: before `up`, in `upping` with the lock, at `check` before
GetDBVersion, `pinned` before ApplyVersion, or before a `force`d down.  A process
may end anywhere and its lock goes with its session.  `reversed` and `crossed`
are history: what unforced Downs reversed, and whether an Up ran between the two
calls of one.

Definitions whose names end in `_Wrong`, `_NoKey`, `_NoBest` or `_NoCheck` are
mistakes one could make in the definition that follows them; the mutants of
`PROJECT.json` put them in its place and TLC must then find the property
violated.

## 3. What the runs show

Passing:

* `group_faults` -- two workers, one challenge, two records, all seven kinds of
  fault, three of them in a behaviour, clock to 5 with `Window` = 1, `MaxLag` =
  1, `SeenTTL` = 3, so that a key can expire and a record can be late.
  **CreditAtMostOnce**, **HandledCredited**, **StatsFollowCredits** (a fault
  moves the two counters at most one apart).
* `ingest_calls` -- two calls of one user at a time over two challenges, interval
  2, calls of up to 3, two faults of any kind: **RecordInWindow**;
  **IntervalKept**, what is left of the hard interval: two acknowledged batches
  are closer only if a failed call deleted a key it did not set between their
  claims; and **PromptInOrder**, what is left of the order: an event whose own
  call was shorter than the intervals comes after no later event, however slow
  the other calls were, with the same exception.
* `pipeline_path` -- one call at a time, two workers, ambiguous produce errors,
  crashes, rebalances and failed commits: the composition implements the group's
  specification (**GroupSpec**); no offset is committed past an unhandled record
  (**CommittedHandled**); and, under fairness, every record is handled
  (**EveryRecordHandled**) and every acknowledged batch is counted
  (**AckedIsCounted**).
* `snapshot_single` -- one worker with crashes, failed snapshots and a loss of
  Redis while nothing runs: **AheadOfBackup**, **BackupNeverShrinks**,
  **CountBackedUp**.
* `tick_frames` -- two workers, two milestones, totals that jump, two faults of
  five kinds: **MilestoneOnce** (once in the life of its key; a loss of Redis
  allows one more, since the backup holds no milestone keys), **CounterFirst**,
  **FramesConverge** and **MilestoneAnnounced** (the last two up to frames that
  were given up).
* `difficulty_steer` -- two controllers, three levels, keys of another day or
  none, one cache, one Get at a time, one fault (a failed read or write, a crash,
  a loss of the keys), slew interval 2, clock to 2: **SlewWindow**, in every
  window of time the published level rises above the highest level that the key
  or a controller held at its beginning by one step and one per slew interval at
  most; **PairSettles**, **CacheCatchesUp**.
* `progress` -- two workers, two users, one call of a player, six logs of two or
  three records: a repeat and a smaller batch on one day; two days of two weeks
  and a gap; two users and a value that does not unmarshal; two events out of
  order around midnight; two half a week apart, to a total of 1111; one event
  alone.  Records and faults are four together (`Budget`), so a log of two
  records meets two faults.  A call counts as one fault and begins before the
  others.
  **TallySpec** (the refinement), **SeenApplied** (an event past the gate is
  counted, or a failure between the gate and the transaction lost it: the
  redelivery of :130-131 cannot help, the record is then a repeat),
  **StreakEarned** and **StreakComplete** (neither too long nor, but for named
  exceptions, too short), **ThresholdTold** (a threshold is crossed by exactly
  one event, so a reached one was announced, is on its way, or was lost to a
  failure or to two owners counting before either reads), **RewardsEarned**,
  **MaxBatchIsMax**, **QuestOnce** (on a Monday both EXPIREs hit one key; the
  week's comes last and wins; it excepts events two days late, see below),
  **AnswerFits** (the day is read before the week,
  the all-time list before the week's, the names after their list, and that
  order is what makes an answer fit).
* `migrate_guard` -- three processes, four migrations, eight starts:
  **DataKept** and **NoGap**.

Violated, where the code does not do what its comments say:

* `group_dropped` -- CommittedHandled, once Redis errors happen.  `consume`
  leaves a batch on an error "so the batch re-delivers"
  (counterworker.go:50-51), but nothing rewinds the client's fetch position: the
  next poll starts behind the batch and the next commit covers it.  The clicks
  are redelivered only if the worker loses the partition before that commit.
* `ingest_order` -- EventOrder, with no fault at all.  A call claims the throttle,
  its produce outlasts the interval (10 s against 2, 5 and 10 s), a later call of
  the user claims in turn and takes a later time, and appends first.
  clickevent.go:24-25 says "one user's events stay ordered on one partition
  (streak/quest/dedup correctness)".  PromptInOrder says which events are.
* `snapshot_together` -- RestoreOnlyAdds, with two workers and no fault needed.
  Restore looks once; while it goes on, the consumers of a worker that was faster
  count, the snapshotter saves some of it, and SET and ZADD put the saved value
  over the newer one.  snapshot.go:165-167 says "A non-empty Redis is
  authoritative and left untouched".
* `snapshot_halfway` -- AheadOfBackup, when a restore may end halfway.  Its first
  write makes Redis "not empty", so the restart skips the rest.
More limits were seen with TLC.  They are hazards or exceptions in properties
rather than runs of their own:

* The seen key is set before the effect in both groups, so a crash or an error
  between the two drops the click or event (HandledCredited and SeenApplied name
  exactly that exception), while counterworker.go:1-5 says a crash "re-delivers
  rather than drops" and progressworker.go:130-131 that the event is
  "re-delivered".
* A SET of the difficulty that fails when the first controller starts is logged
  and not tried again: `tick` writes only when L moves, L is at the bottom, and
  the rate that could raise it is zero because without the key no challenge is
  issued.  A restart of a worker repairs it.  PairSettles excepts failed writes.
* The un-throttle after a failed produce deletes the key whoever holds it by then
  (clicks.go:39).  A produce may fail after 10 s, the shortest interval is 2 s:
  the key may be that of a later call, and a third one then comes within the
  interval that controller.go:10-11 calls "the hard valve".  IntervalKept excepts
  such a deletion by name, and says there is no other way.
* Two replicas of the controller do not keep controller.go:20, "SlewInterval limits
  difficulty movement to one step per 30s" (difficulty.go:2-3, "at most once per
  30s").  Each limits its own level and writes it over the key without a look at
  what is there.  Two that stepped apart from one level (each samples the rate
  itself), or one that read a high key and one that started blind, from 1, write
  in turn, and the published level moves by several steps at once: states of
  `difficulty_steer` go from 1 to 3, and from 3 to 1, with no fault.  SlewWindow
  says what holds upwards; downwards nothing does, since a controller that could
  not read the key starts from 1.
* A failed HGETALL gives an empty streak, as for a user who never contributed
  (progressworker.go:297).  Advance starts from it and the HSET writes count 1 and
  best 1 over what was there, although streak.go:19-20 says the best "never
  decreases".  StreakComplete excepts users with such a failure.
* BackupNeverShrinks fails when Redis loses its data under running workers
  (snapshot.go:53 writes the new, small total).  QuietRestoreAdds, which is proved
  and has no run of its own, needs the same exception: a snapshot that read
  before the loss saves rows that one of two restores has read already and the
  other not.
* A Get of the difficulty cache that begins before the first refresh stores and
  ends after it returns zeros with `ok`, since `have` is loaded last (in
  Difficulty, `get.ok` holds with `get.l = 0`).
* An Up between the two calls of an unforced Down makes it reverse a version that
  is no longer the latest, although migrate.go:80 says "exactly the one
  most-recently-applied"; the database then has a gap and every further Up
  refuses it.  NoGap excepts it by name; DataKept holds all the same.
* An event that is two days late, after one of a later date, can grant a quest of
  its day again: the done key of a day lives 48 hours (progressworker.go:34) and
  the event's own time decides which key is asked for (a batch of 600 of a
  Tuesday, one of the Thursday, one more of the Tuesday).  Such an event needs
  a consumer that lags or a clock of the API that is off.  The proof of QuestOnce
  met this case, which none of the six logs contains; the property now excepts
  it by name.
* Two owners of a partition can lower maxbatch, jump over a threshold or lose a
  day of a streak; the comment at progressworker.go:123-124 takes the gate to
  exclude this, but the gate is per challenge and the fields are per user.

**Bounds.** `MaxTime`, `MaxRecords`, `MaxFaults`, `MaxClicks` and `MaxDays` cap
what would grow for ever and appear in guards only. `Budget` bounds the records
and faults of `progress` together, `MaxRuns` the starts of migrate processes.
Workers are interchangeable, and the interesting interleavings are of two: two
owners of one batch. A second challenge adds nothing to properties that speak of
one challenge at a time; two records are enough for a commit that passes a
record another worker still holds. Two milestones are enough for one batch to
pass both and for a claim to fail between them. Two levels of difficulty are
enough for the two keys to disagree, three and keys of another day for a jump of
the published level; the theorem covers longer ladders and longer times.
`MaxRequest` is above the interval in every run of ClickIngest, as the produce
timeout is above the shortest interval, and two calls that may each start anew
are enough to overlap, to delete each other's key and to overtake. Three records
are enough for a streak, a gap and a repeat, two users for a rank that is lost,
three migrate processes for an Up between the two calls of a Down while another
Down waits. `progress` has symmetric workers and one temporal property,
TallySpec, which is a safety property and speaks of no worker; runs with
liveness use no symmetry. Deadlock is not an error in the runs with a bounded
log or a bounded number of starts: when all is done the system waits.

**Fairness.**  A worker's loop is always running (`for ctx.Err() == nil`), so each
step of it is weakly fair; a dead worker is restarted by its deployment; the
group coordinator gives a free partition to a live worker.  The tickers of
snapshotter, tick and cache fire for ever.  Nothing is assumed of clients, of
the clock, or of faults; `CommitError` of a worker that lost the partition is
part of its loop.

## 4. What is proved

`CounterGroupProofs`, checked by TLAPS, for any sets of workers and challenges,
any log length and any number of faults, from three assumptions: `Distinct`,
`Finite` (finitely many processes and ids, which the sums below need), and
`DedupWindow` (token window + lag < lifetime of the seen key; in the code 330 s +
one request + lag < 600 s).

* `TypeCorrect`: `Spec => []TypeOK`, with `BatchInLog` (a batch lies in the log).
* `CreditedAtMostOnce`: `Spec => []CreditAtMostOnce`.  The claim is not inductive:
  it needs that the one winner of FirstSee has not been credited yet
  (`OneWinner`), that the key of a challenge that was ever won outlives every
  record that can still ask in time (`SeenCovers`), and that records are appended
  in their window (`LogInWindow`).  Together with the types these are `IInv`.
* `HandledIsCredited`: `Spec => []HandledCredited`.  On top of `IInv`: whoever set
  a seen key is accounted for (`SeenCounted`), and whoever is past INCRBY has
  credited (`StatsCounted`); together `LInv`.
* `StatsFollow`: `Spec => []StatsFollowCredits`, an inequality between two sums
  over all challenges.  The sum of the module is a fold of the community modules;
  that an increment of one summand adds to it, and that a sum of zeros is zero,
  are lemmas (`SumChanges`, `SumOfNothing`), proved by an induction over finite
  sets in which a set takes the place of the predicate.  The step then has to
  show that a fault, or a worker between the two calls, pays for every
  difference.
* `CommitsFollowEffects`: `Spec => []CommittedHandled` where no Redis call and no
  poll reports an error (`"redis"`, `"fetch"` not in `FaultKinds`); crashes,
  rebalances, overlapping owners, failed commits and resends are allowed.  The
  invariant `CInv` says that all before a worker's place in its batch, and all
  before its fetch position, is handled.  `group_dropped` is the other half: with
  Redis errors the property is false.

`ClickPipelineProofs`, about the composition, from `PathConstants` (the
assumptions of both sides; the dedup window is no longer assumed of the log but
is `Life + MaxRequest + MaxLag < SeenTTL`).  It instantiates the two proof
modules and shows that each side's steps are steps of the other or leave it
alone:

* `PathImplementsGroup`: `Spec => GroupSpec`.  The one thing to prove is that an
  append of `SubmitClicks` satisfies the guard of `Append1`, which follows from
  `RecordInWindow` for the API's half.
* `PathCommits` (CommittedHandled, under the conditions of
  `CommitsFollowEffects`) and `PathCounts` (CreditAtMostOnce and HandledCredited)
  carry the group's theorems over to the whole path.

`SnapshotProofs`, for any users, clicks, days and number of faults:

* `SnapshotTypeCorrect`: the types; names and unlocks stay flags.
* `BackupIsRestored` and `BackupOnlyGrows`: `Spec => []AheadOfBackup` and the
  action property BackupNeverShrinks, under three hypotheses: one worker
  (`SingleWorker`: of two, one restores while the other already counts), no
  restore that ends halfway (else `snapshot_halfway`), no loss of Redis under a
  running worker (else the first snapshot after it writes less).  Losses while
  the worker is down, crashes and failures anywhere else are allowed.  The
  invariant `SInv` follows the worker through its phases (`Phase`): down, Redis
  covers the backup or is empty; in a restore it is covered by the backup and
  complete up to the table at hand; in a snapshot the rows that were read lie
  between backup and Redis.  It also needs that Redis has nothing new that the
  test of Restore would not see (`Backed`).
* `QuietRestoresAdd`: `Spec => QuietRestoreAdds`, for any number of workers and
  any faults, restores that stop halfway among them, but a loss of Redis under
  running workers.  The invariant `QInv`: as long as nothing was counted since
  Redis was lost or since some restore looked (`Quiet`), every row in Redis and
  every row that a snapshot has read is one of the backup or not there, and what
  a restore has read is the table as it is.  Anything a consumer does ends the
  quiet, and nothing but a cold loss brings it back.

`ClickIngestProofs`, for any users, challenges, calls, times and faults, from
`IngestConstants`:

* `IngestTypeCorrect` and `RecordsInWindow`: `Spec => []RecordInWindow`.  Inductive
  with what is known of a token (`ChalInv`), of a call in progress (`CallInv`: it
  began in the token's life and at most `MaxRequest` ago) and of the records
  (`LogInv`); together with the types, `Windows`.  No other assumption is needed:
  this is the window `CreditedAtMostOnce` takes as given.
* `IntervalIsKept` and `PromptCallsInOrder`: `Spec => []IntervalKept` and `Spec =>
  []PromptInOrder`, with no bound on the length of a call.  `Held`: an interval
  that was claimed runs in the key, or is over, or its key was deleted by a call
  that did not set it, which `freed` records.  `Split`: of two claims of a user,
  of records or of calls that still produce, the later came when the interval of
  the earlier was over, with the same exception.  `Latest`: who set the key last
  claimed last, so a call that deletes its own key takes no one else's interval
  away.  The order follows with `Dated` (a record is appended after its claim,
  and the log grows in time): of two events in the wrong order, the later append
  would have to claim while the interval of the other ran.

`CounterTickProofs`, for any finite set of replicas, any ascending milestones, any
totals and faults (assumptions `FiniteReplicas` and `MilestonesAscend`):

* `TickTypeCorrect`: the types, and that no worker is at a milestone its total has
  not reached.
* `AnnouncedOncePerKey`: `Spec => []MilestoneOnce`.  The count of frames says
  nothing of those still to come, so the invariant counts both (`ClaimedOnce`:
  announcements made and winners that have yet to announce are at most the
  losses of Redis, and one for the key that is there now).
* `CounterComesFirst`: `Spec => CounterFirst`, from `FrameFirst`: a worker at the
  milestones has shown its total or given the frame up.

`DifficultyProofs`, for any number of controllers, any ladder with `MinL > 0`, any
slew interval and any number of faults (assumption `Ladder`):

* `SlewHolds`: `Spec => []SlewWindow`, for every window of time at once and with
  losses of the keys.  Inductive with the same bound for every controller at its
  `lastChange` (`ControllersRisen`), from which it may be one slew interval later
  one step higher, and with the order of the stores of a refresh
  (`RefreshLoaded`); together with the types, `DInv`.
* `DifficultyTypeCorrect`: nothing leaves the ladder, and a cache that is loaded
  holds no zero.

`ProgressProofs`, for any users, workers, logs, hashes and any number of faults,
from `NoneIsNobody`, `LogsTyped`, `FinitelyMany` (users) and `HashTyped` (a date
has a number for its quests).  The thresholds, targets and periods are those of
the code.

* `ProgressTypeCorrect`: `Spec => []TypeOK`, inductive as `Types`: with the batch
  in the log, a record of local variables for every worker, and the sets that are
  counted finite.
* `GateHolds`: `BatchInLog` (a batch lies in the log, its record in the batch)
  and `OneWinner`: between the gate and the transaction an event has one worker,
  its key is set, and nothing of its challenge is counted.  The first is a
  conclusion about control alone; the second is inductive with it, because SET
  NX lets one worker through and only the transaction counts.
* `ImplementsTally`: `Spec => Abstract!Spec`.  Every step but the transaction
  leaves Tally's variables alone; the transaction is Tally's `Count`, whose guard
  is what `OneWinner` says of the worker.
* `SeenIsApplied`: `Spec => []SeenApplied`.  No step but FirstSee sets a key, and
  whoever leaves the section between gate and transaction counts the event or
  records the failure (`Remembered`, proved action by action).
* `StreakIsEarned`: `Spec => []StreakEarned`.  Inductive with what workers hold
  (`StreakInv`): a streak that was read was earned and stays so, since days are
  only added, and a worker between the transaction and the HSET has counted an
  event of its day.  The core is `AdvanceEarned`, a lemma about `Advance`.
* `StreakIsComplete`: `Spec => []StreakComplete`, the other direction.
  `CompleteInv`: unless something of the user's streak is `torn`, at most one
  worker is on its way to the streak of a user, its event is of the last day, and
  the stored streak is complete but for that day; with no worker on the way it is
  complete.  The core is `AdvanceCompletes`: a streak complete without the new
  last day, advanced to it, is complete with it.
* `MaxBatchIsLargest`: `Spec => []MaxBatchIsMax`.  `MaxInv`: a worker before its
  transaction knows the stored maximum, or another owner came between, which is
  on record.
* `RewardsStayEarned`: `Spec => []RewardsEarned`.  `RewardInv`: whatever a worker
  read, or failed to read and took for zero, is at most what is stored, so what it
  claims is earned; and counters only grow, so it stays so.  maxbatch is the one
  that can fall, and the property names that.
* `QuestsGrantedOnce`: `Spec => []QuestOnce`.  `QuestInv`: what was granted is
  remembered, unless an exception of the property applies; and the key of a
  Monday has the short life of a day's only while a worker stands between the two
  EXPIREs.
* `ThresholdsAreTold`: `Spec => []ThresholdTold`.  `ToldInv`: a threshold that is
  reached is settled (announced, or lost to a recorded failure), carried by a
  worker that claimed it, or owed by the worker whose event crossed it and has not
  claimed yet; a claim is settled or carried.
* `ReadsImplementTally` and `ReadsKeepPromises`: the refinement and all of the
  above with players reading between any two steps, since a step of a call changes
  only the call and may use up a fault.
* `AnswersFit`: `ReadSpec => []AnswerFits`.  `AnswerInv` adds three parts to the
  group's invariant.  `Boards`: a day's clicks are in its week too, and who is on
  a board has a name.  `CallShape`: what a call in progress holds at each of its
  reads.  `CallFits`: what it has read so far guarantees against the state as it
  is now, since the group goes on between two reads: the day it read is at most
  the counter the week is about to be read from; a row of the all-time list is at
  most the board now, and later at most the week's row and what lies outside that
  week, which only grows (`Onward`).  TopN chooses its rows by rank, so the proof
  needs that ranks number those on a board 1..n without a gap (`RanksDiffer`;
  `RowsOfBoard`: ranks are injective, and an injection into a finite set of the
  same size is onto).

`MigrateProofs`, for any number of processes, migrations and starts:
`MigrateTypeCorrect` (with: a process that applies migrations holds the lock,
alone) and `DataIsKept`: what an unforced Down has pinned passed the guard
(`PinnedSafe`), and it reverses nothing else; and `NoGapArises`: `Spec =>
[]NoGap`, from `GapInv` (unless an Up came between the two calls of a Down, there
is no gap, and while a version is pinned it is the latest and nobody holds the
lock).

Only model-checked: the liveness properties (TLAPS has no rule for fairness
here: EveryRecordHandled, AckedIsCounted, CountBackedUp, FramesConverge,
MilestoneAnnounced, PairSettles, CacheCatchesUp).

Induction over data with a predicate as parameter is out of the provers' reach
here; where an induction is over a finite set or the naturals and the predicate
can be given as a set, it was done (`SumChanges`).  What the pure rules compute is
exercised on the values the six logs reach (totals past nine thresholds and the
palindrome 1111, 16:20, 3 and 5 o'clock, noon and midnight), not for all totals:
the other rules of Evaluate are written down but reach no state of the run.  The
proofs about streaks, rewards, quests and thresholds hold for all values.

## 5. What is left

All components but those of section 6 are modelled.  Worth doing next: the safety
half of the properties about frames and the backup; and Snapshot composed with the two
groups, to bound what a cold start loses.

## 6. Not modelled

* The hash of the proof of work and token signatures (a predicate taken as true),
  and the rotation of signing keys: keys are configuration, fixed for a process.
* The load generators (`src/load`): test clients outside the service.
* `cmd/the-button-service`, `config`, `store`: wiring, environment variables and
  connections, with no state of their own.
* `leaderboard.Sync` and the queries of `query.sql.go` that no program calls.
* Titles, descriptions, reset times, milestones and all-time ranks of the
  players' answers, and the content of frames beyond unlocks and completed
  quests: they are rendered, not decided.
* The roll-over of the week during a snapshot or restore, and the expiry of the
  boards and day counters of past weeks and days.
