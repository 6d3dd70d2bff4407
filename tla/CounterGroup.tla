---------------------------- MODULE CounterGroup ----------------------------
(***************************************************************************)
(* The "counter" Kafka consumer group (internal/counterworker) over one    *)
(* partition of the topic `clicks`, with the Redis keys it writes:         *)
(* seen:counter:<challenge> (internal/idem), counter:total and             *)
(* stats:accepted_total.  A worker polls a batch, applies its records one  *)
(* by one -- FirstSee, INCRBY, INCR, three separate Redis calls -- and     *)
(* then commits the batch.  Other workers, crashes, rebalances and Redis   *)
(* errors may come between any two of these steps.                         *)
(*                                                                         *)
(* A click event is reduced to its challenge id and the time it was        *)
(* appended; its count is reduced to the fact that it was added once.      *)
(***************************************************************************)
EXTENDS Naturals, Sequences, FiniteSets, Functions

CONSTANTS
  Challenges,   \* challenge ids a token may carry
  Poison,       \* stands for a record that does not unmarshal
  Workers,      \* worker processes of the group
  None,         \* no worker owns the partition
  Window,       \* TokenTTL + ExpLeeway + the longest SubmitClicks call
  MaxLag,       \* how late a record may be looked up and not count as late
  SeenTTL,      \* seenTTL
  FaultKinds,   \* the kinds of fault that happen in this instance
  MaxFaults,    \* bound: faults in a behaviour
  MaxRecords,   \* bound: records in the log
  MaxTime       \* bound: the clock

(* The dedup window outlasts every record of the challenge it remembers:   *)
(* in the code 330 s + one request + the lag < 600 s.                      *)
ASSUME DedupWindow ==
  /\ Window \in Nat /\ MaxLag \in Nat /\ SeenTTL \in Nat
  /\ Window + MaxLag < SeenTTL

ASSUME Distinct ==
  /\ Poison \notin Challenges
  /\ None \notin Workers

(* There are finitely many processes and ids.                              *)
ASSUME Finite == IsFiniteSet(Challenges) /\ IsFiniteSet(Workers)

VARIABLES
  now,        \* the clock
  iat,        \* iat[ch]: when ch was issued, 0 before
  clicks,     \* the partition: records [ch, at]
  seen,       \* seen[ch]: when the key seen:counter:ch expires, 0 if never set
  credits,    \* credits[ch]: how often ch was added to counter:total
  accepted,   \* stats:accepted_total
  committed,  \* the group's committed offset: records 1..committed are done
  owner,      \* the worker the partition is assigned to
  worker,     \* worker[w]: its control state, fetch position and batch
  handled,    \* history: offsets some worker's apply() returned nil for
  late,       \* history: challenges first-seen more than MaxLag after the append
  repeats,    \* history: INCRBYs of ch the Redis client sent twice
  lost,       \* history: challenges whose seen key was set and whose INCRBY never was
  faults      \* faults so far

ingest == <<iat, clicks>>
effects == <<seen, credits, accepted>>
history == <<handled, late, repeats, lost>>
vars == <<now, iat, clicks, seen, credits, accepted, committed, owner, worker,
          handled, late, repeats, lost, faults>>

Down == [pc |-> "down", pos |-> 0, idx |-> 0, hi |-> 0]
Idle(pos) == [pc |-> "poll", pos |-> pos, idx |-> 0, hi |-> 0]

(* A fault of kind k happens: it is enabled in this instance and paid for. *)
Fault(k) ==
  /\ k \in FaultKinds
  /\ faults < MaxFaults
  /\ faults' = faults + 1

At(w, pc) == worker[w].pc = pc
Record(w) == clicks[worker[w].idx]
Present(ch) == now < seen[ch]

(* Wrong variants (names ending in _Wrong) stand beside the definitions    *)
(* they vary; each breaks a property below.  Here: only the first record   *)
(* of a batch is applied.                                                  *)
NextRecord_Wrong(b) == [b EXCEPT !.pc = "commit"]

(* for _, rec := range recs: on to the next record, or to the commit.      *)
NextRecord(b) ==
  IF b.idx < b.hi THEN [b EXCEPT !.pc = "apply", !.idx = b.idx + 1]
                  ELSE [b EXCEPT !.pc = "commit"]

(* apply() returned nil for the current record.                            *)
Applied(w) ==
  /\ worker' = [worker EXCEPT ![w] = NextRecord(worker[w])]
  /\ handled' = handled \cup {worker[w].idx}

(* apply() returned an error: the rest of the batch is dropped without a   *)
(* commit.  The client's fetch position is past the batch and stays there. *)
Abandon(w) ==
  /\ worker' = [worker EXCEPT ![w] = Idle(worker[w].pos)]
  /\ UNCHANGED handled

Init ==
  /\ now = 1
  /\ iat = [ch \in Challenges |-> 0]
  /\ clicks = << >>
  /\ seen = [ch \in Challenges |-> 0]
  /\ credits = [ch \in Challenges |-> 0]
  /\ accepted = 0
  /\ committed = 0
  /\ owner = None
  /\ worker = [w \in Workers |-> Idle(0)]
  /\ handled = {}
  /\ late = {}
  /\ repeats = [ch \in Challenges |-> 0]
  /\ lost = {}
  /\ faults = 0

-----------------------------------------------------------------------------
(* The environment: time, the API that issues challenges and appends click *)
(* events.  ClickPipeline puts ClickIngest in its place.                   *)

Tick ==
  /\ now < MaxTime
  /\ now' = now + 1
  /\ UNCHANGED <<iat, clicks, effects, committed, owner, worker, history, faults>>

Issue(ch) ==
  /\ iat[ch] = 0
  /\ iat' = [iat EXCEPT ![ch] = now]
  /\ UNCHANGED <<now, clicks, effects, committed, owner, worker, history, faults>>

(* Wrong: the token's expiry is not checked.                               *)
Append1_Wrong(ch) ==
  /\ Len(clicks) < MaxRecords
  /\ iat[ch] > 0
  /\ clicks' = Append(clicks, [ch |-> ch, at |-> now])
  /\ UNCHANGED <<now, iat, effects, committed, owner, worker, history, faults>>

(* A challenge may be submitted, and its event appended, any number of     *)
(* times before it expires.                                                *)
Append1(ch) ==
  /\ Len(clicks) < MaxRecords
  /\ iat[ch] > 0
  /\ now <= iat[ch] + Window
  /\ clicks' = Append(clicks, [ch |-> ch, at |-> now])
  /\ UNCHANGED <<now, iat, effects, committed, owner, worker, history, faults>>

AppendPoison ==
  /\ Len(clicks) < MaxRecords
  /\ Fault("poison")
  /\ clicks' = Append(clicks, [ch |-> Poison, at |-> now])
  /\ UNCHANGED <<now, iat, effects, committed, owner, worker, history>>

-----------------------------------------------------------------------------
(* The consumer group protocol, as the client library shows it.            *)

(* Wrong: the new owner starts at the end of the log.                      *)
Assign_Wrong(w) ==
  /\ owner # w
  /\ ~At(w, "down")
  /\ IF owner = None THEN UNCHANGED faults ELSE Fault("rebalance")
  /\ owner' = w
  /\ worker' = [worker EXCEPT ![w].pos = Len(clicks)]
  /\ UNCHANGED <<now, ingest, effects, committed, history>>

(* A rebalance starts the new owner's fetch position at the committed      *)
(* offset.  The old owner is not stopped: a batch it holds is finished and *)
(* its commit sent.  A worker may get the partition back in mid-batch.     *)
Assign(w) ==
  /\ owner # w
  /\ ~At(w, "down")
  /\ IF owner = None THEN UNCHANGED faults ELSE Fault("rebalance")
  /\ owner' = w
  /\ worker' = [worker EXCEPT ![w].pos = committed]
  /\ UNCHANGED <<now, ingest, effects, committed, history>>

(* The process dies or is shut down at any point of the loop.              *)
Crash(w) ==
  /\ ~At(w, "down")
  /\ Fault("crash")
  /\ worker' = [worker EXCEPT ![w] = Down]
  /\ owner' = IF owner = w THEN None ELSE owner
  /\ lost' = IF At(w, "incr") THEN lost \cup {Record(w).ch} ELSE lost
  /\ UNCHANGED <<now, ingest, effects, committed, handled, late, repeats>>

Restart(w) ==
  /\ At(w, "down")
  /\ worker' = [worker EXCEPT ![w] = Idle(0)]
  /\ UNCHANGED <<now, ingest, effects, committed, owner, history, faults>>

-----------------------------------------------------------------------------
(* consume(): one poll, then apply() record by record, then the commit.    *)

(* PollFetches returns some of the records after the fetch position.       *)
Poll(w) ==
  /\ At(w, "poll")
  /\ owner = w
  /\ \E hi \in worker[w].pos + 1 .. Len(clicks) :
       worker' = [worker EXCEPT ![w] =
         [pc |-> "apply", pos |-> hi, idx |-> worker[w].pos + 1, hi |-> hi]]
  /\ UNCHANGED <<now, ingest, effects, committed, owner, history, faults>>

(* The poll carries an error, of another partition: consume() goes back to *)
(* the poll and leaves the records that came with the error unapplied.     *)
PollError(w) ==
  /\ At(w, "poll")
  /\ owner = w
  /\ Fault("fetch")
  /\ \E hi \in worker[w].pos + 1 .. Len(clicks) :
       worker' = [worker EXCEPT ![w].pos = hi]
  /\ UNCHANGED <<now, ingest, effects, committed, owner, history>>

SkipMalformed(w) ==
  /\ At(w, "apply")
  /\ Record(w).ch = Poison
  /\ Applied(w)
  /\ UNCHANGED <<now, ingest, effects, committed, owner, late, repeats, lost, faults>>

(* Wrong: the key lives only as long as the token.                         *)
MarkSeen_Wrong(ch) == seen' = [seen EXCEPT ![ch] = now + Window]

(* SET NX EX of the seen key took effect.                                  *)
MarkSeen(ch) == seen' = [seen EXCEPT ![ch] = now + SeenTTL]

(* FirstSee returns true: the effect may run.                              *)
FirstSeeWins(w) ==
  /\ At(w, "apply")
  /\ Record(w).ch \in Challenges
  /\ ~Present(Record(w).ch)
  /\ MarkSeen(Record(w).ch)
  /\ late' = IF now > Record(w).at + MaxLag THEN late \cup {Record(w).ch} ELSE late
  /\ worker' = [worker EXCEPT ![w].pc = "incr"]
  /\ UNCHANGED <<now, ingest, credits, accepted, committed, owner, handled,
                 repeats, lost, faults>>

(* Wrong: a duplicate still counts as an accepted submit.                  *)
FirstSeeRepeat_Wrong(w) ==
  /\ At(w, "apply")
  /\ Record(w).ch \in Challenges
  /\ Present(Record(w).ch)
  /\ accepted' = accepted + 1
  /\ Applied(w)
  /\ UNCHANGED <<now, ingest, seen, credits, committed, owner, late, repeats, lost, faults>>

(* FirstSee returns false: "already applied".                              *)
FirstSeeRepeat(w) ==
  /\ At(w, "apply")
  /\ Record(w).ch \in Challenges
  /\ Present(Record(w).ch)
  /\ Applied(w)
  /\ UNCHANGED <<now, ingest, effects, committed, owner, late, repeats, lost, faults>>

(* FirstSee returns an error; the key may have been set or not.            *)
FirstSeeError(w) ==
  /\ At(w, "apply")
  /\ Record(w).ch \in Challenges
  /\ Fault("redis")
  /\ \/ UNCHANGED <<seen, lost>>
     \/ /\ ~Present(Record(w).ch)
        /\ MarkSeen(Record(w).ch)
        /\ lost' = lost \cup {Record(w).ch}
  /\ Abandon(w)
  /\ UNCHANGED <<now, ingest, credits, accepted, committed, owner, late, repeats>>

(* The Redis client lost the reply to its SET NX and sent it again: the    *)
(* second one finds the key of the first, and the answer is false.         *)
FirstSeeSentTwice(w) ==
  /\ At(w, "apply")
  /\ Record(w).ch \in Challenges
  /\ ~Present(Record(w).ch)
  /\ Fault("resend")
  /\ MarkSeen(Record(w).ch)
  /\ lost' = lost \cup {Record(w).ch}
  /\ Applied(w)
  /\ UNCHANGED <<now, ingest, credits, accepted, committed, owner, late, repeats>>

Credit(ch, n) == credits' = [credits EXCEPT ![ch] = @ + n]

(* Wrong: the count is lost on the way to INCRBY.                          *)
IncrBy_Wrong(w) ==
  /\ At(w, "incr")
  /\ worker' = [worker EXCEPT ![w].pc = "stats"]
  /\ UNCHANGED <<now, ingest, effects, committed, owner, history, faults>>

(* INCRBY counter:total count.                                             *)
IncrBy(w) ==
  /\ At(w, "incr")
  /\ Credit(Record(w).ch, 1)
  /\ worker' = [worker EXCEPT ![w].pc = "stats"]
  /\ UNCHANGED <<now, ingest, seen, accepted, committed, owner, history, faults>>

IncrByError(w) ==
  /\ At(w, "incr")
  /\ Fault("redis")
  /\ \/ UNCHANGED credits /\ lost' = lost \cup {Record(w).ch}
     \/ UNCHANGED lost /\ Credit(Record(w).ch, 1)
  /\ Abandon(w)
  /\ UNCHANGED <<now, ingest, seen, accepted, committed, owner, late, repeats>>

IncrBySentTwice(w) ==
  /\ At(w, "incr")
  /\ Fault("resend")
  /\ Credit(Record(w).ch, 2)
  /\ repeats' = [repeats EXCEPT ![Record(w).ch] = @ + 1]
  /\ worker' = [worker EXCEPT ![w].pc = "stats"]
  /\ UNCHANGED <<now, ingest, seen, accepted, committed, owner, handled, late, lost>>

(* INCR stats:accepted_total: the last call of apply().                    *)
IncrStats(w) ==
  /\ At(w, "stats")
  /\ accepted' = accepted + 1
  /\ Applied(w)
  /\ UNCHANGED <<now, ingest, seen, credits, committed, owner, late, repeats, lost, faults>>

IncrStatsError(w) ==
  /\ At(w, "stats")
  /\ Fault("redis")
  /\ accepted' \in {accepted, accepted + 1}
  /\ Abandon(w)
  /\ UNCHANGED <<now, ingest, seen, credits, committed, owner, late, repeats, lost>>

IncrStatsSentTwice(w) ==
  /\ At(w, "stats")
  /\ Fault("resend")
  /\ accepted' = accepted + 2
  /\ Applied(w)
  /\ UNCHANGED <<now, ingest, seen, credits, committed, owner, late, repeats, lost>>

(* Wrong: the offset after the batch is skipped too.                       *)
Commit_Wrong(w) ==
  /\ At(w, "commit")
  /\ committed' = worker[w].hi + 1
  /\ worker' = [worker EXCEPT ![w] = Idle(worker[w].pos)]
  /\ UNCHANGED <<now, ingest, effects, owner, history, faults>>

(* CommitRecords.  The broker takes the commit of a worker that has lost   *)
(* the partition when its generation is current, and moves the offset back.*)
Commit(w) ==
  /\ At(w, "commit")
  /\ committed' = worker[w].hi
  /\ worker' = [worker EXCEPT ![w] = Idle(worker[w].pos)]
  /\ UNCHANGED <<now, ingest, effects, owner, history, faults>>

(* The commit fails; the error is logged and the loop goes on.             *)
CommitError(w) ==
  /\ At(w, "commit")
  /\ IF owner = w THEN Fault("commit") ELSE UNCHANGED faults
  /\ worker' = [worker EXCEPT ![w] = Idle(worker[w].pos)]
  /\ UNCHANGED <<now, ingest, effects, committed, owner, history>>

-----------------------------------------------------------------------------
Environment ==
  \/ Tick
  \/ \E ch \in Challenges : Issue(ch) \/ Append1(ch)
  \/ AppendPoison

Consume(w) ==
  \/ Poll(w) \/ SkipMalformed(w)
  \/ FirstSeeWins(w) \/ FirstSeeRepeat(w)
  \/ IncrBy(w) \/ IncrStats(w)
  \/ Commit(w) \/ CommitError(w)

Misfortune(w) ==
  \/ PollError(w)
  \/ FirstSeeError(w) \/ FirstSeeSentTwice(w)
  \/ IncrByError(w) \/ IncrBySentTwice(w)
  \/ IncrStatsError(w) \/ IncrStatsSentTwice(w)
  \/ Crash(w)

Next ==
  \/ Environment
  \/ \E w \in Workers : Consume(w) \/ Misfortune(w) \/ Assign(w) \/ Restart(w)

Spec == Init /\ [][Next]_vars

(* A worker's loop keeps running, a dead worker is restarted by its        *)
(* deployment, and the group coordinator gives a free partition to a       *)
(* live worker.  Nothing is assumed of clients, the clock or the faults.   *)
Fairness ==
  /\ \A w \in Workers : WF_vars(Consume(w)) /\ WF_vars(Restart(w))
  /\ WF_vars(\E w \in Workers : owner = None /\ Assign(w))

LiveSpec == Spec /\ Fairness

-----------------------------------------------------------------------------
(* Every variable has its type; the committed offset and the handled       *)
(* offsets lie in the log.                                                 *)
WorkerState ==
  [pc : {"down", "poll", "apply", "incr", "stats", "commit"},
   pos : Nat, idx : Nat, hi : Nat]

TypeOK ==
  /\ now \in Nat
  /\ iat \in [Challenges -> Nat]
  /\ clicks \in Seq([ch : Challenges \cup {Poison}, at : Nat])
  /\ seen \in [Challenges -> Nat]
  /\ credits \in [Challenges -> Nat]
  /\ accepted \in Nat
  /\ committed \in 0 .. Len(clicks)
  /\ owner \in Workers \cup {None}
  /\ worker \in [Workers -> WorkerState]
  /\ handled \subseteq DOMAIN clicks
  /\ late \subseteq Challenges
  /\ repeats \in [Challenges -> Nat]
  /\ lost \subseteq Challenges
  /\ faults \in Nat

(* The parts of the inductive invariant behind CreditAtMostOnce.           *)
BatchInLog ==
  \A w \in Workers :
    /\ worker[w].pos <= Len(clicks)
    /\ worker[w].hi <= Len(clicks)
    /\ worker[w].pc \in {"apply", "incr", "stats"} =>
         worker[w].idx \in 1 .. worker[w].hi
    /\ worker[w].pc = "incr" => Record(w).ch \in Challenges

(* A record was appended in its challenge's window.                        *)
LogInWindow ==
  /\ \A ch \in Challenges : iat[ch] <= now
  /\ \A o \in DOMAIN clicks :
       LET r == clicks[o] IN
         r.ch \in Challenges =>
           iat[r.ch] > 0 /\ iat[r.ch] <= r.at /\ r.at <= iat[r.ch] + Window

(* w has won FirstSee for ch and not yet added ch to the counter.          *)
Winning(w, ch) == At(w, "incr") /\ Record(w).ch = ch

(* Once somebody has won FirstSee for ch, the key outlives every record    *)
(* that may still ask for it in time.                                      *)
SeenCovers ==
  \A ch \in Challenges \ late :
    credits[ch] > 0 \/ (\E w \in Workers : Winning(w, ch)) =>
      iat[ch] > 0 /\ seen[ch] >= iat[ch] + SeenTTL

(* There is one winner, and only while ch has not been credited.           *)
OneWinner ==
  \A ch \in Challenges \ late : \A w \in Workers :
    Winning(w, ch) =>
      /\ credits[ch] = 0
      /\ \A v \in Workers : Winning(v, ch) => v = w

(* counterworker.go:1-2, "applies each accepted click to counter:total     *)
(* exactly once" -- the at-most-once half.  Whatever crashes, rebalances,  *)
(* overlapping owners, redeliveries, client retries and Redis errors do, a *)
(* challenge is added to counter:total at most once, plus once for each    *)
(* INCRBY the Redis client itself sent twice, as long as no record of it   *)
(* was looked up more than MaxLag after it was appended.                   *)
CreditAtMostOnce ==
  \A ch \in Challenges \ late : credits[ch] <= 1 + repeats[ch]

IInv ==
  TypeOK /\ BatchInLog /\ LogInWindow /\ SeenCovers /\ OneWinner /\ CreditAtMostOnce

(* counterworker.go:4-5, "offsets are committed only after effects apply": *)
(* no offset is committed past a record that no worker has handled.        *)
CommittedHandled == 1 .. committed \subseteq handled

(* ch is in counter:total, or the worker that won its FirstSee is about to *)
(* add it.                                                                 *)
Counted(ch) == credits[ch] > 0 \/ \E w \in Workers : Winning(w, ch)
Accounted(ch) == Counted(ch) \/ ch \in lost

(* The parts of the inductive invariant behind HandledCredited.            *)
SeenCounted == \A ch \in Challenges : seen[ch] > 0 => Accounted(ch)

StatsCounted ==
  \A w \in Workers :
    At(w, "stats") => Record(w).ch \in Challenges /\ credits[Record(w).ch] > 0

(* counterworker.go:1-2, the at-least-once half: a record that apply()     *)
(* returned nil for is counted, unless a winner of its FirstSee died, got  *)
(* an error or got a second answer between the SET NX and the INCRBY.      *)
HandledCredited ==
  \A o \in handled : clicks[o].ch \in Challenges => Accounted(clicks[o].ch)

LInv == SeenCounted /\ StatsCounted /\ HandledCredited

(* The rate the difficulty controller samples follows the counter: a fault *)
(* moves stats:accepted_total at most one away from the number of INCRBYs, *)
(* not counting workers that are between the two calls of apply().         *)
StatsFollowCredits ==
  LET stats == accepted + Cardinality({w \in Workers : At(w, "stats")})
      total == SumFunction(credits)
  IN  total <= stats + faults /\ stats <= total + faults

(* kafka.go:29-30, "a crash re-delivers": every record of the log is       *)
(* handled in the end, whoever dies or loses the partition in between.     *)
EveryRecordHandled ==
  \A o \in 1 .. MaxRecords : o <= Len(clicks) ~> o \in handled
=============================================================================
