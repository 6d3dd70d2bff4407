---------------------------- MODULE CounterTick ----------------------------
(***************************************************************************)
(* The publishing half of tick (internal/counterworker): every second each *)
(* worker reads counter:total and, when it moved, produces a counter frame *)
(* to the topic sse.counter and then claims, with SETNX, each milestone it *)
(* has reached, and produces a frame for each claim it won.  Replicas run  *)
(* the loop side by side and share only Redis and the topic.               *)
(*                                                                         *)
(* The other half, which steers the difficulty, is Difficulty: the two     *)
(* share no variable.  A tick whose read of the total fails leaves this    *)
(* half as it was.  The number of users in a frame is left out.            *)
(***************************************************************************)
EXTENDS Integers, Sequences, FiniteSets

CONSTANTS
  Replicas,
  Milestones,  \* the thresholds, in ascending order
  FaultKinds,  \* the kinds of fault that happen in this instance
  MaxFaults,   \* bound: faults in a behaviour
  MaxTotal     \* bound: the clicks counted

ASSUME FiniteReplicas == IsFiniteSet(Replicas) /\ MaxTotal \in Nat

ASSUME MilestonesAscend ==
  /\ Milestones \in Seq(Nat \ {0})
  /\ \A i, j \in DOMAIN Milestones : i < j => Milestones[i] < Milestones[j]

VARIABLES
  total,    \* the Redis key counter:total
  claimed,  \* the thresholds whose key milestone:<threshold> is set
  topic,    \* sse.counter as its followers saw it so far: the last and the
            \* highest total shown, and how often each milestone was announced
  loop,     \* loop[r]: the tick loop of a worker [pc, read, last, at]
  missed,   \* history: frames [type, n] a worker gave up, or may have
  losses,   \* history: how often Redis lost its data
  faults    \* faults so far

vars == <<total, claimed, topic, loop, missed, losses, faults>>

Unpublished == -1  \* lastPublished before the first frame
Thresholds == {Milestones[i] : i \in DOMAIN Milestones}
Frame(type, n) == [type |-> type, n |-> n]

(* pc: "wait" at the ticker, "publish" with a total that moved, "claim"    *)
(* and "announce" at Milestones[at].                                       *)
Waiting(last) == [pc |-> "wait", read |-> 0, last |-> last, at |-> 1]
Down == [Waiting(Unpublished) EXCEPT !.pc = "down"]

Fault(k) ==
  /\ k \in FaultKinds
  /\ faults < MaxFaults
  /\ faults' = faults + 1

At(r, pc) == loop[r].pc = pc
Threshold(r) == Milestones[loop[r].at]

(* Wrong: the total of now and not of the frame.                           *)
Reached_Wrong(r, i) == i \in DOMAIN Milestones /\ Milestones[i] <= total

Reached(r, i) == i \in DOMAIN Milestones /\ Milestones[i] <= loop[r].read

(* Wrong: the total of now counts as published.                            *)
GoOn_Wrong(r, i) ==
  IF Reached(r, i) THEN [loop[r] EXCEPT !.pc = "claim", !.at = i]
  ELSE Waiting(total)

(* On to milestone i, or back to the ticker when it is not reached.        *)
GoOn(r, i) ==
  IF Reached(r, i) THEN [loop[r] EXCEPT !.pc = "claim", !.at = i]
  ELSE Waiting(loop[r].read)

ProduceCounter(n) ==
  topic' = [topic EXCEPT !.last = n, !.high = IF n > @ THEN n ELSE @]
ProduceMilestone(m) == topic' = [topic EXCEPT !.told[m] = @ + 1]
Miss(fs) == missed' = missed \cup fs

Init ==
  /\ total = 0
  /\ claimed = {}
  /\ topic = [last |-> Unpublished, high |-> Unpublished, told |-> [m \in Thresholds |-> 0]]
  /\ loop = [r \in Replicas |-> Waiting(Unpublished)]
  /\ missed = {} /\ losses = 0 /\ faults = 0

-----------------------------------------------------------------------------
(* INCRBY of some consumer: a batch may pass several thresholds at once.   *)
Count ==
  /\ \E n \in 1..MaxTotal - total : total' = total + n
  /\ UNCHANGED <<claimed, topic, loop, missed, losses, faults>>

(* A tick reads the total; it goes on when the total has moved.            *)
Sample(r) ==
  /\ At(r, "wait") /\ total # loop[r].last
  /\ loop' = [loop EXCEPT ![r].pc = "publish", ![r].read = total]
  /\ UNCHANGED <<total, claimed, topic, missed, losses, faults>>

Publish(r) ==
  /\ At(r, "publish")
  /\ ProduceCounter(loop[r].read)
  /\ loop' = [loop EXCEPT ![r] = GoOn(r, 1)]
  /\ UNCHANGED <<total, claimed, missed, losses, faults>>

(* An error of the produce is only logged; the frame may be in the topic.  *)
PublishError(r) ==
  /\ At(r, "publish") /\ Fault("produce")
  /\ \/ ProduceCounter(loop[r].read)
     \/ UNCHANGED topic
  /\ Miss({Frame("counter", loop[r].read)})
  /\ loop' = [loop EXCEPT ![r] = GoOn(r, 1)]
  /\ UNCHANGED <<total, claimed, losses>>

(* Wrong: the milestone is announced by whoever reaches it.                *)
ClaimLost_Wrong(r) ==
  /\ At(r, "claim") /\ Threshold(r) \in claimed
  /\ loop' = [loop EXCEPT ![r].pc = "announce"]
  /\ UNCHANGED <<total, claimed, topic, missed, losses, faults>>

(* Wrong: on to the next milestone, reached or not.                        *)
ClaimLost_NoCheck(r) ==
  /\ At(r, "claim") /\ Threshold(r) \in claimed
  /\ loop' = [loop EXCEPT ![r].at = @ + 1]
  /\ UNCHANGED <<total, claimed, topic, missed, losses, faults>>

ClaimLost(r) ==
  /\ At(r, "claim") /\ Threshold(r) \in claimed
  /\ loop' = [loop EXCEPT ![r] = GoOn(r, loop[r].at + 1)]
  /\ UNCHANGED <<total, claimed, topic, missed, losses, faults>>

ClaimWon(r) ==
  /\ At(r, "claim") /\ Threshold(r) \notin claimed
  /\ claimed' = claimed \cup {Threshold(r)}
  /\ loop' = [loop EXCEPT ![r].pc = "announce"]
  /\ UNCHANGED <<total, topic, missed, losses, faults>>

(* An error ends the claims of this total: no later tick tries them again  *)
(* while the total stands still.  The SETNX may have taken effect.         *)
ClaimError(r) ==
  /\ At(r, "claim") /\ Fault("redis")
  /\ \/ UNCHANGED claimed
     \/ claimed' = claimed \cup {Threshold(r)}
  /\ Miss({Frame("milestone", Milestones[i]) :
             i \in {j \in loop[r].at..Len(Milestones) : Reached(r, j)}})
  /\ loop' = [loop EXCEPT ![r] = Waiting(loop[r].read)]
  /\ UNCHANGED <<total, topic, losses>>

(* The Redis client sends the SETNX again, whose first reply was lost.     *)
ClaimSentTwice(r) ==
  /\ At(r, "claim") /\ Threshold(r) \notin claimed /\ Fault("resend")
  /\ claimed' = claimed \cup {Threshold(r)}
  /\ Miss({Frame("milestone", Threshold(r))})
  /\ loop' = [loop EXCEPT ![r] = GoOn(r, loop[r].at + 1)]
  /\ UNCHANGED <<total, topic, losses>>

(* Wrong: the claims end with the first announcement.                      *)
Announce_Wrong(r) ==
  /\ At(r, "announce")
  /\ ProduceMilestone(Threshold(r))
  /\ loop' = [loop EXCEPT ![r] = Waiting(loop[r].read)]
  /\ UNCHANGED <<total, claimed, missed, losses, faults>>

Announce(r) ==
  /\ At(r, "announce")
  /\ ProduceMilestone(Threshold(r))
  /\ loop' = [loop EXCEPT ![r] = GoOn(r, loop[r].at + 1)]
  /\ UNCHANGED <<total, claimed, missed, losses, faults>>

AnnounceError(r) ==
  /\ At(r, "announce") /\ Fault("produce")
  /\ \/ ProduceMilestone(Threshold(r))
     \/ UNCHANGED topic
  /\ Miss({Frame("milestone", Threshold(r))})
  /\ loop' = [loop EXCEPT ![r] = GoOn(r, loop[r].at + 1)]
  /\ UNCHANGED <<total, claimed, losses>>

-----------------------------------------------------------------------------
(* Workers that die never announce the claims they had just won.           *)
Unannounced(rs) == {Frame("milestone", Threshold(r)) : r \in {q \in rs : At(q, "announce")}}

Crash(r) ==
  /\ ~At(r, "down") /\ Fault("crash")
  /\ Miss(Unannounced({r}))
  /\ loop' = [loop EXCEPT ![r] = Down]
  /\ UNCHANGED <<total, claimed, topic, losses>>

Restart(r) ==
  /\ At(r, "down")
  /\ loop' = [loop EXCEPT ![r] = Waiting(Unpublished)]
  /\ UNCHANGED <<total, claimed, topic, missed, losses, faults>>

(* Redis loses its data: under the running workers, or in a cold start, in *)
(* which the restore brings back an earlier total but no milestone keys.   *)
RedisLoss ==
  /\ Fault("loss")
  /\ \/ total' = 0 /\ UNCHANGED <<loop, missed>>
     \/ /\ total' \in 0..total
        /\ loop' = [r \in Replicas |-> Down]
        /\ Miss(Unannounced(Replicas))
  /\ claimed' = {}
  /\ losses' = losses + 1
  /\ UNCHANGED topic

Ticker(r) ==
  \/ Sample(r) \/ Publish(r) \/ ClaimLost(r) \/ ClaimWon(r) \/ Announce(r)
  \/ PublishError(r) \/ ClaimError(r) \/ AnnounceError(r)

Next ==
  \/ Count \/ RedisLoss
  \/ \E r \in Replicas : Ticker(r) \/ ClaimSentTwice(r) \/ Crash(r) \/ Restart(r)

Spec == Init /\ [][Next]_vars

(* The ticker fires for ever, and a worker that died is started again.     *)
Fairness == \A r \in Replicas : WF_vars(Ticker(r)) /\ WF_vars(Restart(r))
LiveSpec == Spec /\ Fairness

-----------------------------------------------------------------------------
LoopState == [pc : {"down", "wait", "publish", "claim", "announce"},
              read : Nat, last : Nat \cup {Unpublished}, at : Nat]
TopicState == [last : Nat \cup {Unpublished}, high : Nat \cup {Unpublished},
               told : [Thresholds -> Nat]]

(* Every variable has its type, and a worker at a milestone has reached it. *)
TypeOK ==
  /\ total \in 0..MaxTotal
  /\ claimed \subseteq Thresholds
  /\ topic \in TopicState
  /\ loop \in [Replicas -> LoopState]
  /\ \A r \in Replicas : loop[r].pc \in {"claim", "announce"} => Reached(r, loop[r].at)
  /\ losses \in Nat /\ faults \in Nat

(* However many workers tick, crash and retry, a milestone is announced    *)
(* once in the life of its Redis key (claimMilestones: an "exactly-once"    *)
(* claim, an "at-most-once announcement").  A Redis that lost its data      *)
(* forgets its claims, which the backup does not hold, and allows one more. *)
MilestoneOnce == \A m \in Thresholds : topic.told[m] <= 1 + losses

(* Whoever follows the topic has seen the counter at or past a threshold   *)
(* before its milestone, unless that counter frame was lost: tick produces *)
(* the frame before it claims, with one total for both.                    *)
CounterFirst ==
  [][\A m \in Thresholds :
       topic'.told[m] > topic.told[m] =>
         \/ topic.high >= m
         \/ \E f \in missed : f.type = "counter" /\ f.n >= m]_vars

(* Frames of two workers may go back in time, but once the total stands    *)
(* still the last counter frame shows it, unless its produce failed: a     *)
(* worker that published a stale total ticks again.                        *)
FramesConverge == <>[](topic.last = total \/ Frame("counter", total) \in missed)

(* A milestone the total has passed is announced in the end, or given up   *)
(* by an error, a lost reply or a crash at its claim, or lost with Redis.  *)
MilestoneAnnounced ==
  \A m \in Thresholds :
    total >= m ~> \/ topic.told[m] > 0
                  \/ Frame("milestone", m) \in missed
                  \/ total < m
=============================================================================
