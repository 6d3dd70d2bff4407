-------------------------- MODULE CounterTickProofs --------------------------
(***************************************************************************)
(* The promises of CounterTick that are invariants or action properties,   *)
(* for any number of replicas, any ascending milestones, any totals and    *)
(* any number of faults: TypeOK, MilestoneOnce and CounterFirst.           *)
(***************************************************************************)
EXTENDS CounterTick, FiniteSetTheorems, TLAPS

(* The workers that have won m and not announced it yet.                   *)
Announcing(m) == {r \in Replicas : At(r, "announce") /\ Threshold(r) = m}

(* Every announcement, made or to come, has its claim: the key that is     *)
(* there now, or one that a loss of Redis took away.                       *)
ClaimedOnce ==
  \A m \in Thresholds :
    topic.told[m] + Cardinality(Announcing(m)) <= losses + (IF m \in claimed THEN 1 ELSE 0)

(* The total n was shown, or its frame given up.                           *)
Shown(n) == topic.high >= n \/ Frame("counter", n) \in missed

(* A worker at the milestones has dealt with the counter frame first.      *)
FrameFirst == \A r \in Replicas : loop[r].pc \in {"claim", "announce"} => Shown(loop[r].read)

TickInv == TypeOK /\ ClaimedOnce /\ FrameFirst
-----------------------------------------------------------------------------
(* What a step of one worker may do.                                       *)

(* The loop goes on at milestone i, or waits: it announces nothing.        *)
LEMMA GoOnShape ==
  ASSUME TypeOK, NEW r \in Replicas, NEW i \in Nat
  PROVE  /\ GoOn(r, i) \in LoopState
         /\ GoOn(r, i).pc \in {"claim", "wait"}
         /\ GoOn(r, i).pc = "claim" =>
              /\ GoOn(r, i).read = loop[r].read
              /\ GoOn(r, i).at = i /\ i \in DOMAIN Milestones /\ Milestones[i] <= loop[r].read
<1>1. loop[r] \in LoopState
  BY DEF TypeOK
<1>2. CASE Reached(r, i)
  BY <1>1, <1>2 DEF GoOn, Reached, LoopState
<1>3. CASE ~Reached(r, i)
  BY <1>1, <1>3 DEF GoOn, Waiting, LoopState
<1> QED
  BY <1>2, <1>3

(* A worker at a milestone is at one of the thresholds, and below its read *)
(* total.                                                                  *)
LEMMA AtMilestone ==
  ASSUME TypeOK, NEW r \in Replicas, At(r, "claim") \/ At(r, "announce")
  PROVE  /\ Threshold(r) \in Thresholds
         /\ Threshold(r) <= loop[r].read
         /\ Threshold(r) \in Nat /\ loop[r].read \in Nat /\ loop[r].at \in Nat
<1>1. Reached(r, loop[r].at) /\ loop[r] \in LoopState
  BY DEF TypeOK, At
<1>2. loop[r].at \in DOMAIN Milestones /\ Milestones[loop[r].at] <= loop[r].read
  BY <1>1 DEF Reached
<1>3. Milestones[loop[r].at] \in Nat
  BY <1>2, MilestonesAscend
<1> QED
  BY <1>1, <1>2, <1>3 DEF Threshold, Thresholds, LoopState

(* A new loop state of one worker.                                         *)
Becomes(r, s) == loop' = [loop EXCEPT ![r] = s]

(* The loop's new state is a state, at a milestone only if it is reached,  *)
(* and the state "announce" is entered by nobody.                          *)
Quiet(r, s) ==
  /\ Becomes(r, s)
  /\ s \in LoopState
  /\ s.pc # "announce"
  /\ s.pc = "claim" => s.at \in DOMAIN Milestones /\ Milestones[s.at] <= s.read

(* What a quiet step leaves of the other workers' loops.                   *)
LEMMA QuietKept ==
  ASSUME TypeOK, NEW r \in Replicas, NEW s, Quiet(r, s)
  PROVE  /\ loop' \in [Replicas -> LoopState]
         /\ loop'[r] = s
         /\ \A q \in Replicas : q # r => loop'[q] = loop[q]
         /\ \A q \in Replicas : loop'[q].pc \in {"claim", "announce"} => Reached(q, loop[q].at)'
         /\ \A m : Announcing(m)' = Announcing(m) \ {r}
<1>1. /\ loop' \in [Replicas -> LoopState] /\ loop'[r] = s
      /\ \A q \in Replicas : q # r => loop'[q] = loop[q]
  BY DEF Quiet, Becomes, TypeOK
<1>2. \A q \in Replicas : loop'[q].pc \in {"claim", "announce"} => Reached(q, loop[q].at)'
  <2>1. s.pc \in {"claim", "announce"} => Reached(r, loop[r].at)'
    BY <1>1 DEF Quiet, Reached
  <2>2. \A q \in Replicas : q # r /\ loop'[q].pc \in {"claim", "announce"} => Reached(q, loop[q].at)'
    BY <1>1 DEF TypeOK, Reached
  <2> QED
    BY <1>1, <2>1, <2>2
<1>3. ASSUME NEW m PROVE Announcing(m)' = Announcing(m) \ {r}
  <2>1. ~At(r, "announce")'
    BY <1>1 DEF Quiet, At
  <2>2. \A q \in Replicas : q # r => (At(q, "announce")' <=> At(q, "announce"))
                                  /\ Threshold(q)' = Threshold(q)
    BY <1>1 DEF At, Threshold
  <2> QED
    BY <2>1, <2>2 DEF Announcing
<1> QED
  BY <1>1, <1>2, <1>3

(* Few enough workers to count.                                            *)
LEMMA AnnouncingFinite ==
  ASSUME NEW m
  PROVE  IsFiniteSet(Announcing(m)) /\ Cardinality(Announcing(m)) \in Nat
<1>1. Announcing(m) \in SUBSET Replicas
  BY DEF Announcing
<1>2. IsFiniteSet(Announcing(m))
  BY <1>1, FS_Subset, FiniteReplicas
<1> QED
  BY <1>2, FS_CardinalityType

(* Fewer announcements to come, no fewer keys, as many losses.             *)
LEMMA OnceKept ==
  ASSUME TypeOK, ClaimedOnce, losses' = losses, claimed \subseteq claimed',
         topic'.told = topic.told,
         \A m : Announcing(m)' \subseteq Announcing(m)
  PROVE  ClaimedOnce'
<1> SUFFICES ASSUME NEW m \in Thresholds
             PROVE  topic'.told[m] + Cardinality(Announcing(m)')
                      <= losses' + (IF m \in claimed' THEN 1 ELSE 0)
  BY DEF ClaimedOnce
<1>1. IsFiniteSet(Announcing(m)) /\ Cardinality(Announcing(m)) \in Nat
  BY AnnouncingFinite
<1>2. Cardinality(Announcing(m)') <= Cardinality(Announcing(m)) /\ IsFiniteSet(Announcing(m)')
  BY <1>1, FS_Subset
<1>3. Cardinality(Announcing(m)') \in Nat
  BY <1>2, FS_CardinalityType
<1>4. topic.told[m] \in Nat /\ losses \in Nat
  BY DEF TypeOK, TopicState
<1>5. topic.told[m] + Cardinality(Announcing(m)) <= losses + (IF m \in claimed THEN 1 ELSE 0)
  BY DEF ClaimedOnce
<1> QED
  BY <1>1, <1>2, <1>3, <1>4, <1>5
-----------------------------------------------------------------------------
(* What a step of one worker does to the topic, the claims and the rest.   *)

(* A counter frame.                                                        *)
LEMMA CounterProduced ==
  ASSUME TypeOK, NEW n \in Nat, ProduceCounter(n)
  PROVE  /\ topic' \in TopicState /\ topic'.told = topic.told
         /\ topic'.high >= topic.high /\ topic'.high >= n
<1>1. topic \in TopicState
  BY DEF TypeOK
<1>2. topic.high \in Int
  BY <1>1 DEF TopicState, Unpublished
<1>3. topic' = [topic EXCEPT !.last = n, !.high = IF n > topic.high THEN n ELSE topic.high]
  BY <1>1 DEF ProduceCounter, TopicState
<1>4. topic' \in TopicState /\ topic'.told = topic.told
  BY <1>1, <1>3 DEF TopicState
<1>5. topic'.high = IF n > topic.high THEN n ELSE topic.high
  BY <1>1, <1>3 DEF TopicState
<1> QED
  BY <1>2, <1>4, <1>5

(* A milestone frame.                                                      *)
LEMMA MilestoneProduced ==
  ASSUME TypeOK, NEW m \in Thresholds, ProduceMilestone(m)
  PROVE  /\ topic' \in TopicState /\ topic'.high = topic.high
         /\ topic'.told[m] = topic.told[m] + 1
         /\ \A k \in Thresholds : k # m => topic'.told[k] = topic.told[k]
<1>1. topic \in TopicState
  BY DEF TypeOK
<1>2. topic.told \in [Thresholds -> Nat]
  BY <1>1 DEF TopicState
<1>3. topic' = [topic EXCEPT !.told = [topic.told EXCEPT ![m] = topic.told[m] + 1]]
  BY <1>1, <1>2 DEF ProduceMilestone, TopicState
<1>4. [topic.told EXCEPT ![m] = topic.told[m] + 1] \in [Thresholds -> Nat]
  BY <1>2
<1> QED
  BY <1>1, <1>2, <1>3, <1>4 DEF TopicState

(* The steps of one worker.                                                *)
Step(r) == Ticker(r) \/ ClaimSentTwice(r) \/ Crash(r) \/ Restart(r)

(* An announcement, of the milestone a worker is at.                       *)
Announces(r) ==
  /\ At(r, "announce")
  /\ ProduceMilestone(Threshold(r))
  /\ claimed' = claimed

(* They forget nothing that was shown, claimed or given up, and produce a  *)
(* milestone frame only after its claim.                                   *)
LEMMA Effects ==
  ASSUME TypeOK, NEW r \in Replicas, Step(r)
  PROVE  /\ topic' \in TopicState /\ topic'.high >= topic.high
         /\ topic'.told = topic.told \/ Announces(r)
         /\ claimed \subseteq claimed' /\ claimed' \subseteq Thresholds
         /\ missed \subseteq missed'
         /\ losses' = losses /\ total' = total /\ faults' \in Nat
<1>1. topic \in TopicState /\ topic.high \in Int
  BY DEF TypeOK, TopicState, Unpublished
<1>2. /\ losses' = losses /\ total' = total /\ missed \subseteq missed'
      /\ faults' = faults \/ faults' = faults + 1
  BY DEF Step, Ticker, Sample, Publish, PublishError, ClaimLost, ClaimWon, ClaimError,
         Announce, AnnounceError, ClaimSentTwice, Crash, Restart, Fault, Miss
<1>3. claimed \subseteq claimed' /\ claimed' \subseteq Thresholds
  <2>1. claimed' = claimed \/ (At(r, "claim") /\ claimed' = claimed \cup {Threshold(r)})
    BY DEF Step, Ticker, Sample, Publish, PublishError, ClaimLost, ClaimWon, ClaimError,
           Announce, AnnounceError, ClaimSentTwice, Crash, Restart
  <2> QED
    BY <2>1, AtMilestone DEF TypeOK
<1>4. \/ topic' = topic
      \/ ProduceCounter(loop[r].read)
      \/ Announces(r)
  BY DEF Step, Ticker, Sample, Publish, PublishError, ClaimLost, ClaimWon, ClaimError,
         Announce, AnnounceError, ClaimSentTwice, Crash, Restart, Announces
<1>5. topic' \in TopicState /\ topic'.high >= topic.high
      /\ (topic'.told = topic.told \/ Announces(r))
  <2>1. CASE topic' = topic
    BY <1>1, <2>1
  <2>2. CASE ProduceCounter(loop[r].read)
    <3>1. loop[r].read \in Nat
      BY DEF TypeOK, LoopState
    <3> QED
      BY <2>2, <3>1, CounterProduced
  <2>3. CASE Announces(r)
    <3>1. Threshold(r) \in Thresholds
      BY <2>3, AtMilestone DEF Announces
    <3> QED
      BY <1>1, <2>3, <3>1, MilestoneProduced DEF Announces
  <2> QED
    BY <1>4, <2>1, <2>2, <2>3
<1>6. faults' \in Nat
  BY <1>2 DEF TypeOK
<1> QED
  BY <1>2, <1>3, <1>5, <1>6

(* What was shown or given up stays so.                                    *)
LEMMA ShownStays ==
  ASSUME TypeOK, topic'.high \in Int, topic'.high >= topic.high, missed \subseteq missed',
         NEW n \in Nat, Shown(n)
  PROVE  Shown(n)'
<1>1. topic.high \in Int
  BY DEF TypeOK, TopicState, Unpublished
<1> QED
  BY <1>1 DEF Shown

(* Every step of a worker but a claim that is won is quiet, and a worker   *)
(* goes to the milestones when its total is shown or its frame given up.   *)
LEMMA QuietStep ==
  ASSUME TypeOK, FrameFirst, NEW r \in Replicas, Step(r), ~ClaimWon(r)
  PROVE  \E s : Quiet(r, s) /\ (s.pc = "claim" => Shown(s.read)')
<1>0. loop[r] \in LoopState /\ total \in Nat
  BY FiniteReplicas DEF TypeOK
<1>n. PICK n \in Nat : n = loop[r].read
  BY <1>0 DEF LoopState
<1>1. topic'.high \in Int /\ topic'.high >= topic.high /\ missed \subseteq missed'
  BY Effects DEF TopicState, Unpublished
<1>2. ASSUME NEW s, Becomes(r, s), s \in LoopState, s.pc \in {"down", "wait", "publish"}
      PROVE  \E t : Quiet(r, t) /\ (t.pc = "claim" => Shown(t.read)')
  BY <1>2 DEF Quiet
<1>3. ASSUME NEW i \in Nat, Becomes(r, GoOn(r, i)), Shown(n)'
      PROVE  \E s : Quiet(r, s) /\ (s.pc = "claim" => Shown(s.read)')
  <2>1. PICK s : s = GoOn(r, i)
    OBVIOUS
  <2>2. /\ s \in LoopState /\ s.pc \in {"claim", "wait"}
        /\ s.pc = "claim" =>
             s.read = n /\ s.at = i /\ i \in DOMAIN Milestones /\ Milestones[i] <= n
    BY <1>n, <2>1, GoOnShape
  <2>3. Quiet(r, s)
    BY <1>3, <2>1, <2>2 DEF Quiet
  <2>4. s.pc = "claim" => Shown(s.read)'
    BY <1>3, <2>2
  <2> QED
    BY <2>3, <2>4
<1>4. loop[r].read \in Nat /\ loop[r].at + 1 \in Nat
  BY <1>0 DEF LoopState
<1>5. At(r, "claim") \/ At(r, "announce") => Shown(n)'
  BY <1>1, <1>n, ShownStays DEF FrameFirst, At
<1>6. CASE Sample(r)
  <2> DEFINE s == [loop[r] EXCEPT !.pc = "publish", !.read = total]
  <2>1. Becomes(r, s)
    BY <1>0, <1>6 DEF Sample, Becomes, TypeOK, LoopState
  <2>2. s \in LoopState /\ s.pc = "publish"
    BY <1>0 DEF LoopState
  <2> QED
    BY <1>2, <2>1, <2>2
<1>7. CASE Publish(r) \/ PublishError(r)
  <2>1. Becomes(r, GoOn(r, 1))
    BY <1>7 DEF Publish, PublishError, Becomes
  <2>2. Shown(n)'
    <3>1. CASE ProduceCounter(loop[r].read)
      BY <1>n, <3>1, CounterProduced DEF Shown
    <3>2. CASE Miss({Frame("counter", loop[r].read)})
      BY <1>n, <3>2 DEF Shown, Miss, Frame
    <3> QED
      BY <1>7, <3>1, <3>2 DEF Publish, PublishError
  <2> QED
    BY <1>3, <2>1, <2>2
<1>8. CASE ClaimLost(r) \/ ClaimSentTwice(r) \/ Announce(r) \/ AnnounceError(r)
  <2>1. Becomes(r, GoOn(r, loop[r].at + 1)) /\ (At(r, "claim") \/ At(r, "announce"))
    BY <1>8 DEF ClaimLost, ClaimSentTwice, Announce, AnnounceError, Becomes
  <2> QED
    BY <1>3, <1>4, <1>5, <2>1
<1>9. CASE ClaimError(r)
  <2>1. Becomes(r, Waiting(loop[r].read))
    BY <1>9 DEF ClaimError, Becomes
  <2> QED
    BY <1>2, <1>4, <2>1 DEF Waiting, LoopState
<1>10. CASE Crash(r)
  <2>1. Becomes(r, Down)
    BY <1>10 DEF Crash, Becomes
  <2>2. Down \in LoopState /\ Down.pc = "down"
    BY DEF Down, Waiting, LoopState
  <2> QED
    BY <1>2, <2>1, <2>2
<1>11. CASE Restart(r)
  <2>1. Becomes(r, Waiting(Unpublished))
    BY <1>11 DEF Restart, Becomes
  <2> QED
    BY <1>2, <2>1 DEF Waiting, LoopState
<1> QED
  BY <1>6, <1>7, <1>8, <1>9, <1>10, <1>11 DEF Step, Ticker
-----------------------------------------------------------------------------
(* TickInv is inductive.                                                   *)

(* Nobody has reached a milestone, and nothing is announced.               *)
LEMMA InitTick == Init => TickInv
<1> SUFFICES ASSUME Init PROVE TickInv
  OBVIOUS
<1>1. TypeOK
  BY FiniteReplicas, MilestonesAscend
  DEF Init, TypeOK, Waiting, LoopState, TopicState, Unpublished
<1>2. ASSUME NEW m \in Thresholds
      PROVE  topic.told[m] + Cardinality(Announcing(m)) <= losses + (IF m \in claimed THEN 1 ELSE 0)
  <2>1. Announcing(m) = {}
    BY DEF Init, Announcing, At, Waiting
  <2>2. Cardinality(Announcing(m)) = 0
    BY <2>1, FS_EmptySet
  <2> QED
    BY <1>2, <2>2 DEF Init
<1>3. FrameFirst
  BY DEF Init, FrameFirst, Waiting
<1> QED
  BY <1>1, <1>2, <1>3 DEF TickInv, ClaimedOnce

(* A claim that is won adds the winner to those who will announce.         *)
LEMMA WonTick ==
  ASSUME TickInv, NEW r \in Replicas, ClaimWon(r)
  PROVE  TickInv'
<1> DEFINE k == Threshold(r)
<1>0. TypeOK /\ ClaimedOnce /\ FrameFirst
  BY DEF TickInv
<1>1. /\ At(r, "claim") /\ k \in Thresholds /\ k \notin claimed
      /\ claimed' = claimed \cup {k} /\ loop' = [loop EXCEPT ![r].pc = "announce"]
      /\ UNCHANGED <<total, topic, missed, losses, faults>>
  BY <1>0, AtMilestone DEF ClaimWon
<1>2. loop[r] \in LoopState
  BY <1>0 DEF TypeOK
<1>3. /\ loop' \in [Replicas -> LoopState]
      /\ loop'[r] = [loop[r] EXCEPT !.pc = "announce"]
      /\ \A q \in Replicas : q # r => loop'[q] = loop[q]
  BY <1>0, <1>1, <1>2 DEF TypeOK, LoopState
<1>4. \A q \in Replicas : loop'[q].at = loop[q].at /\ loop'[q].read = loop[q].read
                          /\ (loop'[q].pc \in {"claim", "announce"} =>
                                loop[q].pc \in {"claim", "announce"})
  BY <1>1, <1>2, <1>3 DEF LoopState, At
<1>5. TypeOK'
  <2>1. \A q \in Replicas : loop'[q].pc \in {"claim", "announce"} => Reached(q, loop[q].at)'
    BY <1>0, <1>4 DEF TypeOK, Reached
  <2> QED
    BY <1>0, <1>1, <1>3, <2>1 DEF TypeOK
<1>6. FrameFirst'
  BY <1>0, <1>1, <1>4 DEF FrameFirst, Shown
<1>7. ASSUME NEW m \in Thresholds
      PROVE  topic'.told[m] + Cardinality(Announcing(m)')
               <= losses' + (IF m \in claimed' THEN 1 ELSE 0)
  <2>1. IsFiniteSet(Announcing(m)) /\ Cardinality(Announcing(m)) \in Nat
    BY AnnouncingFinite
  <2>2. topic.told[m] \in Nat /\ losses \in Nat
    BY <1>0 DEF TypeOK, TopicState
  <2>3. topic.told[m] + Cardinality(Announcing(m)) <= losses + (IF m \in claimed THEN 1 ELSE 0)
    BY <1>0 DEF ClaimedOnce
  <2>4. \A q \in Replicas : Threshold(q)' = Threshold(q)
    BY <1>4 DEF Threshold
  <2>5. \A q \in Replicas : q # r => (At(q, "announce")' <=> At(q, "announce"))
    BY <1>3 DEF At
  <2>6. At(r, "announce")'
    BY <1>2, <1>3 DEF At, LoopState
  <2>7. CASE m = k
    <3>1. Announcing(m)' = Announcing(m) \cup {r}
      BY <2>4, <2>5, <2>6, <2>7 DEF Announcing
    <3>2. Cardinality(Announcing(m) \cup {r}) =
            IF r \in Announcing(m) THEN Cardinality(Announcing(m))
            ELSE Cardinality(Announcing(m)) + 1
      BY <2>1, FS_AddElement
    <3> QED
      BY <1>1, <2>1, <2>2, <2>3, <2>7, <3>1, <3>2
  <2>8. CASE m # k
    <3>1. Announcing(m)' = Announcing(m)
      BY <2>4, <2>5, <2>8 DEF Announcing
    <3> QED
      BY <1>1, <2>3, <2>8, <3>1
  <2> QED
    BY <2>7, <2>8
<1> QED
  BY <1>5, <1>6, <1>7 DEF TickInv, ClaimedOnce

(* An announcement is one fewer to come.                                   *)
LEMMA AnnouncedOnce ==
  ASSUME TypeOK, ClaimedOnce, NEW r \in Replicas, Announces(r), losses' = losses,
         \A m : Announcing(m)' = Announcing(m) \ {r}
  PROVE  ClaimedOnce'
<1> DEFINE k == Threshold(r)
<1>1. k \in Thresholds
  BY AtMilestone DEF Announces
<1> SUFFICES ASSUME NEW m \in Thresholds
             PROVE  topic'.told[m] + Cardinality(Announcing(m)')
                      <= losses' + (IF m \in claimed' THEN 1 ELSE 0)
  BY DEF ClaimedOnce
<1>2. IsFiniteSet(Announcing(m)) /\ Cardinality(Announcing(m)) \in Nat
  BY AnnouncingFinite
<1>3. topic.told[m] \in Nat /\ losses \in Nat /\ claimed' = claimed
  BY DEF TypeOK, TopicState, Announces
<1>4. topic.told[m] + Cardinality(Announcing(m)) <= losses + (IF m \in claimed THEN 1 ELSE 0)
  BY DEF ClaimedOnce
<1>5. Announcing(m)' = Announcing(m) \ {r}
  OBVIOUS
<1>6. CASE m = k
  <2>1. r \in Announcing(m)
    BY <1>6 DEF Announcing, Announces
  <2>2. Cardinality(Announcing(m)') = Cardinality(Announcing(m)) - 1
    BY <1>2, <1>5, <2>1, FS_RemoveElement
  <2>3. topic'.told[m] = topic.told[m] + 1
    BY <1>1, <1>6, MilestoneProduced DEF Announces
  <2> QED
    BY <1>2, <1>3, <1>4, <2>2, <2>3
<1>7. CASE m # k
  <2>1. r \notin Announcing(m)
    BY <1>7 DEF Announcing
  <2>2. Announcing(m)' = Announcing(m)
    BY <1>5, <2>1
  <2>3. topic'.told[m] = topic.told[m]
    BY <1>1, <1>7, MilestoneProduced DEF Announces
  <2> QED
    BY <1>3, <1>4, <2>2, <2>3
<1> QED
  BY <1>6, <1>7

(* The steps of a worker.                                                  *)
LEMMA WorkerTick ==
  ASSUME TickInv, NEW r \in Replicas, Step(r)
  PROVE  TickInv'
<1>0. TypeOK /\ ClaimedOnce /\ FrameFirst
  BY DEF TickInv
<1>1. CASE ClaimWon(r)
  BY <1>1, WonTick
<1>2. CASE ~ClaimWon(r)
  <2>1. PICK s : Quiet(r, s) /\ (s.pc = "claim" => Shown(s.read)')
    BY <1>0, <1>2, QuietStep
  <2>2. /\ loop' \in [Replicas -> LoopState] /\ loop'[r] = s
        /\ \A q \in Replicas : q # r => loop'[q] = loop[q]
        /\ \A q \in Replicas : loop'[q].pc \in {"claim", "announce"} => Reached(q, loop[q].at)'
        /\ \A m : Announcing(m)' = Announcing(m) \ {r}
    BY <1>0, <2>1, QuietKept
  <2>3. /\ topic' \in TopicState /\ topic'.high >= topic.high
        /\ topic'.told = topic.told \/ Announces(r)
        /\ claimed \subseteq claimed' /\ claimed' \subseteq Thresholds
        /\ missed \subseteq missed'
        /\ losses' = losses /\ total' = total /\ faults' \in Nat
    BY <1>0, Effects
  <2>4. TypeOK'
    BY <1>0, <2>2, <2>3 DEF TypeOK
  <2>5. ClaimedOnce'
    <3>1. CASE topic'.told = topic.told
      BY <1>0, <2>2, <2>3, <3>1, OnceKept
    <3>2. CASE Announces(r)
      BY <1>0, <2>2, <2>3, <3>2, AnnouncedOnce
    <3> QED
      BY <2>3, <3>1, <3>2
  <2>6. FrameFirst'
    <3> SUFFICES ASSUME NEW q \in Replicas, loop'[q].pc \in {"claim", "announce"}
                 PROVE  \E n : n = loop'[q].read /\ Shown(n)'
      BY DEF FrameFirst, Shown
    <3>1. CASE q = r
      BY <2>1, <2>2, <3>1 DEF Quiet
    <3>2. CASE q # r
      <4>1. loop'[q] = loop[q] /\ loop[q] \in LoopState
        BY <1>0, <2>2, <3>2 DEF TypeOK
      <4>2. PICK n \in Nat : n = loop[q].read
        BY <4>1 DEF LoopState
      <4>3. Shown(n)
        BY <1>0, <4>1, <4>2 DEF FrameFirst
      <4>4. topic'.high \in Int
        BY <2>3 DEF TopicState, Unpublished
      <4>5. Shown(n)'
        BY <1>0, <2>3, <4>3, <4>4, ShownStays
      <4> QED
        BY <4>1, <4>2, <4>5
    <3> QED
      BY <3>1, <3>2
  <2> QED
    BY <2>4, <2>5, <2>6 DEF TickInv
<1> QED
  BY <1>1, <1>2

(* A loss takes the keys away, and counts for each.                        *)
LEMMA LossTick ==
  ASSUME TickInv, RedisLoss
  PROVE  TickInv'
<1>0. TypeOK /\ ClaimedOnce /\ FrameFirst
  BY DEF TickInv
<1>1. /\ topic' = topic /\ claimed' = {} /\ losses' = losses + 1 /\ faults' = faults + 1
      /\ missed \subseteq missed'
      /\ loop' = loop \/ loop' = [r \in Replicas |-> Down]
      /\ total' = 0 \/ total' \in 0 .. total
  BY DEF RedisLoss, Fault, Miss
<1>2. Down \in LoopState /\ Down.pc = "down"
  BY DEF Down, Waiting, LoopState, Unpublished
<1>3. \A q \in Replicas : loop'[q].pc \in {"claim", "announce"} => loop'[q] = loop[q]
  BY <1>1, <1>2
<1>4. total' \in 0 .. MaxTotal
  BY <1>0, <1>1, FiniteReplicas DEF TypeOK
<1>5. TypeOK'
  <2>1. \A q \in Replicas : loop'[q].pc \in {"claim", "announce"} => Reached(q, loop[q].at)'
    BY <1>0, <1>3 DEF TypeOK, Reached
  <2>2. loop' \in [Replicas -> LoopState]
    BY <1>0, <1>1, <1>2 DEF TypeOK
  <2> QED
    BY <1>0, <1>1, <1>4, <2>1, <2>2 DEF TypeOK
<1>6. FrameFirst'
  BY <1>0, <1>1, <1>3 DEF FrameFirst, Shown
<1>7. ASSUME NEW m \in Thresholds
      PROVE  topic'.told[m] + Cardinality(Announcing(m)')
               <= losses' + (IF m \in claimed' THEN 1 ELSE 0)
  <2>1. IsFiniteSet(Announcing(m)) /\ Cardinality(Announcing(m)) \in Nat
    BY AnnouncingFinite
  <2>2. Announcing(m)' \in SUBSET Announcing(m)
    BY <1>3 DEF Announcing, At, Threshold
  <2>3. Cardinality(Announcing(m)') <= Cardinality(Announcing(m)) /\ IsFiniteSet(Announcing(m)')
    BY <2>1, <2>2, FS_Subset
  <2>4. Cardinality(Announcing(m)') \in Nat
    BY <2>3, FS_CardinalityType
  <2>5. topic.told[m] \in Nat /\ losses \in Nat
    BY <1>0 DEF TypeOK, TopicState
  <2>6. topic.told[m] + Cardinality(Announcing(m)) <= losses + (IF m \in claimed THEN 1 ELSE 0)
    BY <1>0 DEF ClaimedOnce
  <2> QED
    BY <1>1, <2>1, <2>3, <2>4, <2>5, <2>6
<1> QED
  BY <1>5, <1>6, <1>7 DEF TickInv, ClaimedOnce

(* Every step.                                                             *)
LEMMA StepTick == TickInv /\ [Next]_vars => TickInv'
<1> SUFFICES ASSUME TickInv, [Next]_vars PROVE TickInv'
  OBVIOUS
<1>1. CASE Count
  <2>1. /\ total' \in 0 .. MaxTotal
        /\ UNCHANGED <<claimed, topic, loop, missed, losses, faults>>
    BY <1>1, FiniteReplicas DEF Count, TickInv, TypeOK
  <2> QED
    BY <2>1 DEF TickInv, TypeOK, ClaimedOnce, FrameFirst, Shown, Announcing, At, Threshold, Reached
<1>2. CASE UNCHANGED vars
  BY <1>2 DEF vars, TickInv, TypeOK, ClaimedOnce, FrameFirst, Shown, Announcing, At,
              Threshold, Reached
<1> QED
  BY <1>1, <1>2, LossTick, WorkerTick DEF Next, Step
-----------------------------------------------------------------------------
(* Every variable has its type, and a worker at a milestone has reached it. *)
THEOREM TickTypeCorrect == Spec => []TypeOK
<1>1. TickInv => TypeOK
  BY DEF TickInv
<1> QED
  BY InitTick, StepTick, <1>1, PTL DEF Spec

(* A milestone is announced once in the life of its Redis key, however     *)
(* many workers tick, crash, and send a claim or a frame twice.            *)
THEOREM AnnouncedOncePerKey == Spec => []MilestoneOnce
<1>1. TickInv => MilestoneOnce
  <2> SUFFICES ASSUME TickInv, NEW m \in Thresholds PROVE topic.told[m] <= 1 + losses
    BY DEF MilestoneOnce
  <2>1. topic.told[m] + Cardinality(Announcing(m)) <= losses + (IF m \in claimed THEN 1 ELSE 0)
    BY DEF TickInv, ClaimedOnce
  <2>2. topic.told[m] \in Nat /\ losses \in Nat
    BY DEF TickInv, TypeOK, TopicState
  <2>3. Cardinality(Announcing(m)) \in Nat
    BY AnnouncingFinite
  <2> QED
    BY <2>1, <2>2, <2>3
<1> QED
  BY InitTick, StepTick, <1>1, PTL DEF Spec

(* No milestone is announced before a counter frame at or past it, unless  *)
(* that frame was given up.                                                *)
THEOREM CounterComesFirst == Spec => CounterFirst
<1>1. ASSUME TickInv, [Next]_vars
      PROVE  [\A m \in Thresholds : topic'.told[m] > topic.told[m] =>
                \/ topic.high >= m
                \/ \E f \in missed : f.type = "counter" /\ f.n >= m]_vars
  <2> SUFFICES ASSUME Next, NEW m \in Thresholds, topic'.told[m] > topic.told[m]
               PROVE  topic.high >= m \/ \E f \in missed : f.type = "counter" /\ f.n >= m
    BY <1>1
  <2>1. TypeOK /\ FrameFirst /\ topic.told[m] \in Nat
    BY <1>1 DEF TickInv, TypeOK, TopicState
  <2>2. topic'.told # topic.told
    BY <2>1
  <2>3. PICK r \in Replicas : Step(r)
    BY <2>2 DEF Next, Count, RedisLoss, Step
  <2>4. Announces(r)
    BY <2>1, <2>2, <2>3, Effects
  <2>5. Threshold(r) = m
    BY <2>1, <2>4, AtMilestone, MilestoneProduced DEF Announces
  <2>6. m <= loop[r].read /\ m \in Nat /\ loop[r].read \in Nat /\ Shown(loop[r].read)
    BY <2>1, <2>4, <2>5, AtMilestone DEF Announces, FrameFirst, At
  <2>7. topic.high \in Int
    BY <2>1 DEF TypeOK, TopicState, Unpublished
  <2>8. CASE topic.high >= loop[r].read
    BY <2>6, <2>7, <2>8
  <2>9. CASE Frame("counter", loop[r].read) \in missed
    BY <2>6, <2>9 DEF Frame
  <2> QED
    BY <2>6, <2>8, <2>9 DEF Shown
<1> QED
  BY InitTick, StepTick, <1>1, PTL DEF Spec, CounterFirst
=============================================================================
