------------------------- MODULE ClickPipelineProofs -------------------------
(***************************************************************************)
(* What is proved of the two sides, ClickIngest and CounterGroup, holds of *)
(* the path they make, for any users, challenges, workers, faults and      *)
(* times: SubmitClicks is an environment as CounterGroup supposes, because *)
(* it appends every challenge in its window (RecordInWindow).              *)
(***************************************************************************)
EXTENDS ClickPipeline, SequenceTheorems, TLAPS

IngestProofs == INSTANCE ClickIngestProofs
  WITH FaultKinds <- IngestFaults, faults <- ingestFaults

GroupProofs == INSTANCE CounterGroupProofs
  WITH Window <- Life + MaxRequest,
       iat <- [ch \in Challenges |-> chal[ch].iat],
       clicks <- [o \in DOMAIN clicks |-> [ch |-> clicks[o].ch, at |-> clicks[o].at]],
       FaultKinds <- GroupFaults, faults <- groupFaults

-----------------------------------------------------------------------------
(* The instances of the proofs speak of the path's own instances.          *)
LEMMA IngestSame ==
  /\ Ingest!Init => IngestProofs!Init
  /\ Ingest!Next => IngestProofs!Next
<1>1. Ingest!Init => IngestProofs!Init
  BY DEF Ingest!Init, IngestProofs!Init, Ingest!NoChallenge, IngestProofs!NoChallenge,
         Ingest!NoCall, IngestProofs!NoCall
<1>2. Ingest!Next => IngestProofs!Next
  BY DEF Ingest!Next, IngestProofs!Next,
     Ingest!Tick, IngestProofs!Tick, Ingest!Start, IngestProofs!Start,
     Ingest!IssueChallenge, IngestProofs!IssueChallenge, Ingest!Signed, IngestProofs!Signed,
     Ingest!SubmitClicks, IngestProofs!SubmitClicks, Ingest!Verify, IngestProofs!Verify,
     Ingest!Continue, IngestProofs!Continue, Ingest!Fail, IngestProofs!Fail,
     Ingest!ThrottleClaimed, IngestProofs!ThrottleClaimed,
     Ingest!ThrottleHit, IngestProofs!ThrottleHit,
     Ingest!ThrottleError, IngestProofs!ThrottleError,
     Ingest!ClaimThrottle, IngestProofs!ClaimThrottle,
     Ingest!Produced, IngestProofs!Produced,
     Ingest!ProduceError, IngestProofs!ProduceError,
     Ingest!ProduceUnknown, IngestProofs!ProduceUnknown,
     Ingest!AppendEvent, IngestProofs!AppendEvent,
     Ingest!Unthrottle, IngestProofs!Unthrottle,
     Ingest!UnthrottleError, IngestProofs!UnthrottleError,
     Ingest!Reply, IngestProofs!Reply, Ingest!Abort, IngestProofs!Abort,
     Ingest!Fault, IngestProofs!Fault, Ingest!At, IngestProofs!At,
     Ingest!Issued, IngestProofs!Issued, Ingest!Sub, IngestProofs!Sub,
     Ingest!Present, IngestProofs!Present, Ingest!Return, IngestProofs!Return,
     Ingest!NoCall, IngestProofs!NoCall, Ingest!history, IngestProofs!history
<1> QED
  BY <1>1, <1>2

(* The same of the group.                                                  *)
LEMMA GroupSame ==
  /\ Group!Init => GroupProofs!Init
  /\ Group!Next => GroupProofs!Next
  /\ Group!vars = GroupProofs!vars
<1>1. Group!Init => GroupProofs!Init
  BY DEF Group!Init, GroupProofs!Init, Group!Idle, GroupProofs!Idle
<1>2. Group!Environment => GroupProofs!Environment
  BY DEF Group!Environment, GroupProofs!Environment, Group!Tick, GroupProofs!Tick,
         Group!Issue, GroupProofs!Issue, Group!Append1, GroupProofs!Append1,
         Group!AppendPoison, GroupProofs!AppendPoison, Group!Fault, GroupProofs!Fault,
         Group!ingest, GroupProofs!ingest, Group!effects, GroupProofs!effects,
         Group!history, GroupProofs!history
<1>3. ASSUME NEW w \in Workers PROVE Group!Consume(w) => GroupProofs!Consume(w)
  BY DEF Group!Consume, GroupProofs!Consume, Group!Poll, GroupProofs!Poll,
         Group!SkipMalformed, GroupProofs!SkipMalformed, Group!FirstSeeWins,
         GroupProofs!FirstSeeWins, Group!FirstSeeRepeat, GroupProofs!FirstSeeRepeat,
         Group!IncrBy, GroupProofs!IncrBy, Group!IncrStats, GroupProofs!IncrStats,
         Group!Commit, GroupProofs!Commit, Group!CommitError, GroupProofs!CommitError,
         Group!At, GroupProofs!At, Group!Record, GroupProofs!Record, Group!Present,
         GroupProofs!Present, Group!Fault, GroupProofs!Fault, Group!Applied,
         GroupProofs!Applied, Group!NextRecord, GroupProofs!NextRecord, Group!MarkSeen,
         GroupProofs!MarkSeen, Group!Credit, GroupProofs!Credit, Group!Idle,
         GroupProofs!Idle, Group!ingest, GroupProofs!ingest, Group!effects,
         GroupProofs!effects, Group!history, GroupProofs!history
<1>4. ASSUME NEW w \in Workers PROVE Group!Misfortune(w) => GroupProofs!Misfortune(w)
  BY DEF Group!Misfortune, GroupProofs!Misfortune, Group!PollError, GroupProofs!PollError,
         Group!FirstSeeError, GroupProofs!FirstSeeError, Group!FirstSeeSentTwice,
         GroupProofs!FirstSeeSentTwice, Group!IncrByError, GroupProofs!IncrByError,
         Group!IncrBySentTwice, GroupProofs!IncrBySentTwice, Group!IncrStatsError,
         GroupProofs!IncrStatsError, Group!IncrStatsSentTwice,
         GroupProofs!IncrStatsSentTwice, Group!Crash, GroupProofs!Crash, Group!At,
         GroupProofs!At, Group!Record, GroupProofs!Record, Group!Present,
         GroupProofs!Present, Group!Fault, GroupProofs!Fault, Group!Applied,
         GroupProofs!Applied, Group!NextRecord, GroupProofs!NextRecord, Group!Abandon,
         GroupProofs!Abandon, Group!MarkSeen, GroupProofs!MarkSeen, Group!Credit,
         GroupProofs!Credit, Group!Idle, GroupProofs!Idle, Group!Down, GroupProofs!Down,
         Group!ingest, GroupProofs!ingest, Group!effects, GroupProofs!effects,
         Group!history, GroupProofs!history
<1>5. ASSUME NEW w \in Workers
      PROVE  /\ Group!Assign(w) => GroupProofs!Assign(w)
             /\ Group!Restart(w) => GroupProofs!Restart(w)
  BY DEF Group!Assign, GroupProofs!Assign, Group!Restart, GroupProofs!Restart, Group!Crash,
         GroupProofs!Crash, Group!At, GroupProofs!At, Group!Fault, GroupProofs!Fault,
         Group!Down, GroupProofs!Down, Group!Idle, GroupProofs!Idle, Group!Record,
         GroupProofs!Record, Group!ingest, GroupProofs!ingest, Group!effects,
         GroupProofs!effects, Group!history, GroupProofs!history
<1>6. Group!Next => GroupProofs!Next
  BY <1>2, <1>3, <1>4, <1>5 DEF Group!Next, GroupProofs!Next
<1>7. Group!vars = GroupProofs!vars
  BY DEF Group!vars, GroupProofs!vars
<1> QED
  BY <1>1, <1>6, <1>7

-----------------------------------------------------------------------------
(* Every step of the path is a step of SubmitClicks or leaves its state.   *)
LEMMA PathIngest == [Next]_vars => [IngestProofs!Next]_(IngestProofs!vars)
<1> SUFFICES ASSUME [Next]_vars PROVE [IngestProofs!Next]_(IngestProofs!vars)
  OBVIOUS
<1>1. CASE Accept
  BY <1>1, IngestSame DEF Accept
<1>2. CASE ~Accept
  <2>1. UNCHANGED ingestVars
    BY <1>2 DEF Next, Loop, Reassign, Recover, Trouble, vars
  <2> QED
    BY <2>1 DEF IngestProofs!vars, IngestProofs!history, ingestVars
<1> QED
  BY <1>1, <1>2

(* The assumptions of the two sides.                                       *)
LEMMA SidesAssume ==
  /\ Life \in Nat /\ MaxRequest \in Nat
  /\ MinIntervals \subseteq Nat \ {0}
  /\ NoUser \notin Users
  /\ Life + MaxRequest \in Nat /\ MaxLag \in Nat /\ SeenTTL \in Nat
  /\ Life + MaxRequest + MaxLag < SeenTTL
  /\ Poison \notin Challenges /\ None \notin Workers
  /\ GroupProofs!IsFiniteSet(Challenges) /\ GroupProofs!IsFiniteSet(Workers)
BY PathConstants DEF IsFiniteSet, GroupProofs!IsFiniteSet

(* SubmitClicks keeps its invariant on the path.                           *)
LEMMA PathWindows == Spec => []IngestProofs!Windows
<1>1. Init => IngestProofs!Windows
  BY SidesAssume, IngestSame, IngestProofs!InitWindows DEF Init
<1>2. IngestProofs!Windows /\ [Next]_vars => IngestProofs!Windows'
  BY SidesAssume, PathIngest, IngestProofs!StepWindows
<1> QED
  BY <1>1, <1>2, PTL DEF Spec

-----------------------------------------------------------------------------
(* Every step of the path is a step of the group or leaves its state.      *)

(* What a consumer reads of a record, and of a log.                        *)
Look(e) == [ch |-> e.ch, at |-> e.at]
Looks(s) == [o \in DOMAIN s |-> Look(s[o])]

(* To append to the topic is to append to what the consumer reads.         *)
LEMMA LooksAppend ==
  ASSUME NEW S, NEW s \in Seq(S), NEW e \in S
  PROVE  /\ Len(Looks(s)) = Len(s)
         /\ Looks(Append(s, e)) = Append(Looks(s), Look(e))
<1> DEFINE R == {Look(x) : x \in S}
<1>1. /\ Len(s) \in Nat /\ DOMAIN s = 1 .. Len(s)
      /\ \A o \in 1 .. Len(s) : s[o] \in S
  OBVIOUS
<1>2. /\ Append(s, e) \in Seq(S)
      /\ DOMAIN Append(s, e) = 1 .. Len(s) + 1
      /\ \A o \in 1 .. Len(s) : Append(s, e)[o] = s[o]
      /\ Append(s, e)[Len(s) + 1] = e
  BY <1>1
<1>3. Look(e) \in R /\ \A o \in 1 .. Len(s) : Look(s[o]) \in R
  BY <1>1
<1> HIDE DEF R
<1>4. Looks(s) \in [1 .. Len(s) -> R] /\ \A o \in 1 .. Len(s) : Looks(s)[o] = Look(s[o])
  BY <1>1, <1>3 DEF Looks
<1>5. Looks(s) \in Seq(R) /\ Len(Looks(s)) = Len(s)
  BY <1>1, <1>4
<1>6. /\ DOMAIN Append(Looks(s), Look(e)) = 1 .. Len(s) + 1
      /\ \A o \in 1 .. Len(s) : Append(Looks(s), Look(e))[o] = Looks(s)[o]
      /\ Append(Looks(s), Look(e))[Len(s) + 1] = Look(e)
      /\ Append(Looks(s), Look(e)) \in Seq(R)
  BY <1>1, <1>3, <1>5
<1>7. /\ DOMAIN Looks(Append(s, e)) = 1 .. Len(s) + 1
      /\ \A o \in 1 .. Len(s) : Looks(Append(s, e))[o] = Look(s[o])
      /\ Looks(Append(s, e))[Len(s) + 1] = Look(e)
  BY <1>1, <1>2 DEF Looks
<1>8. \A o \in 1 .. Len(s) + 1 : Looks(Append(s, e))[o] = Append(Looks(s), Look(e))[o]
  <2>1. \A o \in 1 .. Len(s) + 1 : o \in 1 .. Len(s) \/ o = Len(s) + 1
    BY <1>1
  <2> QED
    BY <1>4, <1>6, <1>7, <2>1
<1>9. Looks(Append(s, e)) \in Seq(R)
  <2>1. Looks(Append(s, e)) \in [1 .. Len(s) + 1 -> R]
    <3>1. Looks(Append(s, e)) = [o \in 1 .. Len(s) + 1 |-> Look(Append(s, e)[o])]
      BY <1>2 DEF Looks
    <3>2. \A o \in 1 .. Len(s) + 1 : Look(Append(s, e)[o]) \in R
      BY <1>2, <1>3
    <3> QED
      BY <3>1, <3>2
  <2> QED
    BY <1>1, <2>1
<1>10. Len(Looks(Append(s, e))) = Len(s) + 1 /\ Len(Append(Looks(s), Look(e))) = Len(s) + 1
  BY <1>1, <1>6, <1>7, <1>9
<1> QED
  BY <1>5, <1>6, <1>8, <1>9, <1>10, SeqEqual

(* The producer's append is one the group allows for.                      *)
LEMMA AppendsInWindow ==
  ASSUME IngestProofs!Windows, NEW r \in Calls, IngestProofs!Appends(r),
         NEW ch \in Challenges, call[r].ch = ch, Len(clicks) < MaxRecords,
         UNCHANGED <<now, chal, groupVars>>
  PROVE  Group!Append1(ch)
<1> DEFINE S == [ch : Challenges, ts : Nat, won : Nat, at : Nat]
           e == [ch |-> ch, ts |-> call[r].ts, won |-> call[r].won, at |-> now]
<1>1. /\ now \in Nat /\ clicks \in Seq(S) /\ ~IngestProofs!At(r, "idle")
      /\ call[r] \in IngestProofs!CallState
      /\ chal[ch].iat > 0
      /\ \A c \in Challenges : chal[c].iat \in Nat
  BY DEF IngestProofs!Windows, IngestProofs!TypeOK, IngestProofs!Appends, IngestProofs!At,
         IngestProofs!Issued, IngestProofs!Payload
<1>2. call[r].ts \in Nat /\ call[r].won \in Nat
  BY <1>1 DEF IngestProofs!CallState
<1>3. now <= chal[ch].iat + (Life + MaxRequest)
  <2>1. call[r].ts <= chal[ch].iat + Life /\ now <= call[r].ts + MaxRequest
    BY <1>1 DEF IngestProofs!Windows, IngestProofs!CallInv
  <2>2. chal[ch].iat \in Nat
    BY <1>1
  <2> QED
    BY <1>1, <1>2, <2>1, <2>2, SidesAssume
<1>4. clicks' = Append(clicks, e) /\ e \in S /\ Look(e) = [ch |-> ch, at |-> now]
  BY <1>1, <1>2 DEF IngestProofs!Appends, Look
<1> HIDE DEF S, e
<1>5. Len(Looks(clicks)) = Len(clicks)
      /\ Looks(clicks') = Append(Looks(clicks), [ch |-> ch, at |-> now])
  BY <1>1, <1>4, LooksAppend
<1>6. /\ Len([o \in DOMAIN clicks |-> [ch |-> clicks[o].ch, at |-> clicks[o].at]]) < MaxRecords
      /\ [o \in DOMAIN clicks' |-> [ch |-> clicks'[o].ch, at |-> clicks'[o].at]] =
           Append([o \in DOMAIN clicks |-> [ch |-> clicks[o].ch, at |-> clicks[o].at]],
                  [ch |-> ch, at |-> now])
  BY <1>5 DEF Looks, Look
<1>7. [c \in Challenges |-> chal[c].iat][ch] = chal[ch].iat
  BY <1>1
<1> QED
  BY <1>1, <1>3, <1>6, <1>7
     DEF Group!Append1, Group!effects, Group!history, groupVars

(* A token that is signed is new to the group too.                         *)
LEMMA SignedIsIssued ==
  ASSUME IngestProofs!Windows, NEW u, NEW ch \in Challenges, IngestProofs!Signed(u, ch),
         UNCHANGED <<now, clicks, groupVars>>
  PROVE  Group!Issue(ch)
<1>1. chal[ch].iat \in Nat /\ ~(chal[ch].iat > 0) /\ chal \in [Challenges -> IngestProofs!Payload]
  BY DEF IngestProofs!Signed, IngestProofs!Issued, IngestProofs!Windows, IngestProofs!TypeOK,
         IngestProofs!Payload
<1>2. PICK mi : chal' = [chal EXCEPT ![ch] = [sub |-> u, iat |-> now, mi |-> mi]]
  BY DEF IngestProofs!Signed
<1>3. [c \in Challenges |-> chal'[c].iat] = [[c \in Challenges |-> chal[c].iat] EXCEPT ![ch] = now]
  BY <1>1, <1>2
<1>4. [c \in Challenges |-> chal[c].iat][ch] = 0
  BY <1>1
<1> QED
  BY <1>3, <1>4 DEF Group!Issue, Group!effects, Group!history, groupVars

(* A step of SubmitClicks is a tick, an issue or an append of the group's  *)
(* environment, or nothing the group can see.                              *)
LEMMA AcceptAllowed ==
  ASSUME IngestProofs!Windows, Accept
  PROVE  [Group!Next]_(Group!vars)
<1>1. IngestProofs!Next /\ UNCHANGED groupVars
  BY IngestSame DEF Accept
<1>2. CASE UNCHANGED <<now, chal, clicks>>
  BY <1>1, <1>2 DEF Group!vars, groupVars
<1>3. CASE IngestProofs!Tick
  BY <1>1, <1>3 DEF IngestProofs!Tick, Group!Next, Group!Environment, Group!Tick,
     Group!effects, Group!history, groupVars
<1>4. ASSUME NEW u, NEW ch \in Challenges, IngestProofs!Signed(u, ch), UNCHANGED <<now, clicks>>
      PROVE  Group!Next
  BY <1>1, <1>4, SignedIsIssued DEF Group!Next, Group!Environment
<1>5. CASE IngestProofs!Start
  <2>1. CASE \E u \in Users, ch \in Challenges : IngestProofs!IssueChallenge(u, ch)
    BY <1>4, <2>1 DEF IngestProofs!IssueChallenge
  <2>2. CASE \E r \in Calls, u \in Users, ch \in Challenges : IngestProofs!SubmitClicks(r, u, ch)
    BY <1>2, <2>2 DEF IngestProofs!SubmitClicks
  <2> QED
    BY <1>5, <2>1, <2>2 DEF IngestProofs!Start
<1>6. ASSUME NEW r \in Calls, IngestProofs!Continue(r) \/ IngestProofs!Fail(r)
      PROVE  [Group!Next]_(Group!vars)
  <2>1. CASE IngestProofs!Produced(r) \/ IngestProofs!ProduceUnknown(r)
    <3>1. IngestProofs!TypeOK
      BY DEF IngestProofs!Windows
    <3>2. IngestProofs!At(r, "produce") /\ IngestProofs!AppendEvent(r)
      BY <2>1 DEF IngestProofs!Produced, IngestProofs!ProduceUnknown
    <3>3. UNCHANGED <<clicks, acked>> \/ IngestProofs!Appends(r)
      BY SidesAssume, <1>6, <3>1, IngestProofs!LogShape
    <3>4. Len(clicks) < MaxRecords /\ UNCHANGED <<now, chal>>
      BY <2>1 DEF IngestProofs!Produced, IngestProofs!ProduceUnknown, IngestProofs!AppendEvent
    <3>5. CASE UNCHANGED clicks
      BY <1>2, <3>4, <3>5
    <3>6. CASE IngestProofs!Appends(r)
      <4>1. PICK ch \in Challenges : ch = call[r].ch
        BY <3>1, <3>2 DEF IngestProofs!TypeOK, IngestProofs!At
      <4>2. Group!Append1(ch)
        BY <1>1, <3>4, <3>6, <4>1, AppendsInWindow
      <4> QED
        BY <4>2 DEF Group!Next, Group!Environment
    <3> QED
      BY <3>3, <3>5, <3>6
  <2>2. CASE IngestProofs!Reply(r)
    BY <1>2, <1>4, <2>2 DEF IngestProofs!Reply
  <2>3. CASE \/ IngestProofs!ThrottleClaimed(r) \/ IngestProofs!ThrottleHit(r)
             \/ IngestProofs!ThrottleError(r) \/ IngestProofs!ProduceError(r)
             \/ IngestProofs!Unthrottle(r) \/ IngestProofs!UnthrottleError(r)
             \/ IngestProofs!Abort(r)
    BY <1>2, <2>3 DEF IngestProofs!ThrottleClaimed, IngestProofs!ThrottleHit,
       IngestProofs!ThrottleError, IngestProofs!ProduceError, IngestProofs!Unthrottle,
       IngestProofs!UnthrottleError, IngestProofs!Abort
  <2> QED
    BY <1>6, <2>1, <2>2, <2>3 DEF IngestProofs!Continue, IngestProofs!Fail
<1> QED
  BY <1>1, <1>3, <1>5, <1>6 DEF IngestProofs!Next

(* So is a step of a worker.                                               *)
LEMMA PathGroup == IngestProofs!Windows /\ [Next]_vars => [Group!Next]_(Group!vars)
<1> SUFFICES ASSUME IngestProofs!Windows, [Next]_vars PROVE [Group!Next]_(Group!vars)
  OBVIOUS
<1>1. CASE Accept
  BY <1>1, AcceptAllowed
<1>2. CASE \E w \in Workers : Loop(w) \/ Reassign(w) \/ Recover(w) \/ Trouble(w)
  BY <1>2 DEF Loop, Reassign, Recover, Trouble, Group!Next
<1>3. CASE UNCHANGED vars
  BY <1>3 DEF vars, ingestVars, groupVars, Group!vars
<1> QED
  BY <1>1, <1>2, <1>3 DEF Next

-----------------------------------------------------------------------------
(* SubmitClicks and clicks.Submit keep what CounterGroup assumes of its    *)
(* environment: the path implements the group's specification.             *)
THEOREM PathImplementsGroup == Spec => GroupSpec
<1>1. Init => Group!Init
  BY DEF Init
<1> QED
  BY <1>1, PathWindows, PathGroup, PTL DEF Spec, GroupSpec, Group!Spec

(* counterworker.go:4-5, of the records the API really appends: no offset  *)
(* is committed past a record that no worker has handled, as long as no    *)
(* Redis call and no poll of the group reports an error.                   *)
THEOREM PathCommits ==
  ASSUME "redis" \notin GroupFaults, "fetch" \notin GroupFaults
  PROVE  Spec => []CommittedHandled
<1>1. GroupSpec => GroupProofs!Spec
  <2>1. [Group!Next]_(Group!vars) => [GroupProofs!Next]_(GroupProofs!vars)
    BY GroupSame DEF Group!vars, GroupProofs!vars
  <2> QED
    BY <2>1, GroupSame, PTL DEF GroupSpec, Group!Spec, GroupProofs!Spec
<1>2. GroupProofs!CommittedHandled => CommittedHandled
  BY DEF GroupProofs!CommittedHandled, CommittedHandled, Group!CommittedHandled
<1>3. GroupProofs!Spec => []GroupProofs!CommittedHandled
  BY SidesAssume, GroupProofs!CommitsFollowEffects, PTL
<1> QED
  BY <1>1, <1>2, <1>3, PathImplementsGroup, PTL

(* counterworker.go:1-2, of the whole path: whatever clients send again,   *)
(* calls fail and workers do, a challenge is in counter:total at most once *)
(* (plus the INCRBYs the Redis client sent twice), unless a record of it   *)
(* was looked up more than MaxLag after it was appended; and a record that *)
(* was handled is counted, unless a winner of its FirstSee failed between  *)
(* its two calls.                                                          *)
THEOREM PathCounts == Spec => [](Group!CreditAtMostOnce /\ Group!HandledCredited)
<1>1. [Group!Next]_(Group!vars) => [GroupProofs!Next]_(GroupProofs!vars)
  BY GroupSame DEF Group!vars, GroupProofs!vars
<1>2. GroupSpec => GroupProofs!Spec
  BY <1>1, GroupSame, PTL DEF GroupSpec, Group!Spec, GroupProofs!Spec
<1>3. GroupProofs!CreditAtMostOnce => Group!CreditAtMostOnce
  BY DEF GroupProofs!CreditAtMostOnce, Group!CreditAtMostOnce
<1>4. GroupProofs!HandledCredited => Group!HandledCredited
  BY DEF GroupProofs!HandledCredited, GroupProofs!Accounted, GroupProofs!Counted,
         GroupProofs!Winning, GroupProofs!At, GroupProofs!Record,
         Group!HandledCredited, Group!Accounted, Group!Counted, Group!Winning,
         Group!At, Group!Record
<1>5. GroupProofs!Spec => []GroupProofs!CreditAtMostOnce /\ []GroupProofs!HandledCredited
  BY SidesAssume, GroupProofs!CreditedAtMostOnce, GroupProofs!HandledIsCredited, PTL
<1> QED
  BY <1>2, <1>3, <1>4, <1>5, PathImplementsGroup, PTL
=============================================================================
