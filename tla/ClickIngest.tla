----------------------------- MODULE ClickIngest -----------------------------
(***************************************************************************)
(* The click hot path: IssueChallenge and SubmitClicks (internal/server)   *)
(* and clicks.Submit (internal/clicks), against the Redis key              *)
(* throttle:<sub> and the Kafka topic `clicks`.  A SubmitClicks call takes *)
(* the time once, verifies the token against it, claims the throttle key   *)
(* with SETNX, produces the event and, when that fails, deletes the key.   *)
(* Calls of one user, on one replica or several, interleave between these  *)
(* steps, and every step but the verification is a remote call that may    *)
(* fail or take long.                                                      *)
(*                                                                         *)
(* Tokens are reduced to their challenge, counts and nonces to valid ones, *)
(* a user's events to one partition, in the order of its log.              *)
(***************************************************************************)
EXTENDS Naturals, Sequences, FiniteSets

CONSTANTS
  Users,
  NoUser,        \* the subject of a challenge nobody was issued yet
  Challenges,
  Calls,         \* slots for SubmitClicks calls in progress
  MinIntervals,  \* the values pow:min_interval takes
  Life,          \* TokenTTL + ExpLeeway
  MaxRequest,    \* the longest SubmitClicks call
  FaultKinds,    \* the kinds of fault that happen in this instance
  MaxFaults,     \* bound: faults in a behaviour
  MaxRecords,    \* bound: records in the log
  MaxTime        \* bound: the clock

ASSUME IngestConstants ==
  /\ Life \in Nat /\ MaxRequest \in Nat
  /\ MinIntervals \subseteq Nat \ {0}
  /\ NoUser \notin Users

VARIABLES
  now,       \* the clock
  chal,      \* chal[ch]: the signed payload [sub, iat, mi]; iat = 0 before it is issued
  throttle,  \* throttle[u]: when the key throttle:u expires, 0 if there is none
  call,      \* call[r]: a SubmitClicks call [pc, ch, ts, won]
  clicks,    \* the topic: records [ch, ts, won, at]
  acked,     \* history: offsets whose call produced without an error
  claimer,   \* history: claimer[u]: the call that set the key throttle:u last
  freed,     \* history: <<u, t>>: at t a failed call deleted another call's key
  faults     \* faults so far

history == <<acked, claimer, freed>>
vars == <<now, chal, throttle, call, clicks, history, faults>>

NoCall == [pc |-> "idle", ch |-> NoUser, ts |-> 0, won |-> 0]
NoChallenge == [sub |-> NoUser, iat |-> 0, mi |-> 0]

Fault(k) ==
  /\ k \in FaultKinds
  /\ faults < MaxFaults
  /\ faults' = faults + 1

At(r, pc) == call[r].pc = pc
Issued(ch) == chal[ch].iat > 0
Sub(r) == chal[call[r].ch].sub
Present(u) == now < throttle[u]
Return(r) == call' = [call EXCEPT ![r] = NoCall]

Init ==
  /\ now = 1
  /\ chal = [ch \in Challenges |-> NoChallenge]
  /\ throttle = [u \in Users |-> 0]
  /\ call = [r \in Calls |-> NoCall]
  /\ clicks = << >>
  /\ acked = {}
  /\ claimer = [u \in Users |-> NoUser]
  /\ freed = {}
  /\ faults = 0

(* No call takes longer than MaxRequest: the produce timeout and the Redis *)
(* client's time limits end it.                                            *)
Tick ==
  /\ now < MaxTime
  /\ \A r \in Calls : At(r, "idle") \/ now < call[r].ts + MaxRequest
  /\ now' = now + 1
  /\ UNCHANGED <<chal, throttle, call, clicks, history, faults>>

(* issue(): a fresh id, the time, and the cached min_interval.             *)
Signed(u, ch) ==
  /\ ~Issued(ch)
  /\ \E mi \in MinIntervals :
       chal' = [chal EXCEPT ![ch] = [sub |-> u, iat |-> now, mi |-> mi]]

IssueChallenge(u, ch) ==
  /\ Signed(u, ch)
  /\ UNCHANGED <<now, throttle, call, clicks, history, faults>>

(* Wrong: the expiry is not looked at.                                     *)
Verify_Wrong(u, ch) == chal[ch].sub = u

(* Verify: the token names the caller and is at most ExpLeeway past its    *)
(* expiry at the time the call captured.                                   *)
Verify(u, ch) ==
  /\ chal[ch].sub = u
  /\ now <= chal[ch].iat + Life

(* Wrong: any token is taken at its word, signed or not.                   *)
SubmitClicks_Wrong(r, u, ch) ==
  /\ At(r, "idle")
  /\ call' = [call EXCEPT ![r] = [pc |-> "throttle", ch |-> ch, ts |-> now, won |-> 0]]
  /\ UNCHANGED <<now, chal, throttle, clicks, history, faults>>

(* A call gets past the token, count and work checks.  A challenge may be  *)
(* sent again, by a client that retries or by a second tab.                *)
SubmitClicks(r, u, ch) ==
  /\ At(r, "idle")
  /\ Issued(ch)
  /\ Verify(u, ch)
  /\ call' = [call EXCEPT ![r] = [pc |-> "throttle", ch |-> ch, ts |-> now, won |-> 0]]
  /\ UNCHANGED <<now, chal, throttle, clicks, history, faults>>

(* Wrong: the interval runs from the issue of the token.                   *)
ClaimThrottle_Wrong(r) ==
  /\ throttle' = [throttle EXCEPT ![Sub(r)] = chal[call[r].ch].iat + chal[call[r].ch].mi]
  /\ claimer' = [claimer EXCEPT ![Sub(r)] = r]

(* Wrong: the claim leaves no key behind.                                  *)
ClaimThrottle_NoKey(r) == UNCHANGED <<throttle, claimer>>

(* SET NX EX of throttle:<sub>, for the interval the token carries.        *)
ClaimThrottle(r) ==
  /\ throttle' = [throttle EXCEPT ![Sub(r)] = now + chal[call[r].ch].mi]
  /\ claimer' = [claimer EXCEPT ![Sub(r)] = r]

ThrottleClaimed(r) ==
  /\ At(r, "throttle")
  /\ ~Present(Sub(r))
  /\ ClaimThrottle(r)
  /\ call' = [call EXCEPT ![r].pc = "produce", ![r].won = now]
  /\ UNCHANGED <<now, chal, clicks, acked, freed, faults>>

(* ResourceExhausted.                                                      *)
ThrottleHit(r) ==
  /\ At(r, "throttle")
  /\ Present(Sub(r))
  /\ Return(r)
  /\ UNCHANGED <<now, chal, throttle, clicks, history, faults>>

(* Unavailable; the key may have been set or not.                          *)
ThrottleError(r) ==
  /\ At(r, "throttle")
  /\ Fault("redis")
  /\ \/ UNCHANGED <<throttle, claimer>>
     \/ ~Present(Sub(r)) /\ ClaimThrottle(r)
  /\ Return(r)
  /\ UNCHANGED <<now, chal, clicks, acked, freed>>

AppendEvent(r) ==
  /\ Len(clicks) < MaxRecords
  /\ clicks' = Append(clicks, [ch |-> call[r].ch, ts |-> call[r].ts,
                               won |-> call[r].won, at |-> now])

Produced(r) ==
  /\ At(r, "produce")
  /\ AppendEvent(r)
  /\ acked' = acked \cup {Len(clicks')}
  /\ call' = [call EXCEPT ![r].pc = "next"]
  /\ UNCHANGED <<now, chal, throttle, claimer, freed, faults>>

ProduceError(r) ==
  /\ At(r, "produce")
  /\ Fault("produce")
  /\ call' = [call EXCEPT ![r].pc = "unthrottle"]
  /\ UNCHANGED <<now, chal, throttle, clicks, history>>

(* The broker has the record, and the producer reports an error.           *)
ProduceUnknown(r) ==
  /\ At(r, "produce")
  /\ Fault("unknown")
  /\ AppendEvent(r)
  /\ call' = [call EXCEPT ![r].pc = "unthrottle"]
  /\ UNCHANGED <<now, chal, throttle, history>>

(* The best-effort DEL, whosever key it is by now; then Unavailable.       *)
Unthrottle(r) ==
  /\ At(r, "unthrottle")
  /\ throttle' = [throttle EXCEPT ![Sub(r)] = 0]
  /\ freed' = IF Present(Sub(r)) /\ claimer[Sub(r)] # r
              THEN freed \cup {<<Sub(r), now>>} ELSE freed
  /\ Return(r)
  /\ UNCHANGED <<now, chal, clicks, acked, claimer, faults>>

UnthrottleError(r) ==
  /\ At(r, "unthrottle")
  /\ Fault("redis")
  /\ Return(r)
  /\ UNCHANGED <<now, chal, throttle, clicks, history>>

(* The answer carries the next challenge, unless issuing it fails.         *)
Reply(r) ==
  /\ At(r, "next")
  /\ \/ \E ch \in Challenges : Signed(Sub(r), ch)
     \/ UNCHANGED chal
  /\ Return(r)
  /\ UNCHANGED <<now, throttle, clicks, history, faults>>

(* The client hangs up or the process dies in the middle of a call.        *)
Abort(r) ==
  /\ ~At(r, "idle")
  /\ Fault("abort")
  /\ Return(r)
  /\ UNCHANGED <<now, chal, throttle, clicks, history>>

Start ==
  \/ \E u \in Users, ch \in Challenges : IssueChallenge(u, ch)
  \/ \E r \in Calls, u \in Users, ch \in Challenges : SubmitClicks(r, u, ch)

Continue(r) ==
  \/ ThrottleClaimed(r) \/ ThrottleHit(r)
  \/ Produced(r) \/ Unthrottle(r) \/ Reply(r)

Fail(r) ==
  \/ ThrottleError(r) \/ ProduceError(r) \/ ProduceUnknown(r)
  \/ UnthrottleError(r) \/ Abort(r)

Next ==
  \/ Tick
  \/ Start
  \/ \E r \in Calls : Continue(r) \/ Fail(r)

Spec == Init /\ [][Next]_vars

-----------------------------------------------------------------------------
Payload == [sub : Users \cup {NoUser}, iat : Nat, mi : Nat]
CallState ==
  [pc : {"idle", "throttle", "produce", "unthrottle", "next"},
   ch : Challenges \cup {NoUser}, ts : Nat, won : Nat]

(* Every variable has its type, and a call in progress is about a          *)
(* challenge that was issued to its caller.                                *)
TypeOK ==
  /\ now \in Nat
  /\ chal \in [Challenges -> Payload]
  /\ throttle \in [Users -> Nat]
  /\ call \in [Calls -> CallState]
  /\ \A r \in Calls : ~At(r, "idle") =>
       call[r].ch \in Challenges /\ Issued(call[r].ch) /\ Sub(r) \in Users
  /\ clicks \in Seq([ch : Challenges, ts : Nat, won : Nat, at : Nat])
  /\ acked \subseteq DOMAIN clicks
  /\ claimer \in [Users -> Calls \cup {NoUser}]
  /\ freed \subseteq Users \X Nat
  /\ faults \in Nat

SubOf(o) == chal[clicks[o].ch].sub
Until(o) == clicks[o].won + chal[clicks[o].ch].mi

(* A failed call deleted another call's key of the user between two times. *)
FreedIn(F, u, from, to) == \E t \in from .. to : <<u, t>> \in F

(* controller.go:10-11,41, "min_interval is the hard valve", "the hard     *)
(* per-user interval", as far as it holds: of two batches of one user that *)
(* were acknowledged, the later one claimed the throttle when the interval *)
(* of the earlier one was over, however long calls take -- unless the      *)
(* un-throttle of a failed call (clicks.go:38-39), which deletes the key   *)
(* whoever holds it by then, deleted one it did not set in between.        *)
IntervalKept ==
  \A o, p \in acked :
    o # p /\ SubOf(o) = SubOf(p) /\ clicks[o].won <= clicks[p].won =>
      \/ Until(o) <= clicks[p].won
      \/ FreedIn(freed, SubOf(o), clicks[o].won, clicks[p].won)

(* The assumption the counter's dedup window rests on (SeenTTL in          *)
(* counterworker.go:29 against TokenTTL and ExpLeeway): every record of a  *)
(* challenge is appended within Life + MaxRequest of its issue, although   *)
(* expiry is checked once, before two remote calls.                        *)
RecordInWindow ==
  \A o \in DOMAIN clicks :
    LET iat == chal[clicks[o].ch].iat IN
      iat <= clicks[o].at /\ clicks[o].at <= iat + Life + MaxRequest

(* clickevent.go:24-25, "one user's events stay ordered on one partition": *)
(* the acknowledged events of a user are in the log in the order of the    *)
(* times they carry.                                                       *)
EventOrder ==
  \A o, p \in acked :
    o < p /\ SubOf(o) = SubOf(p) => clicks[o].ts <= clicks[p].ts

(* What holds of it: an event whose own call, from taking its time to the  *)
(* append, was shorter than the intervals of the two events is in order    *)
(* with every earlier record of the user, however slow the other calls     *)
(* were, unless a key was deleted by a call that did not set it.           *)
PromptInOrder ==
  \A o, p \in acked :
    /\ o < p /\ SubOf(o) = SubOf(p)
    /\ clicks[p].at < clicks[p].ts + chal[clicks[o].ch].mi
    /\ clicks[p].at < clicks[p].ts + chal[clicks[p].ch].mi
    => \/ clicks[o].ts <= clicks[p].ts
       \/ FreedIn(freed, SubOf(o), clicks[o].won, clicks[p].won)
       \/ FreedIn(freed, SubOf(o), clicks[p].won, clicks[o].won)
=============================================================================
