-------------------------- MODULE ClickIngestProofs --------------------------
(***************************************************************************)
(* The invariants of ClickIngest, for any users, challenges, calls, faults *)
(* and times, and for calls of any length: TypeOK, RecordInWindow,         *)
(* IntervalKept and PromptInOrder.                                         *)
(***************************************************************************)
EXTENDS ClickIngest, TLAPS

Mi(r) == chal[call[r].ch].mi

(* A challenge was signed for a user, with an interval, and not tomorrow.  *)
ChalInv ==
  \A ch \in Challenges : Issued(ch) =>
    chal[ch].sub \in Users /\ chal[ch].mi \in MinIntervals /\ chal[ch].iat <= now

(* Between the claim of the throttle and the end of the produce.           *)
Claimed(r) == call[r].pc \in {"produce", "unthrottle"}

(* A call in progress started in the challenge's life, not long ago.       *)
CallInv ==
  \A r \in Calls :
    /\ ~At(r, "idle") =>
         /\ chal[call[r].ch].iat <= call[r].ts
         /\ call[r].ts <= chal[call[r].ch].iat + Life
         /\ call[r].ts <= now /\ now <= call[r].ts + MaxRequest
    /\ Claimed(r) => call[r].ts <= call[r].won /\ call[r].won <= now

(* And so did the call of every record.                                    *)
LogInv ==
  \A o \in DOMAIN clicks :
    /\ Issued(clicks[o].ch)
    /\ clicks[o].ts <= clicks[o].won /\ clicks[o].won <= clicks[o].ts + MaxRequest

(* A claim of user u made at w lasts to e: at time t that is over, or the  *)
(* user's key expires at k, no earlier, or a key was deleted since w.      *)
Runs(F, k, t, u, w, e) == e <= t \/ e <= k \/ FreedIn(F, u, w, t)

(* It is over by v, the time of another claim, or a key was deleted.       *)
Apart(F, u, w, e, v) == w <= v => e <= v \/ FreedIn(F, u, w, v)

End(r) == call[r].won + Mi(r)

(* The claims of acknowledged records and of calls past the throttle: the  *)
(* key of each is there, they are apart, and the call that set a user's    *)
(* key last has the latest claim of the user.                              *)
Held ==
  /\ \A o \in acked : Runs(freed, throttle[SubOf(o)], now, SubOf(o), clicks[o].won, Until(o))
  /\ \A r \in Calls : Claimed(r) =>
       Runs(freed, throttle[Sub(r)], now, Sub(r), call[r].won, End(r))

Split ==
  /\ \A o, p \in acked : o # p /\ SubOf(o) = SubOf(p) =>
       Apart(freed, SubOf(o), clicks[o].won, Until(o), clicks[p].won)
  /\ \A o \in acked : \A r \in Calls : Claimed(r) /\ Sub(r) = SubOf(o) =>
       /\ Apart(freed, SubOf(o), clicks[o].won, Until(o), call[r].won)
       /\ Apart(freed, SubOf(o), call[r].won, End(r), clicks[o].won)
  /\ \A r, q \in Calls : Claimed(r) /\ Claimed(q) /\ r # q /\ Sub(r) = Sub(q) =>
       Apart(freed, Sub(r), call[r].won, End(r), call[q].won)

Latest ==
  \A r \in Calls : Claimed(r) /\ claimer[Sub(r)] = r =>
    /\ \A o \in acked : SubOf(o) = Sub(r) => clicks[o].won <= call[r].won
    /\ \A q \in Calls : Claimed(q) /\ Sub(q) = Sub(r) => call[q].won <= call[r].won

Spaced == Held /\ Split /\ Latest

(* Records are appended after their claim, one after the other.            *)
Dated ==
  /\ \A o \in DOMAIN clicks : clicks[o].won <= clicks[o].at /\ clicks[o].at <= now
  /\ \A o, p \in DOMAIN clicks : o < p => clicks[o].at <= clicks[p].at

Windows == TypeOK /\ ChalInv /\ CallInv /\ LogInv /\ RecordInWindow
-----------------------------------------------------------------------------
(* What a step may do.                                                     *)

Same(ch) == Issued(ch) => chal'[ch] = chal[ch]

(* A call returns, claims the throttle, or ends its produce.               *)
Moves(r) ==
  \/ call'[r] = NoCall
  \/ At(r, "throttle") /\ call'[r] = [call[r] EXCEPT !.pc = "produce", !.won = now]
  \/ \E pc \in {"next", "unthrottle"} :
       At(r, "produce") /\ call'[r] = [call[r] EXCEPT !.pc = pc]

CallStep(r) ==
  /\ ~At(r, "idle") /\ now' = now
  /\ call' \in [Calls -> CallState]
  /\ \A q \in Calls : q # r => call'[q] = call[q]
  /\ Moves(r)
  /\ chal' \in [Challenges -> Payload]
  /\ \A c \in Challenges : Same(c)
  /\ ChalInv'

(* A signed payload is new, and changes no other.                          *)
LEMMA SignedShape ==
  ASSUME TypeOK, ChalInv, NEW u \in Users, NEW ch \in Challenges, Signed(u, ch)
  PROVE  /\ chal' \in [Challenges -> Payload]
         /\ \A c \in Challenges : Same(c)
         /\ now' = now => ChalInv'
<1>1. PICK mi \in MinIntervals : chal' = [chal EXCEPT ![ch] = [sub |-> u, iat |-> now, mi |-> mi]]
  BY DEF Signed
<1>2. mi \in Nat
  BY IngestConstants
<1>3. chal' \in [Challenges -> Payload]
  BY <1>1, <1>2 DEF TypeOK, Payload
<1>4. \A c \in Challenges : c # ch => chal'[c] = chal[c]
  BY <1>1 DEF TypeOK
<1>5. chal'[ch] = [sub |-> u, iat |-> now, mi |-> mi]
  BY <1>1 DEF TypeOK
<1>6. \A c \in Challenges : Same(c)
  BY <1>4 DEF Signed, Same
<1>7. now' = now => ChalInv'
  <2>1. now \in Nat
    BY DEF TypeOK
  <2> QED
    BY <1>4, <1>5, <2>1 DEF ChalInv, Issued
<1> QED
  BY <1>3, <1>6, <1>7

(* A step of call r moves it, and no other call.                           *)
LEMMA CallShape ==
  ASSUME TypeOK, ChalInv, NEW r \in Calls, Continue(r) \/ Fail(r)
  PROVE  CallStep(r)
<1>0. NoCall \in CallState /\ call[r] \in CallState /\ now \in Nat
  BY DEF NoCall, CallState, TypeOK
<1>1. CASE UNCHANGED chal /\ Return(r) /\ now' = now /\ ~At(r, "idle")
  <2>1. call'[r] = NoCall /\ \A q \in Calls : q # r => call'[q] = call[q]
    BY <1>1 DEF Return, TypeOK
  <2>2. call' \in [Calls -> CallState]
    BY <1>0, <1>1 DEF Return, TypeOK
  <2> QED
    BY <1>1, <2>1, <2>2 DEF CallStep, Moves, Same, ChalInv, Issued, TypeOK
<1>2. CASE Reply(r)
  <2>1. call'[r] = NoCall /\ \A q \in Calls : q # r => call'[q] = call[q]
    BY <1>2 DEF Reply, Return, TypeOK
  <2>2. call' \in [Calls -> CallState]
    BY <1>0, <1>2 DEF Reply, Return, TypeOK
  <2>3. ~At(r, "idle") /\ now' = now /\ Sub(r) \in Users
    BY <1>2 DEF Reply, At, TypeOK
  <2>4. CASE UNCHANGED chal
    BY <2>1, <2>2, <2>3, <2>4 DEF CallStep, Moves, Same, ChalInv, Issued, TypeOK
  <2>5. CASE \E ch \in Challenges : Signed(Sub(r), ch)
    BY <2>1, <2>2, <2>3, <2>5, SignedShape DEF CallStep, Moves
  <2> QED
    BY <1>2, <2>4, <2>5 DEF Reply
<1>3. CASE ThrottleClaimed(r)
  <2>1. call' = [call EXCEPT ![r] = [call[r] EXCEPT !.pc = "produce", !.won = now]]
    BY <1>3 DEF ThrottleClaimed, TypeOK, CallState
  <2>2. [call[r] EXCEPT !.pc = "produce", !.won = now] \in CallState
    BY <1>0 DEF CallState
  <2>3. /\ call' \in [Calls -> CallState]
        /\ call'[r] = [call[r] EXCEPT !.pc = "produce", !.won = now]
        /\ \A q \in Calls : q # r => call'[q] = call[q]
    BY <2>1, <2>2 DEF TypeOK
  <2>4. At(r, "throttle") /\ ~At(r, "idle") /\ now' = now /\ chal' = chal
    BY <1>3 DEF ThrottleClaimed, At
  <2> QED
    BY <2>3, <2>4 DEF CallStep, Moves, Same, ChalInv, Issued, TypeOK
<1>4. ASSUME NEW pc \in {"next", "unthrottle"}, At(r, "produce"), now' = now, chal' = chal,
             call' = [call EXCEPT ![r].pc = pc]
      PROVE  CallStep(r)
  <2>1. call' = [call EXCEPT ![r] = [call[r] EXCEPT !.pc = pc]]
    BY <1>4 DEF TypeOK, CallState
  <2>2. [call[r] EXCEPT !.pc = pc] \in CallState
    BY <1>0 DEF CallState
  <2>3. /\ call' \in [Calls -> CallState]
        /\ call'[r] = [call[r] EXCEPT !.pc = pc]
        /\ \A q \in Calls : q # r => call'[q] = call[q]
    BY <2>1, <2>2 DEF TypeOK
  <2>4. ~At(r, "idle")
    BY <1>4 DEF At
  <2> QED
    BY <1>4, <2>3, <2>4 DEF CallStep, Moves, Same, ChalInv, Issued, TypeOK
<1> QED
  BY <1>1, <1>2, <1>3, <1>4
  DEF Continue, Fail, ThrottleHit, ThrottleError, Produced, ProduceError, ProduceUnknown,
      Unthrottle, UnthrottleError, Abort, At

(* A produce appends the event of its call.                                *)
Appends(r) ==
  /\ At(r, "produce")
  /\ clicks' = Append(clicks, [ch |-> call[r].ch, ts |-> call[r].ts,
                               won |-> call[r].won, at |-> now])
  /\ acked' \in {acked, acked \cup {Len(clicks) + 1}}

(* A step leaves the log alone, or appends.                                *)
LEMMA LogShape ==
  ASSUME TypeOK, NEW r \in Calls, Continue(r) \/ Fail(r)
  PROVE  UNCHANGED <<clicks, acked>> \/ Appends(r)
<1>1. CASE Produced(r) \/ ProduceUnknown(r)
  <2>1. clicks' = Append(clicks, [ch |-> call[r].ch, ts |-> call[r].ts,
                                  won |-> call[r].won, at |-> now])
    BY <1>1 DEF Produced, ProduceUnknown, AppendEvent
  <2>2. Len(clicks') = Len(clicks) + 1
    BY <2>1 DEF TypeOK
  <2> QED
    BY <1>1, <2>1, <2>2 DEF Appends, Produced, ProduceUnknown, history
<1> QED
  BY <1>1 DEF Continue, Fail, ThrottleClaimed, ThrottleHit, ThrottleError, ProduceError,
              Unthrottle, UnthrottleError, Reply, Abort, history

(* What an append adds.                                                    *)
LEMMA AppendShape ==
  ASSUME TypeOK, NEW r \in Calls, Appends(r)
  PROVE  /\ Len(clicks) \in Nat
         /\ DOMAIN clicks' = DOMAIN clicks \cup {Len(clicks) + 1}
         /\ DOMAIN clicks = 1 .. Len(clicks)
         /\ \A o \in DOMAIN clicks : clicks'[o] = clicks[o]
         /\ clicks'[Len(clicks) + 1] = [ch |-> call[r].ch, ts |-> call[r].ts,
                                        won |-> call[r].won, at |-> now]
         /\ call[r].ch \in Challenges /\ Issued(call[r].ch) /\ Sub(r) \in Users
         /\ clicks' \in Seq([ch : Challenges, ts : Nat, won : Nat, at : Nat])
<1> DEFINE e == [ch |-> call[r].ch, ts |-> call[r].ts, won |-> call[r].won, at |-> now]
<1>1. call[r].ch \in Challenges /\ Issued(call[r].ch) /\ Sub(r) \in Users
  BY DEF Appends, At, TypeOK
<1>2. e \in [ch : Challenges, ts : Nat, won : Nat, at : Nat]
  BY <1>1 DEF TypeOK, CallState
<1>3. /\ clicks' = Append(clicks, e)
      /\ clicks \in Seq([ch : Challenges, ts : Nat, won : Nat, at : Nat])
  BY DEF Appends, TypeOK
<1> HIDE DEF e
<1>4. /\ clicks' \in Seq([ch : Challenges, ts : Nat, won : Nat, at : Nat])
      /\ Len(clicks) \in Nat
      /\ DOMAIN clicks = 1 .. Len(clicks)
      /\ DOMAIN clicks' = 1 .. Len(clicks) + 1
      /\ \A o \in 1 .. Len(clicks) : clicks'[o] = clicks[o]
      /\ clicks'[Len(clicks) + 1] = e
  BY <1>2, <1>3
<1> QED
  BY <1>1, <1>4 DEF e

(* What a step does to a user's throttle key.                              *)
Claims(r) ==
  /\ At(r, "throttle")
  /\ throttle[Sub(r)] <= now
  /\ throttle' = [throttle EXCEPT ![Sub(r)] = now + Mi(r)]
  /\ claimer' = [claimer EXCEPT ![Sub(r)] = r]
  /\ freed' = freed

Clears(r) ==
  /\ At(r, "unthrottle")
  /\ call'[r] = NoCall
  /\ throttle' = [throttle EXCEPT ![Sub(r)] = 0]
  /\ claimer' = claimer
  /\ \/ freed' = freed \cup {<<Sub(r), now>>}
     \/ freed' = freed /\ (throttle[Sub(r)] <= now \/ claimer[Sub(r)] = r)

(* A step of a call keeps, claims or clears the key of its user.           *)
LEMMA ThrottleShape ==
  ASSUME TypeOK, NEW r \in Calls, Continue(r) \/ Fail(r)
  PROVE  /\ UNCHANGED <<throttle, claimer, freed>> \/ Claims(r) \/ Clears(r)
         /\ At(r, "throttle") => Claims(r) \/ call'[r] = NoCall
<1>1. Sub(r) \in Users \/ At(r, "idle")
  BY DEF TypeOK
<1>2. Sub(r) \in Users => (Present(Sub(r)) <=> ~ throttle[Sub(r)] <= now)
  BY DEF TypeOK, Present
<1>3. Return(r) => call'[r] = NoCall
  BY DEF Return, TypeOK
<1>4. ~At(r, "idle")
  BY DEF Continue, Fail, ThrottleClaimed, ThrottleHit, ThrottleError, Produced, ProduceError,
         ProduceUnknown, Unthrottle, UnthrottleError, Reply, Abort, At
<1>5. CASE ThrottleClaimed(r)
  BY <1>1, <1>2, <1>4, <1>5 DEF ThrottleClaimed, ClaimThrottle, Claims, Mi, history
<1>6. CASE ThrottleError(r)
  BY <1>1, <1>2, <1>3, <1>4, <1>6 DEF ThrottleError, ClaimThrottle, Claims, Mi, history
<1>7. CASE Unthrottle(r)
  BY <1>1, <1>2, <1>3, <1>4, <1>7 DEF Unthrottle, Clears, At
<1>8. CASE ThrottleHit(r) \/ UnthrottleError(r) \/ Reply(r) \/ Abort(r)
  BY <1>3, <1>8 DEF ThrottleHit, UnthrottleError, Reply, Abort, history
<1>9. CASE Produced(r) \/ ProduceError(r) \/ ProduceUnknown(r)
  BY <1>9 DEF Produced, ProduceError, ProduceUnknown, At, history
<1> QED
  BY <1>5, <1>6, <1>7, <1>8, <1>9 DEF Continue, Fail
-----------------------------------------------------------------------------
(* Types, and the time a record is in.                                     *)

(* What a record is made of.                                               *)
LEMMA RecordTypes ==
  ASSUME TypeOK, NEW o \in DOMAIN clicks
  PROVE  /\ clicks[o].ch \in Challenges /\ clicks[o].ts \in Nat
         /\ clicks[o].won \in Nat /\ clicks[o].at \in Nat
<1> DEFINE S == [ch : Challenges, ts : Nat, won : Nat, at : Nat]
<1>1. clicks \in Seq(S)
  BY DEF TypeOK
<1> HIDE DEF S
<1>2. clicks[o] \in S
  BY <1>1
<1> QED
  BY <1>2 DEF S

(* What was signed stays signed, so what was logged stays in its window.   *)
LEMMA LogKept ==
  ASSUME TypeOK, LogInv, RecordInWindow, \A c \in Challenges : Same(c), UNCHANGED clicks
  PROVE  LogInv' /\ RecordInWindow'
<1>1. \A o \in DOMAIN clicks : clicks[o].ch \in Challenges
  BY RecordTypes
<1>2. \A o \in DOMAIN clicks : chal'[clicks[o].ch] = chal[clicks[o].ch]
  BY <1>1 DEF LogInv, Same
<1> QED
  BY <1>2 DEF LogInv, RecordInWindow, Issued

(* The first state.                                                        *)
LEMMA InitWindows == Init => Windows /\ Spaced /\ Dated
<1> SUFFICES ASSUME Init PROVE Windows /\ Spaced /\ Dated
  OBVIOUS
<1>1. \A r \in Calls : At(r, "idle")
  BY DEF Init, At, NoCall
<1>2. \A ch \in Challenges : ~Issued(ch)
  BY DEF Init, Issued, NoChallenge
<1>3. TypeOK
  BY <1>1 DEF Init, TypeOK, NoCall, NoChallenge, Payload, CallState
<1>4. ChalInv
  BY <1>2 DEF ChalInv
<1>5. \A r \in Calls : ~Claimed(r)
  BY DEF Init, NoCall, Claimed
<1>6. CallInv
  BY <1>1, <1>5 DEF CallInv
<1>7. DOMAIN clicks = {} /\ acked = {}
  BY DEF Init
<1>8. LogInv /\ RecordInWindow /\ Dated
  BY <1>7 DEF LogInv, RecordInWindow, Dated
<1>9. Spaced
  BY <1>5, <1>7 DEF Spaced, Held, Split, Latest
<1> QED
  BY <1>3, <1>4, <1>6, <1>8, <1>9 DEF Windows

(* A call's own step keeps the types and the times.                        *)
LEMMA CallWindows ==
  ASSUME Windows, NEW r \in Calls, Continue(r) \/ Fail(r)
  PROVE  Windows'
<1>0. TypeOK /\ ChalInv /\ CallInv /\ LogInv /\ RecordInWindow /\ now \in Nat
  BY DEF Windows, TypeOK
<1>1. CallStep(r)
  BY <1>0, CallShape
<1>2. ~At(r, "idle") => chal'[call[r].ch] = chal[call[r].ch]
  BY <1>0, <1>1 DEF CallStep, Same, TypeOK
<1>3. \A q \in Calls : ~At(q, "idle")' =>
        /\ ~At(q, "idle")
        /\ call'[q].ch = call[q].ch /\ call'[q].ts = call[q].ts
        /\ Claimed(q)' => \/ Claimed(q) /\ call'[q].won = call[q].won
                         \/ call'[q].won = now
  <2> SUFFICES ASSUME NEW q \in Calls, ~At(q, "idle")'
               PROVE  /\ ~At(q, "idle")
                      /\ call'[q].ch = call[q].ch /\ call'[q].ts = call[q].ts
                      /\ Claimed(q)' => \/ Claimed(q) /\ call'[q].won = call[q].won
                                       \/ call'[q].won = now
    OBVIOUS
  <2>1. CASE q # r
    BY <1>1, <2>1 DEF CallStep, At, Claimed
  <2>2. CASE q = r
    <3>1. call'[r] # NoCall
      BY <2>2 DEF At, NoCall
    <3>2. call[r] \in CallState
      BY <1>0 DEF TypeOK
    <3> QED
      BY <1>1, <2>2, <3>1, <3>2 DEF CallStep, Moves, At, Claimed, CallState
  <2> QED
    BY <2>1, <2>2
<1>4. \A q \in Calls : ~At(q, "idle") => chal'[call[q].ch] = chal[call[q].ch]
  BY <1>0, <1>1 DEF CallStep, Same, TypeOK
<1>5. CallInv'
  <2>1. \A q \in Calls : ~At(q, "idle")' =>
          /\ chal'[call'[q].ch].iat <= call'[q].ts
          /\ call'[q].ts <= chal'[call'[q].ch].iat + Life
          /\ call'[q].ts <= now' /\ now' <= call'[q].ts + MaxRequest
    BY <1>0, <1>1, <1>3, <1>4 DEF CallInv, CallStep
  <2>2. \A q \in Calls : Claimed(q)' => ~At(q, "idle")'
    BY DEF Claimed, At
  <2>3. \A q \in Calls : Claimed(q)' =>
          call'[q].ts <= call'[q].won /\ call'[q].won <= now'
    BY <1>0, <1>1, <1>3, <2>1, <2>2 DEF CallInv, CallStep
  <2> QED
    BY <2>1, <2>3 DEF CallInv
<1>6. LogInv' /\ RecordInWindow' /\ acked' \subseteq DOMAIN clicks'
      /\ clicks' \in Seq([ch : Challenges, ts : Nat, won : Nat, at : Nat])
  <2>1. CASE UNCHANGED <<clicks, acked>>
    BY <1>0, <1>1, <2>1, LogKept DEF CallStep, TypeOK
  <2>2. CASE Appends(r)
    <3> DEFINE n == Len(clicks) + 1
    <3>1. /\ Len(clicks) \in Nat
          /\ DOMAIN clicks' = DOMAIN clicks \cup {n}
          /\ \A o \in DOMAIN clicks : clicks'[o] = clicks[o]
          /\ clicks'[n] = [ch |-> call[r].ch, ts |-> call[r].ts,
                           won |-> call[r].won, at |-> now]
          /\ call[r].ch \in Challenges /\ Issued(call[r].ch)
          /\ clicks' \in Seq([ch : Challenges, ts : Nat, won : Nat, at : Nat])
      BY <1>0, <2>2, AppendShape
    <3>2. \A o \in DOMAIN clicks : clicks[o].ch \in Challenges
      BY <1>0, RecordTypes
    <3>3. \A o \in DOMAIN clicks : chal'[clicks[o].ch] = chal[clicks[o].ch]
      BY <1>0, <1>1, <3>2 DEF LogInv, CallStep, Same
    <3>4. chal'[call[r].ch] = chal[call[r].ch] /\ Claimed(r) /\ ~At(r, "idle")
      BY <1>1, <1>2, <2>2 DEF Appends, Claimed, At, CallStep
    <3>5. /\ chal[call[r].ch].iat <= call[r].ts /\ call[r].ts <= chal[call[r].ch].iat + Life
          /\ call[r].ts <= now /\ now <= call[r].ts + MaxRequest
          /\ call[r].ts <= call[r].won /\ call[r].won <= now
      BY <1>0, <3>4 DEF CallInv
    <3>6. call[r].ts \in Nat /\ call[r].won \in Nat /\ chal[call[r].ch].iat \in Nat
      BY <1>0, <3>1 DEF TypeOK, CallState, Payload
    <3>7. LogInv'
      <4>1. \A o \in DOMAIN clicks : /\ Issued(clicks[o].ch)'
                                     /\ clicks'[o].ts <= clicks'[o].won
                                     /\ clicks'[o].won <= clicks'[o].ts + MaxRequest
        BY <1>0, <3>1, <3>3 DEF LogInv, Issued
      <4>2. chal'[clicks'[n].ch].iat > 0 /\ clicks'[n].ts <= clicks'[n].won
            /\ clicks'[n].won <= clicks'[n].ts + MaxRequest
        BY <3>1, <3>4, <3>5, <3>6, <1>0, IngestConstants DEF Issued
      <4> QED
        BY <3>1, <4>1, <4>2 DEF LogInv, Issued
    <3>8. RecordInWindow'
      <4>1. \A o \in DOMAIN clicks :
              /\ chal'[clicks'[o].ch].iat <= clicks'[o].at
              /\ clicks'[o].at <= chal'[clicks'[o].ch].iat + Life + MaxRequest
        BY <1>0, <3>1, <3>3 DEF RecordInWindow
      <4>2. /\ chal'[clicks'[n].ch].iat <= clicks'[n].at
            /\ clicks'[n].at <= chal'[clicks'[n].ch].iat + Life + MaxRequest
        <5>1. clicks'[n].at = now /\ chal'[clicks'[n].ch] = chal[call[r].ch]
          BY <3>1, <3>4
        <5>2. chal[call[r].ch].iat <= now /\ now <= chal[call[r].ch].iat + Life + MaxRequest
          BY <1>0, <3>5, <3>6, IngestConstants
        <5> QED
          BY <5>1, <5>2
      <4> QED
        BY <3>1, <4>1, <4>2 DEF RecordInWindow
    <3> QED
      BY <1>0, <2>2, <3>1, <3>7, <3>8 DEF Appends, TypeOK
  <2> QED
    BY <1>0, <2>1, <2>2, LogShape
<1>7. /\ throttle' \in [Users -> Nat] /\ faults' \in Nat
      /\ claimer' \in [Users -> Calls \cup {NoUser}] /\ freed' \subseteq Users \X Nat
  <2>1. throttle' \in [Users -> Nat]
    <3>1. Claims(r) => now + Mi(r) \in Nat
      BY <1>0 DEF Claims, At, Mi, TypeOK, Payload
    <3>2. throttle' = throttle \/ Claims(r) \/ Clears(r)
      BY <1>0, ThrottleShape
    <3> QED
      BY <1>0, <3>1, <3>2 DEF Claims, Clears, TypeOK
  <2>2. faults' = faults \/ faults' = faults + 1
    BY DEF Continue, Fail, Fault, ThrottleClaimed, ThrottleHit, ThrottleError, Produced,
           ProduceError, ProduceUnknown, Unthrottle, UnthrottleError, Reply, Abort
  <2>3. claimer' \in [Users -> Calls \cup {NoUser}] /\ freed' \subseteq Users \X Nat
    <3>1. Clears(r) => Sub(r) \in Users
      BY <1>0 DEF Clears, At, TypeOK
    <3>2. UNCHANGED <<throttle, claimer, freed>> \/ Claims(r) \/ Clears(r)
      BY <1>0, ThrottleShape
    <3>3. claimer' \in [Users -> Calls \cup {NoUser}]
      BY <1>0, <3>2 DEF Claims, Clears, TypeOK
    <3>4. Clears(r) => <<Sub(r), now>> \in Users \X Nat
      BY <1>0, <3>1
    <3>5. freed' \in {freed, freed \cup {<<Sub(r), now>>}} /\ (~Clears(r) => freed' = freed)
      BY <3>2 DEF Claims, Clears
    <3> QED
      BY <1>0, <3>3, <3>4, <3>5 DEF TypeOK
  <2> QED
    BY <1>0, <2>1, <2>2, <2>3 DEF TypeOK
<1>8. \A q \in Calls : ~At(q, "idle")' =>
        call'[q].ch \in Challenges /\ Issued(call[q].ch)' /\ Sub(q)' \in Users
  BY <1>0, <1>3, <1>4 DEF TypeOK, Issued, Sub
<1>9. TypeOK'
  BY <1>0, <1>1, <1>6, <1>7, <1>8 DEF TypeOK, CallStep
<1> QED
  BY <1>1, <1>5, <1>6, <1>9 DEF Windows, CallStep

(* So does every other step.                                               *)
LEMMA StepWindows ==
  ASSUME Windows, [Next]_vars
  PROVE  Windows'
<1>0. TypeOK /\ ChalInv /\ CallInv /\ LogInv /\ RecordInWindow /\ now \in Nat
  BY DEF Windows, TypeOK
<1>1. CASE UNCHANGED vars
  BY <1>0, <1>1 DEF vars, history, Windows, TypeOK, ChalInv, CallInv, LogInv,
                    RecordInWindow, At, Issued, Sub, Claimed
<1>2. CASE Tick
  <2>1. /\ now' = now + 1
        /\ UNCHANGED <<chal, throttle, call, clicks, history, faults>>
        /\ \A r \in Calls : At(r, "idle") \/ now < call[r].ts + MaxRequest
    BY <1>2 DEF Tick
  <2>2. TypeOK' /\ LogInv' /\ RecordInWindow'
    BY <1>0, <2>1 DEF TypeOK, LogInv, RecordInWindow, At, Issued, Sub, history
  <2>3. ChalInv'
    <3>1. \A ch \in Challenges : chal[ch].iat \in Nat
      BY <1>0 DEF TypeOK, Payload
    <3> QED
      BY <1>0, <2>1, <3>1 DEF ChalInv, Issued
  <2>4. CallInv'
    <3>1. \A r \in Calls : call[r].ts \in Nat /\ call[r].won \in Nat
      BY <1>0 DEF TypeOK, CallState
    <3> QED
      BY <1>0, <2>1, <3>1, IngestConstants DEF CallInv, At, Claimed
  <2> QED
    BY <2>2, <2>3, <2>4 DEF Windows
<1>3. ASSUME NEW u \in Users, NEW ch \in Challenges, IssueChallenge(u, ch)
      PROVE  Windows'
  <2>1. Signed(u, ch) /\ UNCHANGED <<now, throttle, call, clicks, history, faults>>
    BY <1>3 DEF IssueChallenge
  <2>2. chal' \in [Challenges -> Payload] /\ (\A c \in Challenges : Same(c)) /\ ChalInv'
    BY <1>0, <2>1, SignedShape
  <2>3. LogInv' /\ RecordInWindow'
    BY <1>0, <2>1, <2>2, LogKept DEF history
  <2>4. \A r \in Calls : ~At(r, "idle") => chal'[call[r].ch] = chal[call[r].ch]
    BY <1>0, <2>2 DEF TypeOK, Same
  <2>5. TypeOK'
    BY <1>0, <2>1, <2>2, <2>4 DEF TypeOK, At, Issued, Sub, history
  <2>6. CallInv'
    BY <1>0, <2>1, <2>4 DEF CallInv, At, Claimed
  <2> QED
    BY <2>2, <2>3, <2>5, <2>6 DEF Windows
<1>4. ASSUME NEW r \in Calls, NEW u \in Users, NEW ch \in Challenges, SubmitClicks(r, u, ch)
      PROVE  Windows'
  <2> DEFINE c == [pc |-> "throttle", ch |-> ch, ts |-> now, won |-> 0]
  <2>1. /\ Issued(ch) /\ chal[ch].sub = u /\ now <= chal[ch].iat + Life
        /\ call' = [call EXCEPT ![r] = c]
        /\ UNCHANGED <<now, chal, throttle, clicks, history, faults>>
    BY <1>4 DEF SubmitClicks, Verify
  <2>2. c \in CallState
    BY <1>0 DEF CallState
  <2>3. /\ call' \in [Calls -> CallState] /\ call'[r] = c
        /\ \A q \in Calls : q # r => call'[q] = call[q]
    BY <1>0, <2>1, <2>2 DEF TypeOK
  <2>4. TypeOK'
    <3>1. \A q \in Calls : ~At(q, "idle")' =>
            call'[q].ch \in Challenges /\ Issued(call[q].ch)' /\ Sub(q)' \in Users
      <4>1. \A q \in Calls : q # r /\ ~At(q, "idle")' =>
              call'[q].ch \in Challenges /\ Issued(call[q].ch)' /\ Sub(q)' \in Users
        BY <1>0, <2>1, <2>3 DEF TypeOK, At, Issued, Sub
      <4>2. call'[r].ch \in Challenges /\ Issued(call[r].ch)' /\ Sub(r)' \in Users
        BY <2>1, <2>3 DEF Issued, Sub
      <4> QED
        BY <4>1, <4>2
    <3> QED
      BY <1>0, <2>1, <2>3, <3>1 DEF TypeOK, history
  <2>5. LogInv' /\ RecordInWindow' /\ ChalInv'
    BY <1>0, <2>1 DEF LogInv, RecordInWindow, ChalInv, Issued
  <2>6. CallInv'
    <3>1. \A q \in Calls : q # r =>
            /\ ~At(q, "idle")' =>
                 /\ chal'[call'[q].ch].iat <= call'[q].ts
                 /\ call'[q].ts <= chal'[call'[q].ch].iat + Life
                 /\ call'[q].ts <= now' /\ now' <= call'[q].ts + MaxRequest
            /\ Claimed(q)' => call'[q].ts <= call'[q].won /\ call'[q].won <= now'
      BY <1>0, <2>1, <2>3 DEF CallInv, At, Claimed
    <3>2. /\ chal'[call'[r].ch].iat <= call'[r].ts
          /\ call'[r].ts <= chal'[call'[r].ch].iat + Life
          /\ call'[r].ts <= now' /\ now' <= call'[r].ts + MaxRequest
          /\ ~Claimed(r)'
      BY <1>0, <2>1, <2>3, IngestConstants DEF ChalInv, Claimed
    <3> QED
      BY <3>1, <3>2 DEF CallInv
  <2> QED
    BY <2>4, <2>5, <2>6 DEF Windows
<1> QED
  BY <1>1, <1>2, <1>3, <1>4, CallWindows DEF Next, Start
-----------------------------------------------------------------------------
(* Claims of a user are apart, however long calls take.                    *)

(* More deletions and more time excuse no less.                            *)
LEMMA FreedKept ==
  ASSUME NEW F, NEW G, F \subseteq G, NEW u, NEW w \in Nat, NEW t \in Nat, NEW s \in Nat,
         t <= s, FreedIn(F, u, w, t)
  PROVE  FreedIn(G, u, w, s)
<1>1. PICK d \in w .. t : <<u, d>> \in F
  BY DEF FreedIn
<1>2. d \in w .. s
  BY <1>1
<1> QED
  BY <1>1, <1>2 DEF FreedIn

(* A deletion just now excuses every claim of the user made before.        *)
LEMMA FreedNow ==
  ASSUME NEW F, NEW u, NEW w \in Nat, NEW t \in Nat, w <= t, <<u, t>> \in F
  PROVE  FreedIn(F, u, w, t)
<1>1. t \in w .. t
  OBVIOUS
<1> QED
  BY <1>1 DEF FreedIn

(* Claims that are apart are apart with more deletions.                    *)
LEMMA ApartKept ==
  ASSUME NEW F, NEW G, F \subseteq G, NEW u, NEW w \in Nat, NEW e, NEW v \in Nat,
         Apart(F, u, w, e, v)
  PROVE  Apart(G, u, w, e, v)
BY FreedKept DEF Apart

(* A claim that runs goes on, or is over, or excused.                      *)
LEMMA RunsKept ==
  ASSUME NEW F, NEW G, F \subseteq G, NEW u, NEW w \in Nat, NEW e \in Nat, NEW k,
         NEW t \in Nat, NEW s \in Nat, t <= s, Runs(F, k, t, u, w, e)
  PROVE  Runs(G, k, s, u, w, e)
BY FreedKept DEF Runs

(* A claim whose key has expired is over, or excused.                      *)
LEMMA RunsOver ==
  ASSUME NEW F, NEW G, F \subseteq G, NEW u, NEW w \in Nat, NEW e \in Nat, NEW k \in Nat,
         NEW t \in Nat, k <= t, Runs(F, k, t, u, w, e)
  PROVE  Runs(G, 0, t, u, w, e) /\ Apart(G, u, w, e, t)
BY FreedKept DEF Runs, Apart

(* A record's user and interval stay what they are.                        *)
LEMMA RecordKept ==
  ASSUME Windows, NEW o \in DOMAIN clicks
  PROVE  /\ SubOf(o) \in Users /\ Until(o) \in Nat
         /\ clicks[o].won \in Nat /\ clicks[o].ts \in Nat
         /\ clicks[o].ts <= clicks[o].won
         /\ chal[clicks[o].ch].mi \in Nat \ {0}
         /\ (\A c \in Challenges : Same(c)) /\ clicks'[o] = clicks[o]
              => SubOf(o)' = SubOf(o) /\ Until(o)' = Until(o)
<1>1. clicks[o].ch \in Challenges /\ clicks[o].won \in Nat /\ clicks[o].ts \in Nat
  BY RecordTypes DEF Windows
<1>2. Issued(clicks[o].ch) /\ clicks[o].ts <= clicks[o].won
  BY DEF Windows, LogInv
<1>3. chal[clicks[o].ch].sub \in Users /\ chal[clicks[o].ch].mi \in Nat \ {0}
  BY <1>1, <1>2, IngestConstants DEF Windows, ChalInv
<1>4. SubOf(o) \in Users /\ Until(o) \in Nat
  BY <1>1, <1>3 DEF SubOf, Until
<1>5. ASSUME \A c \in Challenges : Same(c), clicks'[o] = clicks[o]
      PROVE  SubOf(o)' = SubOf(o) /\ Until(o)' = Until(o)
  <2>1. chal'[clicks[o].ch] = chal[clicks[o].ch]
    BY <1>1, <1>2, <1>5 DEF Same
  <2> QED
    BY <1>5, <2>1 DEF SubOf, Until
<1> QED
  BY <1>1, <1>2, <1>3, <1>4, <1>5

(* So do a call's.                                                         *)
LEMMA ClaimedKept ==
  ASSUME Windows, NEW r \in Calls, ~At(r, "idle")
  PROVE  /\ Sub(r) \in Users /\ Mi(r) \in Nat \ {0} /\ now \in Nat
         /\ call[r].won \in Nat /\ End(r) \in Nat
         /\ Claimed(r) => call[r].won <= now
         /\ (\A c \in Challenges : Same(c)) /\ call'[r].ch = call[r].ch
              => Sub(r)' = Sub(r) /\ Mi(r)' = Mi(r)
<1>1. call[r].ch \in Challenges /\ Issued(call[r].ch) /\ Sub(r) \in Users
  BY DEF Windows, TypeOK
<1>2. call[r].won \in Nat /\ now \in Nat
  BY DEF Windows, TypeOK, CallState
<1>3. Mi(r) \in Nat \ {0}
  BY <1>1, IngestConstants DEF Windows, ChalInv, Mi
<1>4. Claimed(r) => call[r].won <= now
  BY DEF Windows, CallInv
<1>5. (\A c \in Challenges : Same(c)) /\ call'[r].ch = call[r].ch
        => Sub(r)' = Sub(r) /\ Mi(r)' = Mi(r)
  BY <1>1 DEF Same, Sub, Mi
<1> QED
  BY <1>1, <1>2, <1>3, <1>4, <1>5 DEF End

(* A step that claims and acknowledges nothing.                            *)
NothingClaimed ==
  /\ now' \in {now, now + 1} /\ acked' = acked /\ claimer' = claimer
  /\ freed \subseteq freed'
  /\ \A o \in acked : clicks'[o] = clicks[o]
  /\ \A c \in Challenges : Same(c)
  /\ \A q \in Calls : Claimed(q)' =>
       Claimed(q) /\ call'[q].ch = call[q].ch /\ call'[q].won = call[q].won

(* The claims it leaves are those there were.                              *)
LEMMA ClaimsLeft ==
  ASSUME Windows, NothingClaimed
  PROVE  /\ \A o \in acked : /\ SubOf(o) \in Users /\ Until(o) \in Nat /\ clicks[o].won \in Nat
                             /\ SubOf(o)' = SubOf(o) /\ Until(o)' = Until(o)
                             /\ clicks'[o].won = clicks[o].won
         /\ \A q \in Calls : Claimed(q)' =>
              /\ Claimed(q) /\ Sub(q) \in Users /\ End(q) \in Nat /\ call[q].won \in Nat
              /\ Sub(q)' = Sub(q) /\ End(q)' = End(q) /\ call'[q].won = call[q].won
<1>1. acked \subseteq DOMAIN clicks
  BY DEF Windows, TypeOK
<1>2. ASSUME NEW o \in acked
      PROVE  /\ SubOf(o) \in Users /\ Until(o) \in Nat /\ clicks[o].won \in Nat
             /\ SubOf(o)' = SubOf(o) /\ Until(o)' = Until(o) /\ clicks'[o].won = clicks[o].won
  BY <1>1, RecordKept DEF NothingClaimed
<1>3. ASSUME NEW q \in Calls, Claimed(q)'
      PROVE  /\ Claimed(q) /\ Sub(q) \in Users /\ End(q) \in Nat /\ call[q].won \in Nat
             /\ Sub(q)' = Sub(q) /\ End(q)' = End(q) /\ call'[q].won = call[q].won
  <2>1. Claimed(q) /\ ~At(q, "idle")
    BY <1>3 DEF NothingClaimed, Claimed, At
  <2>2. /\ Sub(q) \in Users /\ End(q) \in Nat /\ call[q].won \in Nat
        /\ Sub(q)' = Sub(q) /\ Mi(q)' = Mi(q)
    BY <1>3, <2>1, ClaimedKept DEF NothingClaimed
  <2> QED
    BY <1>3, <2>1, <2>2 DEF NothingClaimed, End
<1> QED
  BY <1>2, <1>3

(* They stay apart, and the latest of a user stays the latest.             *)
LEMMA SplitKept ==
  ASSUME Windows, Spaced, NothingClaimed
  PROVE  Split' /\ Latest'
<1>1. freed \subseteq freed' /\ acked' = acked /\ claimer' = claimer
  BY DEF NothingClaimed
<1>2. ASSUME NEW o \in acked, NEW p \in acked, o # p, SubOf(o)' = SubOf(p)'
      PROVE  Apart(freed', SubOf(o)', clicks'[o].won, Until(o)', clicks'[p].won)
  <2>1. Apart(freed, SubOf(o), clicks[o].won, Until(o), clicks[p].won)
    BY <1>2, ClaimsLeft DEF Spaced, Split
  <2>2. Apart(freed', SubOf(o), clicks[o].won, Until(o), clicks[p].won)
    BY <1>1, <1>2, <2>1, ClaimsLeft, ApartKept
  <2> QED
    BY <1>2, <2>2, ClaimsLeft
<1>3. ASSUME NEW o \in acked, NEW r \in Calls, Claimed(r)', Sub(r)' = SubOf(o)'
      PROVE  /\ Apart(freed', SubOf(o)', clicks'[o].won, Until(o)', call'[r].won)
             /\ Apart(freed', SubOf(o)', call'[r].won, End(r)', clicks'[o].won)
  <2>1. /\ Apart(freed, SubOf(o), clicks[o].won, Until(o), call[r].won)
        /\ Apart(freed, SubOf(o), call[r].won, End(r), clicks[o].won)
    BY <1>3, ClaimsLeft DEF Spaced, Split
  <2>2. Apart(freed', SubOf(o), clicks[o].won, Until(o), call[r].won)
    BY <1>1, <1>3, <2>1, ClaimsLeft, ApartKept
  <2>3. Apart(freed', SubOf(o), call[r].won, End(r), clicks[o].won)
    BY <1>1, <1>3, <2>1, ClaimsLeft, ApartKept
  <2> QED
    BY <1>3, <2>2, <2>3, ClaimsLeft
<1>4. ASSUME NEW r \in Calls, NEW q \in Calls, Claimed(r)', Claimed(q)', r # q, Sub(r)' = Sub(q)'
      PROVE  Apart(freed', Sub(r)', call'[r].won, End(r)', call'[q].won)
  <2>1. Apart(freed, Sub(r), call[r].won, End(r), call[q].won)
    BY <1>4, ClaimsLeft DEF Spaced, Split
  <2>2. Apart(freed', Sub(r), call[r].won, End(r), call[q].won)
    BY <1>1, <1>4, <2>1, ClaimsLeft, ApartKept
  <2> QED
    BY <1>4, <2>2, ClaimsLeft
<1>5. Latest'
  BY <1>1, ClaimsLeft DEF Spaced, Latest
<1> QED
  BY <1>1, <1>2, <1>3, <1>4, <1>5 DEF Split

(* When it leaves the keys alone too, every claim's key is there still.    *)
LEMMA SpacedKept ==
  ASSUME Windows, Spaced, NothingClaimed, throttle' = throttle
  PROVE  Spaced'
<1>1. /\ freed \subseteq freed' /\ acked' = acked /\ now' \in {now, now + 1}
      /\ now \in Nat /\ \A u \in Users : throttle[u] \in Nat
  BY DEF NothingClaimed, Windows, TypeOK
<1>2. now' \in Nat /\ now <= now'
  BY <1>1
<1>3. ASSUME NEW o \in acked
      PROVE  Runs(freed', throttle'[SubOf(o)'], now', SubOf(o)', clicks'[o].won, Until(o)')
  <2>1. Runs(freed, throttle[SubOf(o)], now, SubOf(o), clicks[o].won, Until(o))
    BY <1>3 DEF Spaced, Held
  <2>2. Runs(freed', throttle[SubOf(o)], now', SubOf(o), clicks[o].won, Until(o))
    BY <1>1, <1>2, <1>3, <2>1, ClaimsLeft, RunsKept
  <2> QED
    BY <1>3, <2>2, ClaimsLeft
<1>4. ASSUME NEW r \in Calls, Claimed(r)'
      PROVE  Runs(freed', throttle'[Sub(r)'], now', Sub(r)', call'[r].won, End(r)')
  <2>1. Runs(freed, throttle[Sub(r)], now, Sub(r), call[r].won, End(r))
    BY <1>4, ClaimsLeft DEF Spaced, Held
  <2>2. Runs(freed', throttle[Sub(r)], now', Sub(r), call[r].won, End(r))
    BY <1>1, <1>2, <1>4, <2>1, ClaimsLeft, RunsKept
  <2> QED
    BY <1>4, <2>2, ClaimsLeft
<1> QED
  BY <1>1, <1>3, <1>4, SplitKept DEF Spaced, Held

(* A call that failed to produce deletes its user's key: when another call *)
(* set it, that is on record; when it set the key itself, its claim is the *)
(* latest of the user, and the intervals of the others are over.           *)
LEMMA SpacedClears ==
  ASSUME Windows, Dated, Spaced, NothingClaimed, now' = now, NEW r \in Calls, Clears(r)
  PROVE  Spaced'
<1> DEFINE u == Sub(r)
<1>1. /\ freed \subseteq freed' /\ acked' = acked /\ acked \subseteq DOMAIN clicks
      /\ now \in Nat /\ \A v \in Users : throttle[v] \in Nat
  BY DEF NothingClaimed, Windows, TypeOK
<1>2. ~At(r, "idle") /\ Claimed(r) /\ ~Claimed(r)'
  BY DEF Clears, At, Claimed, NoCall
<1>3. u \in Users /\ call[r].won \in Nat /\ call[r].won <= now
  BY <1>2, ClaimedKept
<1>4. throttle'[u] = 0 /\ \A v \in Users : v # u => throttle'[v] = throttle[v]
  BY <1>3 DEF Clears, Windows, TypeOK
<1>5. ASSUME NEW w \in Nat, NEW e \in Nat, w <= now,
             Runs(freed, throttle[u], now, u, w, e),
             claimer[u] = r => w <= call[r].won /\ Apart(freed, u, w, e, call[r].won)
      PROVE  Runs(freed', 0, now, u, w, e)
  <2>1. CASE <<u, now>> \in freed'
    BY <1>1, <1>3, <1>5, <2>1, FreedNow DEF Runs
  <2>2. CASE throttle[u] <= now
    BY <1>1, <1>3, <1>5, <2>2, RunsOver
  <2>3. CASE claimer[u] = r
    <3>1. e <= call[r].won \/ FreedIn(freed, u, w, call[r].won)
      BY <1>5, <2>3 DEF Apart
    <3>2. e <= now \/ FreedIn(freed', u, w, now)
      BY <1>1, <1>3, <1>5, <3>1, FreedKept
    <3> QED
      BY <3>2 DEF Runs
  <2> QED
    BY <2>1, <2>2, <2>3 DEF Clears
<1>6. \A o \in acked : clicks[o].won <= now
  <2> SUFFICES ASSUME NEW o \in acked PROVE clicks[o].won <= now
    OBVIOUS
  <2>1. clicks[o].won <= clicks[o].at /\ clicks[o].at <= now
    BY <1>1 DEF Dated
  <2>2. clicks[o].won \in Nat /\ clicks[o].at \in Nat
    BY <1>1, RecordTypes DEF Windows
  <2> QED
    BY <1>1, <2>1, <2>2
<1>7. ASSUME NEW o \in acked
      PROVE  Runs(freed', throttle'[SubOf(o)'], now', SubOf(o)', clicks'[o].won, Until(o)')
  <2>1. /\ SubOf(o) \in Users /\ Until(o) \in Nat /\ clicks[o].won \in Nat
        /\ SubOf(o)' = SubOf(o) /\ Until(o)' = Until(o) /\ clicks'[o].won = clicks[o].won
    BY <1>7, ClaimsLeft
  <2>2. Runs(freed, throttle[SubOf(o)], now, SubOf(o), clicks[o].won, Until(o))
    BY <1>7 DEF Spaced, Held
  <2>3. CASE SubOf(o) = u
    <3>1. claimer[u] = r => clicks[o].won <= call[r].won
      BY <1>2, <2>3 DEF Spaced, Latest
    <3>2. Apart(freed, u, clicks[o].won, Until(o), call[r].won)
      BY <1>2, <2>3 DEF Spaced, Split
    <3>3. Runs(freed', 0, now, u, clicks[o].won, Until(o))
      BY <1>5, <1>6, <2>1, <2>2, <2>3, <3>1, <3>2
    <3> QED
      BY <1>4, <2>1, <2>3, <3>3
  <2>4. CASE SubOf(o) # u
    <3>1. Runs(freed', throttle[SubOf(o)], now, SubOf(o), clicks[o].won, Until(o))
      BY <1>1, <2>1, <2>2, RunsKept
    <3> QED
      BY <1>4, <2>1, <2>4, <3>1
  <2> QED
    BY <2>3, <2>4
<1>8. ASSUME NEW q \in Calls, Claimed(q)'
      PROVE  Runs(freed', throttle'[Sub(q)'], now', Sub(q)', call'[q].won, End(q)')
  <2>1. /\ Claimed(q) /\ Sub(q) \in Users /\ End(q) \in Nat /\ call[q].won \in Nat
        /\ Sub(q)' = Sub(q) /\ End(q)' = End(q) /\ call'[q].won = call[q].won
    BY <1>8, ClaimsLeft
  <2>2. q # r /\ ~At(q, "idle") /\ Runs(freed, throttle[Sub(q)], now, Sub(q), call[q].won, End(q))
    BY <1>2, <1>8, <2>1 DEF Spaced, Held, Claimed, At
  <2>3. CASE Sub(q) = u
    <3>1. call[q].won <= now
      BY <2>1, <2>2, ClaimedKept
    <3>2. claimer[u] = r => call[q].won <= call[r].won
      BY <1>2, <2>1, <2>3 DEF Spaced, Latest
    <3>3. Apart(freed, u, call[q].won, End(q), call[r].won)
      BY <1>2, <2>1, <2>2, <2>3 DEF Spaced, Split
    <3>4. Runs(freed', 0, now, u, call[q].won, End(q))
      BY <1>5, <2>1, <2>2, <2>3, <3>1, <3>2, <3>3
    <3> QED
      BY <1>4, <2>1, <2>3, <3>4
  <2>4. CASE Sub(q) # u
    <3>1. Runs(freed', throttle[Sub(q)], now, Sub(q), call[q].won, End(q))
      BY <1>1, <2>1, <2>2, RunsKept
    <3> QED
      BY <1>4, <2>1, <2>4, <3>1
  <2> QED
    BY <2>3, <2>4
<1> QED
  BY <1>1, <1>7, <1>8, SplitKept DEF Spaced, Held

(* A call claims the key of its user when the keys of the other claims are *)
(* gone: their intervals are over, or a key was deleted since.  The call   *)
(* may not learn of it.                                                    *)
LEMMA SpacedClaims ==
  ASSUME Windows, Dated, Spaced, NEW r \in Calls, CallStep(r), Claims(r),
         acked' = acked, \A o \in acked : clicks'[o] = clicks[o]
  PROVE  Spaced'
<1> DEFINE u == Sub(r)
<1>0. /\ ~At(r, "idle") /\ ~Claimed(r) /\ (\A c \in Challenges : Same(c)) /\ now' = now
      /\ freed' = freed
  BY DEF Claims, CallStep, At, Claimed
<1>1. u \in Users /\ Mi(r) \in Nat \ {0} /\ now \in Nat
  BY <1>0, ClaimedKept
<1>2. /\ throttle[u] <= now /\ throttle'[u] = now + Mi(r) /\ claimer'[u] = r
      /\ \A v \in Users : v # u => throttle'[v] = throttle[v] /\ claimer'[v] = claimer[v]
      /\ \A v \in Users : throttle[v] \in Nat
  BY <1>1 DEF Claims, Windows, TypeOK
<1>3. \A o \in acked : /\ SubOf(o) \in Users /\ Until(o) \in Nat /\ clicks[o].won \in Nat
                       /\ SubOf(o)' = SubOf(o) /\ Until(o)' = Until(o)
                       /\ clicks'[o].won = clicks[o].won /\ clicks[o].won <= now
                       /\ clicks[o].won < Until(o)
  <2> SUFFICES ASSUME NEW o \in acked
               PROVE  /\ SubOf(o) \in Users /\ Until(o) \in Nat /\ clicks[o].won \in Nat
                      /\ SubOf(o)' = SubOf(o) /\ Until(o)' = Until(o)
                      /\ clicks'[o].won = clicks[o].won /\ clicks[o].won <= now
                      /\ clicks[o].won < Until(o)
    OBVIOUS
  <2>1. o \in DOMAIN clicks
    BY DEF Windows, TypeOK
  <2>2. clicks[o].won <= clicks[o].at /\ clicks[o].at <= now /\ clicks[o].at \in Nat
    BY <2>1, RecordTypes DEF Dated, Windows
  <2>3. /\ SubOf(o) \in Users /\ Until(o) \in Nat /\ clicks[o].won \in Nat
        /\ SubOf(o)' = SubOf(o) /\ Until(o)' = Until(o)
        /\ chal[clicks[o].ch].mi \in Nat \ {0}
    BY <1>0, <2>1, RecordKept
  <2>4. clicks[o].won < Until(o)
    BY <2>3 DEF Until
  <2> QED
    BY <1>1, <2>2, <2>3, <2>4
<1>4. ASSUME NEW q \in Calls, Claimed(q)', q # r
      PROVE  /\ Claimed(q) /\ Sub(q) \in Users /\ End(q) \in Nat /\ call[q].won \in Nat
             /\ Sub(q)' = Sub(q) /\ End(q)' = End(q) /\ call'[q].won = call[q].won
             /\ call[q].won <= now /\ call[q].won < End(q)
  <2>1. Claimed(q) /\ ~At(q, "idle") /\ call'[q] = call[q]
    BY <1>4 DEF CallStep, Claimed, At
  <2>2. /\ Sub(q) \in Users /\ End(q) \in Nat /\ call[q].won \in Nat /\ call[q].won <= now
        /\ Sub(q)' = Sub(q) /\ Mi(q)' = Mi(q) /\ Mi(q) \in Nat \ {0}
    BY <1>0, <2>1, ClaimedKept
  <2> QED
    BY <2>1, <2>2 DEF End
<1>5. ASSUME Claimed(r)'
      PROVE  call'[r].won = now /\ Sub(r)' = u /\ End(r)' = now + Mi(r)
  <2>1. call'[r] # NoCall
    BY <1>5 DEF Claimed, NoCall
  <2>2. call'[r] = [call[r] EXCEPT !.pc = "produce", !.won = now]
    BY <2>1 DEF CallStep, Moves, Claims, At
  <2>3. call[r] \in CallState
    BY DEF Windows, TypeOK
  <2>4. call'[r].won = now /\ call'[r].ch = call[r].ch
    BY <2>2, <2>3 DEF CallState
  <2>5. Sub(r)' = u /\ Mi(r)' = Mi(r)
    BY <1>0, <2>4, ClaimedKept
  <2> QED
    BY <2>4, <2>5 DEF End
(* Every other claim of u: its key is gone.                                *)
<1>6. ASSUME NEW w \in Nat, NEW e \in Nat, w <= now, w < e,
             Runs(freed, throttle[u], now, u, w, e)
      PROVE  /\ Runs(freed, now + Mi(r), now, u, w, e)
             /\ Apart(freed, u, w, e, now)
             /\ Apart(freed, u, now, now + Mi(r), w)
  <2>1. e <= now \/ FreedIn(freed, u, w, now)
    BY <1>1, <1>2, <1>6 DEF Runs
  <2>2. now <= w => FreedIn(freed, u, now, w)
    <3> SUFFICES ASSUME now <= w PROVE FreedIn(freed, u, now, w)
      OBVIOUS
    <3>1. w = now
      BY <1>1, <1>6
    <3> QED
      BY <1>1, <1>6, <2>1, <3>1
  <2> QED
    BY <2>1, <2>2 DEF Runs, Apart
<1>7. ASSUME NEW o \in acked
      PROVE  /\ Runs(freed, throttle'[SubOf(o)], now, SubOf(o), clicks[o].won, Until(o))
             /\ SubOf(o) = u => /\ Apart(freed, u, clicks[o].won, Until(o), now)
                                /\ Apart(freed, u, now, now + Mi(r), clicks[o].won)
  <2>1. Runs(freed, throttle[SubOf(o)], now, SubOf(o), clicks[o].won, Until(o))
    BY <1>7 DEF Spaced, Held
  <2> QED
    BY <1>2, <1>3, <1>6, <1>7, <2>1
<1>8. ASSUME NEW q \in Calls, Claimed(q)', q # r
      PROVE  /\ Runs(freed, throttle'[Sub(q)], now, Sub(q), call[q].won, End(q))
             /\ Sub(q) = u => /\ Apart(freed, u, call[q].won, End(q), now)
                              /\ Apart(freed, u, now, now + Mi(r), call[q].won)
  <2>1. Runs(freed, throttle[Sub(q)], now, Sub(q), call[q].won, End(q))
    BY <1>4, <1>8 DEF Spaced, Held
  <2> QED
    BY <1>2, <1>4, <1>6, <1>8, <2>1
<1>9. Held'
  <2>1. \A o \in acked :
          Runs(freed', throttle'[SubOf(o)'], now', SubOf(o)', clicks'[o].won, Until(o)')
    BY <1>0, <1>3, <1>7
  <2>2. ASSUME NEW q \in Calls, Claimed(q)'
        PROVE  Runs(freed', throttle'[Sub(q)'], now', Sub(q)', call'[q].won, End(q)')
    <3>1. CASE q = r
      <4>1. Runs(freed, now + Mi(r), now, u, now, now + Mi(r))
        BY <1>1 DEF Runs
      <4> QED
        BY <1>0, <1>2, <1>5, <2>2, <3>1, <4>1
    <3>2. CASE q # r
      BY <1>0, <1>4, <1>8, <2>2, <3>2
    <3> QED
      BY <3>1, <3>2
  <2> QED
    BY <2>1, <2>2 DEF Held
<1>10. Split'
  <2>1. ASSUME NEW o \in acked, NEW p \in acked, o # p, SubOf(o)' = SubOf(p)'
        PROVE  Apart(freed', SubOf(o)', clicks'[o].won, Until(o)', clicks'[p].won)
    <3>1. Apart(freed, SubOf(o), clicks[o].won, Until(o), clicks[p].won)
      BY <1>3, <2>1 DEF Spaced, Split
    <3> QED
      BY <1>0, <1>3, <2>1, <3>1
  <2>2. ASSUME NEW o \in acked, NEW q \in Calls, Claimed(q)', Sub(q)' = SubOf(o)'
        PROVE  /\ Apart(freed', SubOf(o)', clicks'[o].won, Until(o)', call'[q].won)
               /\ Apart(freed', SubOf(o)', call'[q].won, End(q)', clicks'[o].won)
    <3>1. CASE q = r
      BY <1>0, <1>3, <1>5, <1>7, <2>2, <3>1
    <3>2. CASE q # r
      <4>1. /\ Apart(freed, SubOf(o), clicks[o].won, Until(o), call[q].won)
            /\ Apart(freed, SubOf(o), call[q].won, End(q), clicks[o].won)
        BY <1>3, <1>4, <2>2, <3>2 DEF Spaced, Split
      <4> QED
        BY <1>0, <1>3, <1>4, <2>2, <3>2, <4>1
    <3> QED
      BY <3>1, <3>2
  <2>3. ASSUME NEW p \in Calls, NEW q \in Calls, Claimed(p)', Claimed(q)', p # q,
               Sub(p)' = Sub(q)'
        PROVE  Apart(freed', Sub(p)', call'[p].won, End(p)', call'[q].won)
    <3>1. CASE p = r
      BY <1>0, <1>4, <1>5, <1>8, <2>3, <3>1
    <3>2. CASE q = r
      BY <1>0, <1>4, <1>5, <1>8, <2>3, <3>2
    <3>3. CASE p # r /\ q # r
      <4>1. Apart(freed, Sub(p), call[p].won, End(p), call[q].won)
        BY <1>4, <2>3, <3>3 DEF Spaced, Split
      <4> QED
        BY <1>0, <1>4, <2>3, <3>3, <4>1
    <3> QED
      BY <3>1, <3>2, <3>3
  <2> QED
    BY <2>1, <2>2, <2>3 DEF Split
<1>11. Latest'
  <2>1. ASSUME NEW q \in Calls, Claimed(q)', claimer'[Sub(q)'] = q
        PROVE  /\ \A o \in acked : SubOf(o)' = Sub(q)' => clicks'[o].won <= call'[q].won
               /\ \A p \in Calls : Claimed(p)' /\ Sub(p)' = Sub(q)'
                                     => call'[p].won <= call'[q].won
    <3>1. CASE q = r
      <4>1. call'[q].won = now
        BY <1>5, <2>1, <3>1
      <4>2. \A p \in Calls : Claimed(p)' => call'[p].won <= now
        BY <1>1, <1>4, <1>5
      <4> QED
        BY <1>3, <4>1, <4>2
    <3>2. CASE q # r
      <4>1. /\ Claimed(q) /\ Sub(q)' = Sub(q) /\ Sub(q) \in Users
            /\ call'[q].won = call[q].won
        BY <1>4, <2>1, <3>2
      <4>2. Sub(q) # u /\ claimer[Sub(q)] = q
        BY <1>2, <2>1, <3>2, <4>1
      <4>3. \A o \in acked : SubOf(o)' = Sub(q)' => clicks'[o].won <= call'[q].won
        BY <1>3, <4>1, <4>2 DEF Spaced, Latest
      <4>4. ASSUME NEW p \in Calls, Claimed(p)', Sub(p)' = Sub(q)'
            PROVE  call'[p].won <= call'[q].won
        <5>1. p # r
          BY <1>5, <4>1, <4>2, <4>4
        <5> QED
          BY <1>4, <4>1, <4>2, <4>4, <5>1 DEF Spaced, Latest
      <4> QED
        BY <4>3, <4>4
    <3> QED
      BY <3>1, <3>2
  <2> QED
    BY <2>1 DEF Latest
<1> QED
  BY <1>9, <1>10, <1>11 DEF Spaced

(* A call that produced gives its claim to its record.                     *)
LEMMA SpacedProduced ==
  ASSUME Windows, Spaced, NEW r \in Calls, CallStep(r), Produced(r)
  PROVE  Spaced'
<1>n. PICK n \in Nat : n = Len(clicks) + 1
  BY DEF Windows, TypeOK
<1>0. /\ ~At(r, "idle") /\ Claimed(r) /\ (\A c \in Challenges : Same(c)) /\ ~Claimed(r)'
      /\ UNCHANGED <<now, throttle, claimer, freed>>
  <2>1. call'[r].pc = "next"
    BY DEF Produced, Windows, TypeOK, CallState
  <2> QED
    BY <2>1 DEF Produced, CallStep, At, Claimed
<1>1. Appends(r) /\ acked' = acked \cup {n}
  <2>1. clicks' = Append(clicks, [ch |-> call[r].ch, ts |-> call[r].ts,
                                  won |-> call[r].won, at |-> now])
    BY DEF Produced, AppendEvent
  <2>2. Len(clicks') = n
    BY <1>n, <2>1 DEF Windows, TypeOK
  <2> QED
    BY <1>n, <2>1, <2>2 DEF Produced, Appends
<1>2. /\ n \notin DOMAIN clicks
      /\ \A o \in DOMAIN clicks : clicks'[o] = clicks[o]
      /\ clicks'[n].ch = call[r].ch /\ clicks'[n].won = call[r].won
  <2>1. /\ DOMAIN clicks = 1 .. Len(clicks) /\ Len(clicks) \in Nat
        /\ \A o \in DOMAIN clicks : clicks'[o] = clicks[o]
        /\ clicks'[n] = [ch |-> call[r].ch, ts |-> call[r].ts,
                         won |-> call[r].won, at |-> now]
    BY <1>n, <1>1, AppendShape DEF Windows
  <2> QED
    BY <1>n, <2>1
<1>3. SubOf(n)' = Sub(r) /\ Until(n)' = End(r) /\ clicks'[n].won = call[r].won
  <2>1. chal'[call[r].ch] = chal[call[r].ch]
    BY <1>0 DEF Windows, TypeOK, Same
  <2> QED
    BY <1>2, <2>1 DEF SubOf, Until, Sub, Mi, End
<1>4. ASSUME NEW o \in acked
      PROVE  /\ SubOf(o)' = SubOf(o) /\ Until(o)' = Until(o) /\ o # n
             /\ clicks'[o].won = clicks[o].won
  BY <1>0, <1>2, <1>4, RecordKept DEF Windows, TypeOK
<1>5. ASSUME NEW q \in Calls, Claimed(q)'
      PROVE  /\ q # r /\ Claimed(q) /\ call'[q].won = call[q].won
             /\ Sub(q)' = Sub(q) /\ End(q)' = End(q)
  <2>1. q # r /\ Claimed(q) /\ ~At(q, "idle") /\ call'[q] = call[q]
    BY <1>0, <1>5 DEF CallStep, Claimed, At
  <2>2. Sub(q)' = Sub(q) /\ Mi(q)' = Mi(q)
    BY <1>0, <2>1, ClaimedKept
  <2> QED
    BY <2>1, <2>2 DEF End
<1>6. Held'
  <2>1. ASSUME NEW o \in acked'
        PROVE  Runs(freed', throttle'[SubOf(o)'], now', SubOf(o)', clicks'[o].won, Until(o)')
    <3>1. CASE o = n
      BY <1>0, <1>3, <3>1 DEF Spaced, Held
    <3>2. CASE o \in acked
      BY <1>0, <1>4, <3>2 DEF Spaced, Held
    <3> QED
      BY <1>1, <3>1, <3>2
  <2>2. \A q \in Calls : Claimed(q)' =>
          Runs(freed', throttle'[Sub(q)'], now', Sub(q)', call'[q].won, End(q)')
    BY <1>0, <1>5 DEF Spaced, Held
  <2> QED
    BY <2>1, <2>2 DEF Held
<1>7. Split'
  <2>1. ASSUME NEW o \in acked', NEW p \in acked', o # p, SubOf(o)' = SubOf(p)'
        PROVE  Apart(freed', SubOf(o)', clicks'[o].won, Until(o)', clicks'[p].won)
    <3>1. CASE o = n
      <4>1. p \in acked /\ Sub(r) = SubOf(p)
        BY <1>1, <1>3, <1>4, <2>1, <3>1
      <4>2. Apart(freed, SubOf(p), call[r].won, End(r), clicks[p].won)
        BY <1>0, <4>1 DEF Spaced, Split
      <4> QED
        BY <1>0, <1>3, <1>4, <3>1, <4>1, <4>2
    <3>2. CASE p = n
      <4>1. o \in acked /\ Sub(r) = SubOf(o)
        BY <1>1, <1>3, <1>4, <2>1, <3>2
      <4>2. Apart(freed, SubOf(o), clicks[o].won, Until(o), call[r].won)
        BY <1>0, <4>1 DEF Spaced, Split
      <4> QED
        BY <1>0, <1>3, <1>4, <3>2, <4>1, <4>2
    <3>3. CASE o \in acked /\ p \in acked
      BY <1>0, <1>4, <2>1, <3>3 DEF Spaced, Split
    <3> QED
      BY <1>1, <2>1, <3>1, <3>2, <3>3
  <2>2. ASSUME NEW o \in acked', NEW q \in Calls, Claimed(q)', Sub(q)' = SubOf(o)'
        PROVE  /\ Apart(freed', SubOf(o)', clicks'[o].won, Until(o)', call'[q].won)
               /\ Apart(freed', SubOf(o)', call'[q].won, End(q)', clicks'[o].won)
    <3>1. CASE o = n
      <4>1. q # r /\ Claimed(q) /\ Sub(q) = Sub(r)
        BY <1>3, <1>5, <2>2, <3>1
      <4>2. /\ Apart(freed, Sub(r), call[r].won, End(r), call[q].won)
            /\ Apart(freed, Sub(q), call[q].won, End(q), call[r].won)
        BY <1>0, <4>1 DEF Spaced, Split
      <4> QED
        BY <1>0, <1>3, <1>5, <2>2, <3>1, <4>1, <4>2
    <3>2. CASE o \in acked
      BY <1>0, <1>4, <1>5, <2>2, <3>2 DEF Spaced, Split
    <3> QED
      BY <1>1, <3>1, <3>2
  <2>3. \A p, q \in Calls : Claimed(p)' /\ Claimed(q)' /\ p # q /\ Sub(p)' = Sub(q)' =>
          Apart(freed', Sub(p)', call'[p].won, End(p)', call'[q].won)
    BY <1>0, <1>5 DEF Spaced, Split
  <2> QED
    BY <2>1, <2>2, <2>3 DEF Split
<1>8. Latest'
  <2>1. ASSUME NEW q \in Calls, Claimed(q)', claimer'[Sub(q)'] = q
        PROVE  /\ \A o \in acked' : SubOf(o)' = Sub(q)' => clicks'[o].won <= call'[q].won
               /\ \A p \in Calls : Claimed(p)' /\ Sub(p)' = Sub(q)'
                                     => call'[p].won <= call'[q].won
    <3>1. Claimed(q) /\ claimer[Sub(q)] = q /\ Sub(q)' = Sub(q) /\ call'[q].won = call[q].won
      BY <1>0, <1>5, <2>1
    <3>2. \A o \in acked : SubOf(o)' = Sub(q)' => clicks'[o].won <= call'[q].won
      BY <1>4, <3>1 DEF Spaced, Latest
    <3>3. SubOf(n)' = Sub(q)' => clicks'[n].won <= call'[q].won
      BY <1>0, <1>3, <3>1 DEF Spaced, Latest
    <3>4. \A p \in Calls : Claimed(p)' /\ Sub(p)' = Sub(q)' => call'[p].won <= call'[q].won
      BY <1>5, <3>1 DEF Spaced, Latest
    <3> QED
      BY <1>1, <3>2, <3>3, <3>4
  <2> QED
    BY <2>1 DEF Latest
<1> QED
  BY <1>6, <1>7, <1>8 DEF Spaced

(* Time goes on, and a record is appended when its call has claimed.       *)
LEMMA StepDated ==
  ASSUME Windows, Dated, [Next]_vars
  PROVE  Dated'
<1>0. TypeOK /\ now \in Nat
  BY DEF Windows, TypeOK
<1>1. now' \in Nat /\ now <= now'
  <2>1. now' = now \/ now' = now + 1
    BY DEF Next, Start, Continue, Fail, Tick, IssueChallenge, SubmitClicks, ThrottleClaimed,
           ThrottleHit, ThrottleError, Produced, ProduceError, ProduceUnknown, Unthrottle,
           UnthrottleError, Reply, Abort, vars
  <2> QED
    BY <1>0, <2>1
<1>2. \A o \in DOMAIN clicks : clicks[o].won \in Nat /\ clicks[o].at \in Nat
  BY <1>0, RecordTypes
<1>3. CASE clicks' = clicks
  BY <1>0, <1>1, <1>2, <1>3 DEF Dated
<1>4. ASSUME NEW r \in Calls, Continue(r) \/ Fail(r), Appends(r)
      PROVE  Dated'
  <2> DEFINE n == Len(clicks) + 1
  <2>1. /\ Len(clicks) \in Nat
        /\ DOMAIN clicks' = DOMAIN clicks \cup {n}
        /\ DOMAIN clicks = 1 .. Len(clicks)
        /\ \A o \in DOMAIN clicks : clicks'[o] = clicks[o]
        /\ clicks'[n] = [ch |-> call[r].ch, ts |-> call[r].ts,
                         won |-> call[r].won, at |-> now]
    BY <1>0, <1>4, AppendShape
  <2>2. call[r].won <= now /\ call[r].won \in Nat /\ ~At(r, "idle")
    <3>1. Claimed(r) /\ ~At(r, "idle")
      BY <1>4 DEF Appends, Claimed, At
    <3> QED
      BY <3>1, ClaimedKept
  <2>3. n \in Nat /\ \A o \in DOMAIN clicks : o \in Nat /\ o < n
    BY <2>1
  <2>4. clicks'[n].won = call[r].won /\ clicks'[n].at = now
    BY <2>1
  <2>5. ASSUME NEW o \in DOMAIN clicks'
        PROVE  clicks'[o].won <= clicks'[o].at /\ clicks'[o].at <= now'
    BY <1>0, <1>1, <1>2, <2>1, <2>2, <2>4, <2>5 DEF Dated
  <2>6. ASSUME NEW o \in DOMAIN clicks', NEW p \in DOMAIN clicks', o < p
        PROVE  clicks'[o].at <= clicks'[p].at
    <3>1. o \in DOMAIN clicks
      BY <2>1, <2>3, <2>6
    <3>2. CASE p = n
      BY <2>1, <2>4, <3>1, <3>2 DEF Dated
    <3>3. CASE p \in DOMAIN clicks
      BY <2>1, <2>6, <3>1, <3>3 DEF Dated
    <3> QED
      BY <2>1, <3>2, <3>3
  <2> QED
    BY <2>5, <2>6 DEF Dated
<1>5. ASSUME NEW r \in Calls, Continue(r) \/ Fail(r)
      PROVE  Dated'
  BY <1>0, <1>3, <1>4, <1>5, LogShape
<1>6. ASSUME UNCHANGED vars \/ Tick \/ Start
      PROVE  clicks' = clicks
  BY <1>6 DEF vars, Tick, Start, IssueChallenge, SubmitClicks
<1> QED
  BY <1>3, <1>5, <1>6 DEF Next

(* Every step keeps the claims apart.                                      *)
LEMMA StepSpaced ==
  ASSUME Windows, Dated, Spaced, [Next]_vars
  PROVE  Spaced'
<1>0. TypeOK /\ ChalInv /\ now \in Nat
  BY DEF Windows, TypeOK
<1>1. CASE UNCHANGED vars \/ Tick
  <2>1. now' \in {now, now + 1} /\ UNCHANGED <<chal, throttle, call, clicks, history>>
    BY <1>1 DEF vars, Tick
  <2> QED
    BY <2>1, SpacedKept DEF NothingClaimed, Claimed, Same, history
<1>2. ASSUME NEW u \in Users, NEW ch \in Challenges, IssueChallenge(u, ch)
      PROVE  Spaced'
  <2>1. Signed(u, ch) /\ UNCHANGED <<now, throttle, call, clicks, history>>
    BY <1>2 DEF IssueChallenge
  <2>2. \A c \in Challenges : Same(c)
    BY <1>0, <2>1, SignedShape
  <2> QED
    BY <2>1, <2>2, SpacedKept DEF NothingClaimed, Claimed, history
<1>3. ASSUME NEW r \in Calls, NEW u \in Users, NEW ch \in Challenges, SubmitClicks(r, u, ch)
      PROVE  Spaced'
  <2>1. /\ UNCHANGED <<now, chal, throttle, clicks, history>>
        /\ call'[r].pc = "throttle" /\ \A q \in Calls : q # r => call'[q] = call[q]
    BY <1>0, <1>3 DEF SubmitClicks, TypeOK
  <2> QED
    BY <2>1, SpacedKept DEF NothingClaimed, Claimed, Same, history
<1>4. ASSUME NEW r \in Calls, Continue(r) \/ Fail(r)
      PROVE  Spaced'
  <2>1. CallStep(r)
    BY <1>0, <1>4, CallShape
  <2>2. ~Produced(r) => acked' = acked
    BY <1>4 DEF Continue, Fail, ThrottleClaimed, ThrottleHit, ThrottleError, ProduceError,
                ProduceUnknown, Unthrottle, UnthrottleError, Reply, Abort, history
  <2>3. \A o \in acked : clicks'[o] = clicks[o]
    BY <1>0, <1>4, LogShape, AppendShape DEF TypeOK
  <2>4. /\ UNCHANGED <<throttle, claimer, freed>> \/ Claims(r) \/ Clears(r)
        /\ At(r, "throttle") => Claims(r) \/ call'[r] = NoCall
    BY <1>0, <1>4, ThrottleShape
  <2>5. CASE ~Produced(r) /\ ~Claims(r)
    <3>1. \A q \in Calls : q # r /\ Claimed(q)' =>
            Claimed(q) /\ call'[q].ch = call[q].ch /\ call'[q].won = call[q].won
      BY <2>1 DEF CallStep, Claimed
    <3>2. Claimed(r)' =>
            Claimed(r) /\ call'[r].ch = call[r].ch /\ call'[r].won = call[r].won
      <4>1. call'[r] = NoCall => ~Claimed(r)'
        BY DEF Claimed, NoCall
      <4>2. call[r] \in CallState
        BY <1>0 DEF TypeOK
      <4>3. At(r, "throttle") => ~Claimed(r)'
        BY <2>4, <2>5, <4>1
      <4> QED
        BY <2>1, <4>1, <4>2, <4>3 DEF CallStep, Moves, At, Claimed, CallState
    <3>3. now' = now /\ (\A c \in Challenges : Same(c)) /\ claimer' = claimer /\ freed \subseteq freed'
      BY <2>1, <2>4, <2>5 DEF CallStep, Clears
    <3>4. NothingClaimed
      BY <2>2, <2>3, <2>5, <3>1, <3>2, <3>3 DEF NothingClaimed
    <3> QED
      BY <2>4, <2>5, <3>3, <3>4, SpacedKept, SpacedClears
  <2>6. CASE Produced(r)
    BY <2>1, <2>6, SpacedProduced
  <2>7. CASE ~Produced(r) /\ Claims(r)
    BY <2>1, <2>2, <2>3, <2>7, SpacedClaims
  <2> QED
    BY <2>5, <2>6, <2>7
<1> QED
  BY <1>1, <1>2, <1>3, <1>4 DEF Next, Start
-----------------------------------------------------------------------------
(* Every variable has its type, and a call in progress is about a          *)
(* challenge that was issued to its caller.                                *)
THEOREM IngestTypeCorrect == Spec => []TypeOK
<1>1. Windows /\ [Next]_vars => Windows'
  BY StepWindows
<1>2. Windows => TypeOK
  BY DEF Windows
<1> QED
  BY InitWindows, <1>1, <1>2, PTL DEF Spec

(* A record is in the log within Life + MaxRequest of its token's issue,   *)
(* whatever the tokens sent again, the calls at once and the faults.       *)
THEOREM RecordsInWindow == Spec => []RecordInWindow
<1>1. Windows /\ [Next]_vars => Windows'
  BY StepWindows
<1>2. Windows => RecordInWindow
  BY DEF Windows
<1> QED
  BY InitWindows, <1>1, <1>2, PTL DEF Spec

(* The hard valve, for calls of any length: it opens early only after a    *)
(* failed call deleted a key that another call had set.                    *)
THEOREM IntervalIsKept == Spec => []IntervalKept
<1>1. Windows /\ Dated /\ Spaced /\ [Next]_vars => (Windows /\ Dated /\ Spaced)'
  BY StepWindows, StepDated, StepSpaced
<1>2. Spaced => IntervalKept
  BY DEF Spaced, Split, Apart, IntervalKept
<1> QED
  BY InitWindows, <1>1, <1>2, PTL DEF Spec

(* A user's events are in order on their partition but for those of calls  *)
(* as long as an interval, and for the keys deleted by failed calls.       *)
THEOREM PromptCallsInOrder == Spec => []PromptInOrder
<1>1. Windows /\ Dated /\ Spaced /\ [Next]_vars => (Windows /\ Dated /\ Spaced)'
  BY StepWindows, StepDated, StepSpaced
<1>2. Windows /\ Dated /\ Spaced => PromptInOrder
  <2> SUFFICES ASSUME Windows, Dated, Spaced, NEW o \in acked, NEW p \in acked,
                      o < p, SubOf(o) = SubOf(p),
                      clicks[p].at < clicks[p].ts + chal[clicks[o].ch].mi,
                      clicks[p].at < clicks[p].ts + chal[clicks[p].ch].mi
               PROVE  \/ clicks[o].ts <= clicks[p].ts
                      \/ FreedIn(freed, SubOf(o), clicks[o].won, clicks[p].won)
                      \/ FreedIn(freed, SubOf(o), clicks[p].won, clicks[o].won)
    BY DEF PromptInOrder
  <2>1. o \in DOMAIN clicks /\ p \in DOMAIN clicks /\ o \in Nat /\ p \in Nat
    BY DEF Windows, TypeOK
  <2>2. /\ clicks[o].ts \in Nat /\ clicks[o].won \in Nat /\ clicks[o].at \in Nat
        /\ clicks[p].ts \in Nat /\ clicks[p].won \in Nat /\ clicks[p].at \in Nat
    BY <2>1, RecordTypes DEF Windows
  <2>3. /\ chal[clicks[o].ch].mi \in Nat /\ chal[clicks[p].ch].mi \in Nat
        /\ clicks[o].ts <= clicks[o].won /\ clicks[p].ts <= clicks[p].won
    BY <2>1, RecordKept
  <2>4. /\ clicks[o].won <= clicks[o].at /\ clicks[p].won <= clicks[p].at
        /\ clicks[o].at <= clicks[p].at
    BY <2>1 DEF Dated
  <2>5. o # p
    BY <2>1
  <2>6. CASE clicks[o].won <= clicks[p].won
    <3>1. \/ clicks[o].won + chal[clicks[o].ch].mi <= clicks[p].won
          \/ FreedIn(freed, SubOf(o), clicks[o].won, clicks[p].won)
      BY <2>5, <2>6 DEF Spaced, Split, Apart, Until
    <3> QED
      BY <2>2, <2>3, <2>4, <3>1
  <2>7. CASE clicks[p].won <= clicks[o].won
    <3>1. \/ clicks[p].won + chal[clicks[p].ch].mi <= clicks[o].won
          \/ FreedIn(freed, SubOf(o), clicks[p].won, clicks[o].won)
      BY <2>5, <2>7 DEF Spaced, Split, Apart, Until
    <3> QED
      BY <2>2, <2>3, <2>4, <3>1
  <2> QED
    BY <2>2, <2>6, <2>7
<1> QED
  BY InitWindows, <1>1, <1>2, PTL DEF Spec
=============================================================================
