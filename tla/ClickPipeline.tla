---------------------------- MODULE ClickPipeline ----------------------------
(***************************************************************************)
(* The path of a click from SubmitClicks to counter:total: ClickIngest     *)
(* appends to the topic that CounterGroup consumes.  The clock and the log *)
(* are shared; each side sees of a challenge and of a record what it reads *)
(* of them.  Redis holds the throttle keys of one side and the seen keys   *)
(* and counters of the other.                                              *)
(***************************************************************************)
EXTENDS Naturals, Sequences, FiniteSets

CONSTANTS
  Users, NoUser, Challenges, Calls, MinIntervals, Life, MaxRequest,
  Poison, Workers, None, MaxLag, SeenTTL,
  IngestFaults, GroupFaults, MaxFaults, MaxRecords, MaxTime

(* The assumptions of the two sides; the dedup window covers the life of a *)
(* token, one request and the lag.                                         *)
ASSUME PathConstants ==
  /\ Life \in Nat /\ MaxRequest \in Nat /\ MaxLag \in Nat /\ SeenTTL \in Nat
  /\ Life + MaxRequest + MaxLag < SeenTTL
  /\ MinIntervals \subseteq Nat \ {0}
  /\ NoUser \notin Users /\ Poison \notin Challenges /\ None \notin Workers
  /\ IsFiniteSet(Challenges) /\ IsFiniteSet(Workers)

VARIABLES
  now, chal, throttle, call, clicks, acked, claimer, freed, ingestFaults,
  seen, credits, accepted, committed, owner, worker, handled, late, repeats,
  lost, groupFaults

ingestVars == <<now, chal, throttle, call, clicks, acked, claimer, freed, ingestFaults>>
groupVars == <<seen, credits, accepted, committed, owner, worker, handled, late,
               repeats, lost, groupFaults>>
vars == <<ingestVars, groupVars>>

Ingest == INSTANCE ClickIngest
  WITH FaultKinds <- IngestFaults, faults <- ingestFaults

(* A consumer reads the challenge id of a record; a challenge is appended  *)
(* no later than Life + MaxRequest after its issue.                        *)
Group == INSTANCE CounterGroup
  WITH Window <- Life + MaxRequest,
       iat <- [ch \in Challenges |-> chal[ch].iat],
       clicks <- [o \in DOMAIN clicks |-> [ch |-> clicks[o].ch, at |-> clicks[o].at]],
       FaultKinds <- GroupFaults, faults <- groupFaults

Init == Ingest!Init /\ Group!Init

Accept == Ingest!Next /\ UNCHANGED groupVars
Loop(w) == UNCHANGED ingestVars /\ Group!Consume(w)
Reassign(w) == UNCHANGED ingestVars /\ Group!Assign(w)
Recover(w) == UNCHANGED ingestVars /\ Group!Restart(w)
Trouble(w) == UNCHANGED ingestVars /\ Group!Misfortune(w)

Next ==
  \/ Accept
  \/ \E w \in Workers : Loop(w) \/ Reassign(w) \/ Recover(w) \/ Trouble(w)

Spec == Init /\ [][Next]_vars

(* The worker's loop runs, dead workers restart, free partitions are given *)
(* out; nothing is assumed of clients or of the API.                       *)
Fairness ==
  /\ \A w \in Workers : WF_vars(Loop(w)) /\ WF_vars(Recover(w))
  /\ WF_vars(\E w \in Workers : owner = None /\ Reassign(w))

LiveSpec == Spec /\ Fairness

-----------------------------------------------------------------------------
(* SubmitClicks and clicks.Submit keep what CounterGroup assumes of its    *)
(* environment -- above all that a challenge is appended in its window --, *)
(* so what is proved of the group holds of the whole path.                 *)
GroupSpec == Group!Spec

(* counterworker.go:4-5, "offsets are committed only after effects apply", *)
(* of the records the API really appends.                                  *)
CommittedHandled == Group!CommittedHandled

(* kafka.go:29-30, "a crash re-delivers": every record of the log is       *)
(* handled in the end, whoever dies or loses the partition in between, and *)
(* whatever the API appends meanwhile.                                     *)
EveryRecordHandled == Group!EveryRecordHandled

(* A batch that was acknowledged is in the counter in the end, unless a    *)
(* worker died or got a wrong answer between its SET NX and its INCRBY.    *)
AckedIsCounted ==
  \A ch \in Challenges :
    (\E o \in acked : clicks[o].ch = ch) ~> credits[ch] > 0 \/ ch \in lost
=============================================================================
