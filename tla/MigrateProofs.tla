---------------------------- MODULE MigrateProofs ----------------------------
(***************************************************************************)
(* TypeOK, DataKept and NoGap of Migrate, for any number of processes,     *)
(* migrations and runs.  An unforced Down reverses only the version it     *)
(* pinned, and pinned it only after the guard (PinnedSafe): what others do *)
(* to the database in between does not change the version in its hand.     *)
(* As long as no Up comes in between, nothing newer is applied either      *)
(* (PinnedLatest), so the reversal leaves no gap.                          *)
(***************************************************************************)
EXTENDS Migrate, TLAPS

(* The initial state is typed.                                             *)
LEMMA InitTyped == Init => TypeOK
<1> SUFFICES ASSUME Init PROVE TypeOK
  OBVIOUS
<1>1. Off \in [pc : {"off", "up", "upping", "check", "pinned", "force"}, version : Nat]
  BY DEF Off
<1>2. \A r \in Runners : runner[r].pc = "off" /\ lock # r
  BY MigrateConstants DEF Init, Off
<1>3. runs \in 0 .. MaxRuns
  BY MigrateConstants DEF Init
<1> QED
  BY <1>1, <1>2, <1>3 DEF Init, TypeOK, At

(* A process that ends leaves the lock to others.                          *)
LEMMA ExitTyped ==
  ASSUME TypeOK, NEW r \in Runners, Exit(r)
  PROVE  /\ lock' \in Runners \cup {None}
         /\ runner' \in [Runners ->
              [pc : {"off", "up", "upping", "check", "pinned", "force"}, version : Nat]]
         /\ \A q \in Runners : At(q, "upping")' <=> lock' = q
<1>1. Off \in [pc : {"off", "up", "upping", "check", "pinned", "force"}, version : Nat]
  BY DEF Off
<1>2. \A q \in Runners : runner'[q] = IF q = r THEN Off ELSE runner[q]
  BY DEF Exit, TypeOK
<1>3. \A q \in Runners : lock' = q <=> lock = q /\ q # r
  BY MigrateConstants DEF Exit, TypeOK
<1> QED
  BY <1>1, <1>2, <1>3 DEF Exit, TypeOK, At, Off

(* Every step keeps the types.                                             *)
LEMMA StepTyped == TypeOK /\ [Next]_vars => TypeOK'
<1> SUFFICES ASSUME TypeOK, [Next]_vars PROVE TypeOK'
  OBVIOUS
<1> USE DEF TypeOK, Versions
<1>1. CASE UNCHANGED vars
  BY <1>1 DEF vars, At
<1>2. ASSUME NEW r \in Runners, Step(r) PROVE TypeOK'
  <2>1. CASE Start(r)
    BY <2>1, MigrateConstants DEF Start, Goto, At
  <2>2. CASE Fail(r)
    BY <2>2, ExitTyped DEF Fail
  <2>3. CASE UpBegin(r)
    BY <2>3, MigrateConstants DEF UpBegin, Locked, Goto, At
  <2>4. CASE UpGap(r)
    BY <2>4, ExitTyped DEF UpGap
  <2>5. CASE UpApply(r)
    BY <2>5 DEF UpApply, At
  <2>6. CASE UpEnd(r)
    BY <2>6, ExitTyped DEF UpEnd
  <2>7. CASE DownCheck(r)
    <3>1. PICK v \in applied \cup {0} :
            runner' = [runner EXCEPT ![r] =
              IF v <= MinSafe THEN Off ELSE [pc |-> "pinned", version |-> v]]
      BY <2>7 DEF DownCheck
    <3>2. v \in Nat
      BY MigrateConstants
    <3> QED
      BY <2>7, <3>1, <3>2 DEF DownCheck, Off, At
  <2>8. CASE DownApply(r)
    BY <2>8 DEF DownApply, Off, At
  <2>9. CASE DownNotApplied(r)
    BY <2>9 DEF DownNotApplied, Off, At
  <2>10. CASE ForceDown(r)
    BY <2>10 DEF ForceDown, Off, At
  <2> QED
    BY <1>2, <2>1, <2>2, <2>3, <2>4, <2>5, <2>6, <2>7, <2>8, <2>9, <2>10 DEF Step
<1> QED
  BY <1>1, <1>2 DEF Next

(* Type correctness, for every value of the constants.                     *)
THEOREM MigrateTypeCorrect == Spec => []TypeOK
BY InitTyped, StepTyped, PTL DEF Spec

(* No step pins a version the guard refuses, and none reverses one.        *)
LEMMA StepKeeps ==
  TypeOK /\ PinnedSafe /\ DataKept /\ [Next]_vars => PinnedSafe' /\ DataKept'
<1> SUFFICES ASSUME TypeOK, PinnedSafe, DataKept, [Next]_vars
             PROVE  PinnedSafe' /\ DataKept'
  OBVIOUS
<1> USE DEF PinnedSafe, DataKept, At
<1>1. CASE UNCHANGED vars
  BY <1>1 DEF vars
<1>2. ASSUME NEW r \in Runners, Step(r) PROVE PinnedSafe' /\ DataKept'
  <2>1. CASE Start(r)
    BY <2>1 DEF Start, Goto, TypeOK
  <2>2. CASE Fail(r) \/ UpGap(r) \/ UpEnd(r)
    BY <2>2 DEF Fail, UpGap, UpEnd, Exit, Off, TypeOK
  <2>3. CASE UpBegin(r)
    BY <2>3 DEF UpBegin, Goto, TypeOK
  <2>4. CASE UpApply(r)
    BY <2>4 DEF UpApply
  <2>5. CASE DownCheck(r)
    <3>1. PICK v \in applied \cup {0} :
            runner' = [runner EXCEPT ![r] =
              IF v <= MinSafe THEN Off ELSE [pc |-> "pinned", version |-> v]]
      BY <2>5 DEF DownCheck
    <3>2. v \in Nat
      BY MigrateConstants DEF TypeOK, Versions
    <3> QED
      BY <2>5, <3>1, <3>2, MigrateConstants DEF DownCheck, Off, TypeOK
  <2>6. CASE DownApply(r)
    BY <2>6 DEF DownApply, Off, TypeOK
  <2>7. CASE DownNotApplied(r)
    BY <2>7 DEF DownNotApplied, Off, TypeOK
  <2>8. CASE ForceDown(r)
    BY <2>8 DEF ForceDown, Off, TypeOK
  <2> QED
    BY <1>2, <2>1, <2>2, <2>3, <2>4, <2>5, <2>6, <2>7, <2>8 DEF Step
<1> QED
  BY <1>1, <1>2 DEF Next

(* No unforced Down ever reverses a version up to MinSafe, whatever runs   *)
(* beside it.                                                              *)
THEOREM DataIsKept == Spec => []DataKept
<1>1. Init => PinnedSafe /\ DataKept
  BY DEF Init, PinnedSafe, DataKept, At, Off
<1>2. Spec => []TypeOK
  BY MigrateTypeCorrect
<1> QED
  BY <1>1, <1>2, StepKeeps, PTL DEF Spec

-----------------------------------------------------------------------------
(* Gaps.                                                                   *)

(* While no Up has come between the two calls of a Down, nobody works with *)
(* the lock beside a pinned version, and nothing newer is applied.         *)
PinnedLatest ==
  \A r \in Runners : At(r, "pinned") => lock = None /\ IsVersion(runner[r].version)

GapInv == crossed \/ (~Gap /\ PinnedLatest)

(* Taking the latest version away from a database without a gap leaves     *)
(* none.                                                                   *)
LEMMA LatestGoes ==
  ASSUME TypeOK, ~Gap, NEW v \in Nat, IsVersion(v), applied' = applied \ {v}
  PROVE  ~Gap'
<1> SUFFICES ASSUME NEW a \in applied', NEW u \in 1 .. a
             PROVE  u \in applied'
  BY DEF Gap
<1>1. a \in applied /\ a # v /\ a <= v /\ a \in Nat /\ u \in Nat
  BY MigrateConstants DEF IsVersion, TypeOK, Versions
<1>2. u \in applied /\ u # v
  BY <1>1 DEF Gap
<1> QED
  BY <1>2

(* A pinned version stays the latest while versions only go, others stay   *)
(* where they are, and the lock is not taken.                              *)
LEMMA PinnedStays ==
  ASSUME PinnedLatest, NEW r \in Runners, applied' \subseteq applied,
         lock' \in {lock, None},
         \A q \in Runners \ {r} : runner'[q] = runner[q],
         runner'[r].pc # "pinned"
  PROVE  PinnedLatest'
BY DEF PinnedLatest, IsVersion, At

(* No step leaves a gap that it should not.                                *)
LEMMA StepGap == TypeOK /\ GapInv /\ [Next]_vars => GapInv'
<1> SUFFICES ASSUME TypeOK, GapInv, [Next]_vars, ~crossed' PROVE ~Gap' /\ PinnedLatest'
  BY DEF GapInv
<1>1. CASE UNCHANGED vars
  BY <1>1 DEF vars, GapInv, Gap, PinnedLatest, IsVersion, At
<1>2. ASSUME NEW r \in Runners, Step(r) PROVE ~Gap' /\ PinnedLatest'
  <2>0. ~crossed /\ ~Gap /\ PinnedLatest
    <3>1. crossed => crossed'
      BY <1>2 DEF Step, Start, Fail, UpBegin, UpGap, UpApply, UpEnd, DownCheck, DownApply,
                  DownNotApplied, ForceDown
    <3> QED
      BY <3>1 DEF GapInv
  <2>1. CASE Start(r)
    <3>1. applied' = applied /\ lock' = lock
      BY <2>1 DEF Start
    <3>2. /\ \A q \in Runners \ {r} : runner'[q] = runner[q]
          /\ runner'[r].pc # "pinned"
      BY <2>1 DEF Start, Goto, TypeOK
    <3> QED
      BY <2>0, <3>1, <3>2, PinnedStays DEF Gap
  <2>2. CASE Fail(r) \/ UpGap(r) \/ UpEnd(r)
    <3>1. applied' = applied /\ lock' \in {lock, None}
      BY <2>2 DEF Fail, UpGap, UpEnd, Exit
    <3>2. /\ \A q \in Runners \ {r} : runner'[q] = runner[q]
          /\ runner'[r].pc # "pinned"
      BY <2>2 DEF Fail, UpGap, UpEnd, Exit, Off, TypeOK
    <3> QED
      BY <2>0, <3>1, <3>2, PinnedStays DEF Gap
  <2>3. CASE UpBegin(r)
    <3>1. applied' = applied /\ \A q \in Runners : ~At(q, "pinned")
      BY <2>3 DEF UpBegin
    <3>2. \A q \in Runners : ~At(q, "pinned")'
      BY <2>3, <3>1 DEF UpBegin, Goto, TypeOK, At
    <3> QED
      BY <2>0, <3>1, <3>2 DEF Gap, PinnedLatest
  <2>4. CASE UpApply(r)
    <3>1. PICK v \in Versions \ applied : /\ \A u \in Versions : u < v => u \in applied
                                         /\ applied' = applied \cup {v}
      BY <2>4 DEF UpApply
    <3>2. ~Gap'
      <4> SUFFICES ASSUME NEW a \in applied', NEW u \in 1 .. a
                   PROVE  u \in applied'
        BY DEF Gap
      <4>1. a \in Versions /\ u \in Versions /\ u <= a
        BY <3>1, MigrateConstants DEF TypeOK, Versions
      <4>2. CASE a = v
        <5>1. u < v \/ u = v
          BY <4>1, <4>2, MigrateConstants DEF Versions
        <5> QED
          BY <3>1, <4>1, <5>1
      <4>3. CASE a # v
        BY <2>0, <3>1, <4>3 DEF Gap
      <4> QED
        BY <4>2, <4>3
    <3>3. lock # None
      BY <2>4, MigrateConstants DEF UpApply, TypeOK
    <3>4. \A q \in Runners : ~At(q, "pinned")
      BY <2>0, <3>3 DEF PinnedLatest
    <3> QED
      BY <2>4, <3>2, <3>4 DEF UpApply, PinnedLatest, At
  <2>5. CASE DownCheck(r)
    <3>1. PICK v \in applied \cup {0} :
            /\ IsVersion(v)
            /\ runner' = [runner EXCEPT ![r] =
                 IF v <= MinSafe THEN Off ELSE [pc |-> "pinned", version |-> v]]
      BY <2>5 DEF DownCheck
    <3>2. applied' = applied /\ lock' = None /\ lock = None
      BY <2>5 DEF DownCheck
    <3>3. \A q \in Runners \ {r} : runner'[q] = runner[q]
      BY <3>1 DEF TypeOK
    <3>4. At(r, "pinned")' => runner'[r].version = v
      BY <3>1 DEF TypeOK, At, Off
    <3> QED
      BY <2>0, <3>1, <3>2, <3>3, <3>4 DEF Gap, PinnedLatest, IsVersion, At
  <2>6. CASE DownApply(r)
    <3>1. runner[r].version \in Nat /\ IsVersion(runner[r].version)
      BY <2>0, <2>6 DEF DownApply, PinnedLatest, TypeOK
    <3>2. applied' = applied \ {runner[r].version} /\ lock' = lock
      BY <2>6 DEF DownApply
    <3>3. /\ \A q \in Runners \ {r} : runner'[q] = runner[q]
          /\ runner'[r].pc # "pinned"
      BY <2>6 DEF DownApply, Off, TypeOK
    <3> QED
      BY <2>0, <3>1, <3>2, <3>3, LatestGoes, PinnedStays
  <2>7. CASE DownNotApplied(r)
    <3>1. applied' = applied /\ lock' = lock
      BY <2>7 DEF DownNotApplied
    <3>2. /\ \A q \in Runners \ {r} : runner'[q] = runner[q]
          /\ runner'[r].pc # "pinned"
      BY <2>7 DEF DownNotApplied, Off, TypeOK
    <3> QED
      BY <2>0, <3>1, <3>2, PinnedStays DEF Gap
  <2>8. CASE ForceDown(r)
    <3>1. PICK v \in applied : IsVersion(v) /\ applied' = applied \ {v}
      BY <2>8 DEF ForceDown
    <3>2. v \in Nat /\ lock' = lock
      BY <2>8, MigrateConstants DEF ForceDown, TypeOK, Versions
    <3>3. /\ \A q \in Runners \ {r} : runner'[q] = runner[q]
          /\ runner'[r].pc # "pinned"
      BY <2>8 DEF ForceDown, Off, TypeOK
    <3> QED
      BY <2>0, <3>1, <3>2, <3>3, LatestGoes, PinnedStays
  <2> QED
    BY <1>2, <2>1, <2>2, <2>3, <2>4, <2>5, <2>6, <2>7, <2>8 DEF Step
<1> QED
  BY <1>1, <1>2 DEF Next

(* migrate.go:81-82.  The applied versions have no gap, however many       *)
(* processes go up and down, unless an Up came between the two calls of an *)
(* unforced Down.                                                          *)
THEOREM NoGapArises == Spec => []NoGap
<1>1. Init => GapInv
  BY DEF Init, GapInv, Gap, PinnedLatest, At, Off
<1>2. GapInv => NoGap
  BY DEF GapInv, NoGap
<1>3. Spec => []TypeOK
  BY MigrateTypeCorrect
<1> QED
  BY <1>1, <1>2, <1>3, StepGap, PTL DEF Spec
=============================================================================
