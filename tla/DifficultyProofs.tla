-------------------------- MODULE DifficultyProofs --------------------------
(***************************************************************************)
(* SlewWindow and type correctness of Difficulty, for any number of        *)
(* controllers, any ladder, any slew interval and any faults.              *)
(*                                                                         *)
(* The argument, for one window of time.  A controller moves at least      *)
(* SlewInterval after its lastChange, and its L had not risen too far at   *)
(* lastChange already; so the L above it has not now, which becomes its    *)
(* lastChange.  A controller that starts takes the L of the key, or MinL,  *)
(* which no controller was ever below, and its lastChange comes later.     *)
(* The key takes the L of a controller.  A window that begins now begins   *)
(* with what all of them hold.                                             *)
(***************************************************************************)
EXTENDS Difficulty, TLAPS

(* More levels take more time.                                             *)
LEMMA MoreLevels ==
  ASSUME NEW a \in Int, NEW b \in Int, a <= b
  PROVE  a * SlewInterval \in Int /\ b * SlewInterval \in Int
         /\ a * SlewInterval <= b * SlewInterval
<1>1. PICK d \in Nat : b = a + d
  <2>1. b - a \in Nat /\ b = a + (b - a)
    OBVIOUS
  <2> QED
    BY <2>1
<1> DEFINE x == a * SlewInterval
           y == d * SlewInterval
<1>2. b * SlewInterval = x + y
  BY <1>1, Ladder
<1>3. x \in Int /\ y \in Nat
  BY Ladder
<1> HIDE DEF x, y
<1>4. x + y \in Int /\ x <= x + y
  BY <1>3
<1> QED
  BY <1>2, <1>3, <1>4 DEF x

(* The levels held when a second was over.                                 *)
LEMMA HeldTypes ==
  ASSUME TypeOK
  PROVE  /\ DOMAIN held = 1 .. now /\ now \in Nat
         /\ \A i \in DOMAIN held : held[i] \subseteq Int /\ i \in Int /\ i <= now
<1>1. held \in Seq(SUBSET ({0} \cup Levels)) /\ Len(held) = now /\ now \in Nat
  BY DEF TypeOK
<1>2. DOMAIN held = 1 .. now
  BY <1>1
<1>3. \A i \in 1 .. now : held[i] \in SUBSET ({0} \cup Levels)
  BY <1>1, <1>2
<1>4. {0} \cup Levels \subseteq Int
  BY Ladder DEF Levels
<1> QED
  BY <1>1, <1>2, <1>3, <1>4

(* Less has risen less, and later.                                         *)
LEMMA RisenLess ==
  ASSUME TypeOK, NEW l \in Int, NEW m \in Int, m <= l,
         NEW s \in Int, NEW t \in Int, s <= t, Risen(l, s)
  PROVE  Risen(m, t)
<1> SUFFICES ASSUME NEW i \in DOMAIN held PROVE RisenSince(m, t, i)
  BY DEF Risen
<1>1. held[i] \subseteq Int /\ i \in Int
  BY HeldTypes
<1>2. PICK h \in held[i] : l <= h \/ (l - h - 1) * SlewInterval <= s - (i - 1)
  BY DEF Risen, RisenSince
<1>3. h \in Int
  BY <1>1
<1>4. CASE l <= h
  BY <1>3, <1>4 DEF RisenSince
<1>5. CASE (l - h - 1) * SlewInterval <= s - (i - 1)
  <2> DEFINE x == (m - h - 1) * SlewInterval
             y == (l - h - 1) * SlewInterval
  <2>1. m - h - 1 \in Int /\ l - h - 1 \in Int /\ m - h - 1 <= l - h - 1
    BY <1>3
  <2>2. x \in Int /\ y \in Int /\ x <= y
    BY <2>1, MoreLevels
  <2>3. y <= s - (i - 1)
    BY <1>5
  <2> HIDE DEF x, y
  <2>4. x <= t - (i - 1)
    BY <1>1, <2>2, <2>3
  <2> QED
    BY <2>4 DEF RisenSince, x
<1> QED
  BY <1>2, <1>4, <1>5

(* One level up has risen as little one slew interval later.               *)
LEMMA RisenUp ==
  ASSUME TypeOK, NEW l \in Int, NEW s \in Int, now - s >= SlewInterval, Risen(l, s)
  PROVE  Risen(l + 1, now)
<1>0. PICK k \in Int : k = l + 1
  OBVIOUS
<1> SUFFICES ASSUME NEW i \in DOMAIN held PROVE RisenSince(k, now, i)
  BY <1>0 DEF Risen
<1>1. held[i] \subseteq Int /\ i \in Int /\ i <= now /\ now \in Nat
  BY HeldTypes
<1>2. PICK h \in held[i] : l <= h \/ (l - h - 1) * SlewInterval <= s - (i - 1)
  BY DEF Risen, RisenSince
<1>3. h \in Int /\ SlewInterval \in Nat
  BY <1>1, Ladder
<1> DEFINE x == (k - h - 1) * SlewInterval
           y == (l - h - 1) * SlewInterval
<1>4. x = y + SlewInterval /\ y \in Int
  BY <1>0, <1>3
<1>5. CASE l <= h
  <2>1. x <= 0 * SlewInterval
    BY <1>0, <1>3, <1>5, MoreLevels
  <2>2. 0 * SlewInterval = 0
    BY <1>3
  <2> HIDE DEF x, y
  <2>3. x <= now - (i - 1)
    BY <1>1, <1>3, <1>4, <2>1, <2>2
  <2> QED
    BY <2>3 DEF RisenSince, x
<1>6. CASE y <= s - (i - 1)
  <2> HIDE DEF x, y
  <2>1. x <= now - (i - 1)
    BY <1>1, <1>3, <1>4, <1>6
  <2> QED
    BY <2>1 DEF RisenSince, x
<1> QED
  BY <1>2, <1>5, <1>6

(* When a second is over, what was held then has not risen since.          *)
LEMMA RisenTick ==
  ASSUME TypeOK, Tick, NEW l \in {powL} \cup {ctl[w].l : w \in Controllers},
         NEW s \in Int, NEW t \in Int, s <= t, Risen(l, s)
  PROVE  Risen(l, t)'
<1> DEFINE S == {powL} \cup {ctl[w].l : w \in Controllers}
<1>1. held' = Append(held, S) /\ held \in Seq(SUBSET ({0} \cup Levels)) /\ Len(held) = now
      /\ now \in Nat
  BY DEF Tick, TypeOK
<1>2. l \in {0} \cup Levels /\ S \in SUBSET ({0} \cup Levels)
  BY DEF TypeOK, Controller
<1>3. l \in Int
  BY <1>2, Ladder DEF Levels
<1> HIDE DEF S
<1>4. /\ DOMAIN held' = DOMAIN held \cup {now + 1}
      /\ \A i \in DOMAIN held : held'[i] = held[i]
      /\ held'[now + 1] = S
  BY <1>1, <1>2
<1>5. Risen(l, t)
  BY <1>3, RisenLess
<1>6. ASSUME NEW i \in DOMAIN held' PROVE RisenSince(l, t, i)'
  <2>1. CASE i = now + 1
    <3>1. l \in held'[i] /\ l <= l
      BY <1>3, <1>4, <2>1 DEF S
    <3> QED
      BY <3>1 DEF RisenSince
  <2>2. CASE i \in DOMAIN held
    BY <1>4, <1>5, <2>2 DEF Risen, RisenSince
  <2> QED
    BY <1>4, <2>1, <2>2
<1> QED
  BY <1>6 DEF Risen

(* What controllers, caches and challenges hold can be compared.           *)
LEMMA LevelsAreInt == {0} \cup Levels \subseteq Int
BY Ladder DEF Levels

(* The interval of a level is one of the intervals.                        *)
LEMMA IntervalType == ASSUME NEW l \in Levels PROVE MinInterval(l) \in Intervals
BY DEF Intervals

(* Zero, an empty cache, is neither a level nor an interval.               *)
LEMMA NotZero == 0 \notin Levels /\ 0 \notin Intervals /\ MinL \in Levels /\ Levels \subseteq Nat
BY Ladder DEF Levels, Intervals, MinInterval

(* NextL moves by one level and stays on the ladder.                       *)
LEMMA NextLStep ==
  ASSUME NEW l \in Levels, NEW rate
  PROVE  NextL(l, rate) \in Levels /\ NextL(l, rate) \in {l - 1, l, l + 1}
BY Ladder DEF NextL, Levels

(* A controller counts from a moment that is past.                         *)
LEMMA SincePast ==
  ASSUME now \in Nat, NEW c \in Controller
  PROVE  Since(c) \in Int /\ Since(c) <= now
<1>1. c.last \in {Unset} \cup (0..now)
  BY DEF Controller
<1> QED
  BY <1>1 DEF Since

-----------------------------------------------------------------------------
(* At the start no controller runs and no second is over.                  *)
LEMMA InitInv == Init => DInv
<1> SUFFICES ASSUME Init PROVE DInv
  OBVIOUS
<1>1. held = << >> /\ DOMAIN held = {}
  BY DEF Init
<1>2. TypeOK
  <2>1. held \in Seq(SUBSET ({0} \cup Levels)) /\ Len(held) = 0
    BY <1>1
  <2> QED
    BY <2>1, NotZero, IntervalType
       DEF Init, TypeOK, Controller, Off, Empty, Idle, NoGet, Unset
<1>3. ControllersRisen /\ SlewWindow
  BY <1>1 DEF ControllersRisen, SlewWindow, Risen
<1>4. RefreshLoaded
  BY DEF Init, RefreshLoaded, Empty, Idle
<1> QED
  BY <1>2, <1>3, <1>4 DEF DInv

(* The L of a controller is an integer no lower than MinL, and has not     *)
(* risen too far.                                                          *)
LEMMA ControllerL ==
  ASSUME DInv, NEW w \in Controllers
  PROVE  /\ ctl[w] \in Controller /\ ctl[w].l \in Levels /\ ctl[w].l \in Int
         /\ MinL \in Int /\ MinL <= ctl[w].l
         /\ now \in Nat /\ Since(ctl[w]) \in Int /\ Since(ctl[w]) <= now
         /\ Risen(ctl[w].l, Since(ctl[w])) /\ Risen(ctl[w].l, now) /\ Risen(MinL, now)
<1>1. TypeOK /\ now \in Nat /\ ctl[w] \in Controller /\ Risen(ctl[w].l, Since(ctl[w]))
  BY DEF DInv, TypeOK, ControllersRisen
<1>2. ctl[w].l \in Levels /\ ctl[w].l \in Int /\ MinL \in Int /\ MinL <= ctl[w].l
  BY <1>1, Ladder DEF Controller, Levels
<1>3. Since(ctl[w]) \in Int /\ Since(ctl[w]) <= now
  BY <1>1, SincePast, Zenon
<1>4. Risen(ctl[w].l, now) /\ Risen(MinL, now)
  BY <1>1, <1>2, <1>3, RisenLess
<1> QED
  BY <1>1, <1>2, <1>3, <1>4

(* The one shape of every step of a controller.                            *)
LEMMA ControllerStep ==
  ASSUME DInv, NEW w \in Controllers, NEW c \in Controller, Risen(c.l, Since(c)),
         ctl' = [ctl EXCEPT ![w] = c],
         powL' \in {powL, ctl[w].l}, powMi' \in {powMi, MinInterval(ctl[w].l)},
         torn' \in BOOLEAN, faults' \in Nat,
         UNCHANGED <<now, held, cache, refresh, get>>
  PROVE  DInv'
<1>1. (ctl \in [Controllers -> Controller])'
  BY DEF DInv, TypeOK, Controller
<1>2. ControllersRisen'
  <2>1. ASSUME NEW v \in Controllers PROVE Risen(ctl[v].l, Since(ctl[v]))'
    <3>1. ctl'[v] = IF v = w THEN c ELSE ctl[v]
      BY DEF DInv, TypeOK
    <3>2. Risen(ctl[v].l, Since(ctl[v]))
      BY DEF DInv, ControllersRisen
    <3>3. Risen(ctl'[v].l, Since(ctl'[v]))
      BY <3>1, <3>2
    <3> QED
      BY <3>3 DEF Since, Risen, RisenSince
  <2> QED
    BY <2>1 DEF ControllersRisen
<1>3. powL' \in {0} \cup Levels /\ SlewWindow'
  <2>1. ctl[w].l \in Levels /\ Risen(ctl[w].l, now) /\ Risen(powL, now)
    BY ControllerL DEF DInv, SlewWindow
  <2>2. Risen(powL', now)
    BY <2>1
  <2> QED
    BY <2>1, <2>2 DEF DInv, TypeOK, SlewWindow, Risen, RisenSince
<1>4. powMi' \in {0} \cup Intervals
  BY ControllerL, IntervalType DEF DInv, TypeOK
<1>5. TypeOK'
  BY <1>1, <1>3, <1>4 DEF DInv, TypeOK, Levels, Intervals
<1>6. RefreshLoaded'
  BY DEF DInv, RefreshLoaded
<1> QED
  BY <1>2, <1>3, <1>5, <1>6 DEF DInv

(* A second goes by.                                                       *)
LEMMA TickInv == ASSUME DInv, Tick PROVE DInv'
<1>1. /\ TypeOK /\ now \in Nat /\ now' = now + 1 /\ now' \in Int /\ now <= now'
      /\ ctl \in [Controllers -> Controller]
      /\ UNCHANGED <<powL, powMi, ctl, cache, refresh, get, torn, faults>>
  BY DEF DInv, TypeOK, Tick, keys, service
<1>2. TypeOK'
  <2>1. held' \in Seq(SUBSET ({0} \cup Levels)) /\ Len(held') = now'
    <3>1. {powL} \cup {ctl[w].l : w \in Controllers} \in SUBSET ({0} \cup Levels)
      BY <1>1 DEF TypeOK, Controller
    <3>2. held \in Seq(SUBSET ({0} \cup Levels)) /\ Len(held) = now
      BY <1>1 DEF TypeOK
    <3> QED
      BY <1>1, <3>1, <3>2 DEF Tick
  <2>2. (ctl \in [Controllers -> Controller])'
    BY <1>1 DEF Controller
  <2> QED
    BY <1>1, <2>1, <2>2 DEF TypeOK, Levels, Intervals
<1>3. ControllersRisen'
  <2>1. ASSUME NEW w \in Controllers PROVE Risen(ctl[w].l, Since(ctl[w]))'
    <3>1. /\ Since(ctl[w]) \in Int /\ Since(ctl[w]) <= now
          /\ Risen(ctl[w].l, Since(ctl[w]))
      BY ControllerL
    <3>2. PICK t \in Int : t = Since(ctl[w])' /\ Since(ctl[w]) <= t
      BY <1>1, <3>1 DEF Since
    <3>3. PICK l \in {powL} \cup {ctl[v].l : v \in Controllers} : l = ctl[w].l
      OBVIOUS
    <3>4. Risen(l, t)'
      BY <1>1, <3>1, <3>2, <3>3, RisenTick
    <3> QED
      BY <1>1, <3>2, <3>3, <3>4
  <2> QED
    BY <2>1 DEF ControllersRisen
<1>4. SlewWindow'
  <2>1. Risen(powL, now)
    BY DEF DInv, SlewWindow
  <2>2. PICK l \in {powL} \cup {ctl[v].l : v \in Controllers} : l = powL
    OBVIOUS
  <2>3. PICK t \in Int : t = now'
    BY <1>1
  <2>4. Risen(l, t)'
    BY <1>1, <2>1, <2>2, <2>3, RisenTick
  <2> QED
    BY <1>1, <2>2, <2>3, <2>4 DEF SlewWindow
<1>5. RefreshLoaded'
  BY <1>1 DEF DInv, RefreshLoaded
<1> QED
  BY <1>2, <1>3, <1>4, <1>5 DEF DInv

(* A key that is gone has not risen.                                       *)
LEMMA LossInv == ASSUME DInv, RedisLoss PROVE DInv'
<1>1. /\ powL' = 0 /\ powMi' = 0 /\ TypeOK
      /\ UNCHANGED <<now, held, ctl, cache, refresh, get>>
  BY DEF RedisLoss, service, DInv
<1>2. torn' \in BOOLEAN /\ faults' \in Nat
  <2>1. torn' \in BOOLEAN
    BY <1>1, Zenon DEF RedisLoss, TypeOK
  <2>2. faults' \in Nat
    BY <1>1 DEF RedisLoss, Fault, TypeOK
  <2> QED
    BY <2>1, <2>2
<1>3. TypeOK' /\ RefreshLoaded'
  BY <1>1, <1>2 DEF DInv, TypeOK, RefreshLoaded, Controller, Levels, Intervals
<1>4. ControllersRisen'
  BY <1>1 DEF DInv, ControllersRisen, Since, Risen, RisenSince
<1>5. SlewWindow'
  <2>1. powL \in Int /\ 0 <= powL /\ Risen(powL, now) /\ now \in Int
    BY <1>1, Ladder DEF DInv, TypeOK, Levels, SlewWindow
  <2>2. Risen(0, now)
    BY <1>1, <2>1, RisenLess
  <2> QED
    BY <1>1, <2>2 DEF SlewWindow, Risen, RisenSince
<1> QED
  BY <1>3, <1>4, <1>5 DEF DInv

-----------------------------------------------------------------------------
(* The controllers.                                                        *)

(* The steps of a controller keep the invariant.                           *)
LEMMA ControlInv ==
  ASSUME DInv, NEW w \in Controllers, Control(w) \/ Move(w) \/ Crash(w)
  PROVE  DInv'
<1> DEFINE c == ctl[w]
<1>1. /\ c \in Controller /\ Risen(c.l, Since(c)) /\ TypeOK
      /\ now \in Nat /\ faults \in Nat /\ torn \in BOOLEAN
  BY DEF DInv, TypeOK, ControllersRisen
<1>2. c.l \in Levels /\ c.pc \in {"down", "writeL", "writeMi", "run"}
      /\ c.last \in {Unset} \cup (0..now)
  BY <1>1 DEF Controller
<1>3. MinL \in Levels /\ Risen(MinL, now)
  BY NotZero, ControllerL
<1>4. powL \in Levels => Risen(powL, now)
  BY DEF DInv, SlewWindow
<1>5. \A k : Fault(k) => faults' \in Nat
  BY <1>1 DEF Fault
<1>6. CASE Start(w)
  <2> DEFINE l == IF powL \in Levels THEN powL ELSE MinL
             d == [pc |-> "writeL", l |-> l, last |-> Unset]
  <2>1. d \in Controller
    BY <1>3 DEF Controller
  <2>2. Risen(d.l, Since(d))
    BY <1>3, <1>4 DEF Since
  <2>3. ctl' = [ctl EXCEPT ![w] = d] /\ UNCHANGED <<now, keys, service, torn, held, faults>>
    BY <1>6, Zenon DEF Start
  <2> HIDE DEF d
  <2> QED
    BY <1>1, <2>1, <2>2, <2>3, ControllerStep DEF keys, service
<1>7. CASE StartBlind(w)
  <2> DEFINE d == [pc |-> "writeL", l |-> MinL, last |-> Unset]
  <2>1. d \in Controller
    BY <1>3 DEF Controller
  <2>2. Risen(d.l, Since(d))
    BY <1>3 DEF Since
  <2>3. ctl' = [ctl EXCEPT ![w] = d] /\ UNCHANGED <<now, keys, service, torn, held>>
        /\ faults' \in Nat
    BY <1>5, <1>7, Zenon DEF StartBlind
  <2> HIDE DEF d
  <2> QED
    BY <1>1, <2>1, <2>2, <2>3, ControllerStep DEF keys, service
<1>8. CASE WriteL(w) \/ WriteLError(w)
  <2> DEFINE d == [c EXCEPT !.pc = "writeMi"]
  <2>1. d \in Controller
    BY <1>1, <1>2 DEF Controller
  <2>2. Risen(d.l, Since(d))
    BY <1>1 DEF Since, Controller
  <2>3. /\ ctl' = [ctl EXCEPT ![w] = d] /\ powL' \in {powL, ctl[w].l}
        /\ UNCHANGED <<now, powMi, service, held>> /\ faults' \in Nat
    BY <1>1, <1>5, <1>8 DEF WriteL, WriteLError
  <2>4. torn' \in BOOLEAN
    BY <1>1, <1>8, Zenon DEF WriteL, WriteLError
  <2> HIDE DEF d
  <2> QED
    BY <2>1, <2>2, <2>3, <2>4, ControllerStep DEF service
<1>9. CASE WriteMi(w) \/ WriteMiError(w)
  <2> DEFINE d == Running(c)
  <2>1. d = [pc |-> "run", l |-> c.l, last |-> Since(c)]
    BY DEF Running, Since
  <2>2. Since(c) \in 0..now
    BY <1>1, <1>2 DEF Since
  <2> HIDE DEF c, d
  <2>3. d \in Controller
    <3>1. Since(c) # Unset
      BY <1>1, <2>2 DEF Unset
    <3> QED
      BY <1>2, <2>1, <2>2, <3>1 DEF Controller
  <2>4. Risen(d.l, Since(d))
    <3>1. d.l = c.l /\ d.last = Since(c) /\ d.last # Unset
      BY <1>1, <2>1, <2>2 DEF Unset
    <3> QED
      BY <1>1, <3>1 DEF Since
  <2> USE DEF c, d
  <2>5. /\ ctl' = [ctl EXCEPT ![w] = d] /\ powMi' \in {powMi, MinInterval(ctl[w].l)}
        /\ UNCHANGED <<now, powL, service, held>> /\ faults' \in Nat
    BY <1>1, <1>5, <1>9 DEF WriteMi, WriteMiError
  <2>6. torn' \in BOOLEAN
    BY <1>1, <1>9, Zenon DEF WriteMi, WriteMiError
  <2> HIDE DEF d
  <2> QED
    BY <2>3, <2>4, <2>5, <2>6, ControllerStep DEF service
<1>10. CASE Move(w)
  <2>1. PICK rate \in {"high", "low"} :
          ctl' = [ctl EXCEPT ![w] = [pc |-> "writeL", l |-> NextL(c.l, rate), last |-> now]]
    BY <1>10, Zenon DEF Move
  <2> DEFINE l == NextL(c.l, rate)
             d == [pc |-> "writeL", l |-> l, last |-> now]
  <2>2. l \in Levels /\ l \in {c.l - 1, c.l, c.l + 1}
    BY <1>2, NextLStep
  <2>3. d \in Controller
    <3>1. now # Unset /\ now \in 0..now
      BY <1>1 DEF Unset
    <3> HIDE DEF l
    <3> QED
      BY <2>2, <3>1 DEF Controller
  <2>4. c.last \in Int /\ now - c.last >= SlewInterval /\ c.last <= now
    BY <1>1, <1>2, <1>10 DEF Move, Controller, Unset
  <2>5. Risen(c.l, c.last)
    BY <1>1, <1>10 DEF Since, Controller, Move, At
  <2>6. Risen(l, now)
    <3>1. c.l \in Int /\ Since(c) = c.last /\ l \in Int /\ now \in Int
      BY <1>1, <1>2, <1>10, <2>2, LevelsAreInt DEF Since, Controller, Move, At
    <3>2. CASE l = c.l \/ l = c.l - 1
      <4>1. l <= c.l
        BY <3>1, <3>2
      <4> QED
        BY <1>1, <2>4, <2>5, <3>1, <4>1, RisenLess
    <3>3. CASE l = c.l + 1
      BY <1>1, <2>4, <2>5, <3>1, <3>3, RisenUp
    <3> QED
      BY <2>2, <3>2, <3>3
  <2>7. Risen(d.l, Since(d))
    BY <1>1, <2>6 DEF Since, Unset
  <2>8. ctl' = [ctl EXCEPT ![w] = d] /\ UNCHANGED <<now, keys, service, torn, held, faults>>
    BY <1>10, <2>1, Zenon DEF Move
  <2> HIDE DEF d
  <2> QED
    BY <1>1, <2>3, <2>7, <2>8, ControllerStep DEF keys, service
<1>11. CASE Crash(w)
  <2>1. Off \in Controller /\ Risen(Off.l, Since(Off))
    BY <1>3 DEF Off, Controller, Since
  <2> QED
    BY <1>1, <1>5, <1>11, <2>1, ControllerStep DEF Crash, keys, service
<1> QED
  BY <1>6, <1>7, <1>8, <1>9, <1>10, <1>11 DEF Control

-----------------------------------------------------------------------------
(* The service process.                                                    *)

(* So do those of the cache and of a Get.                                  *)
LEMMA ServiceInv ==
  ASSUME DInv, Refresh \/ Issue \/ ServiceRestart
  PROVE  DInv'
<1> USE DEF DInv, TypeOK, RefreshLoaded
<1>1. 0 \notin Levels /\ 0 \notin Intervals
  BY NotZero
<1>2. UNCHANGED <<now, powL, powMi, ctl, torn, held>> /\ faults' \in Nat
  BY DEF Refresh, RefreshL, RefreshMi, RefreshError, StoreL, StoreMi, StoreHave,
         Issue, LoadL, LoadMi, LoadHave, ServiceRestart, Fault, keys
<1>3. ASSUME TypeOK', RefreshLoaded' PROVE DInv'
  <2>1. ControllersRisen' /\ SlewWindow'
    BY <1>2 DEF ControllersRisen, SlewWindow, Since, Risen, RisenSince
  <2> QED
    BY <1>3, <2>1
<1>4. Controller' = Controller /\ Levels' = Levels /\ Intervals' = Intervals
  BY <1>2 DEF Controller, Levels, Intervals
<1>5. CASE RefreshL
  BY <1>1, <1>2, <1>3, <1>4, <1>5 DEF RefreshL
<1>6. CASE RefreshMi
  <2>1. CASE powMi = 0
    BY <1>1, <1>2, <1>3, <1>4, <1>6, <2>1 DEF RefreshMi, Idle
  <2>2. CASE powMi # 0
    <3>1. refresh' = [refresh EXCEPT !.pc = "storeL", !.mi = powMi]
      BY <1>6, <2>2 DEF RefreshMi
    <3>2. refresh' \in [pc : {"idle", "mi", "storeL", "storeMi", "storeHave"},
                        l : {0} \cup Levels, mi : {0} \cup Intervals]
      BY <3>1
    <3> QED
      BY <1>1, <1>2, <1>3, <1>4, <1>6, <2>2, <3>1, <3>2 DEF RefreshMi
  <2> QED
    BY <2>1, <2>2
<1>7. CASE RefreshError
  BY <1>1, <1>2, <1>3, <1>4, <1>7 DEF RefreshError, Idle
<1>8. CASE StoreL
  BY <1>1, <1>2, <1>3, <1>4, <1>8 DEF StoreL
<1>9. CASE StoreMi
  BY <1>1, <1>2, <1>3, <1>4, <1>9 DEF StoreMi
<1>10. CASE StoreHave
  BY <1>1, <1>2, <1>3, <1>4, <1>10 DEF StoreHave, Idle
<1>11. CASE LoadL
  BY <1>1, <1>2, <1>3, <1>4, <1>11 DEF LoadL
<1>12. CASE LoadMi
  <2>1. get' \in [pc : {"idle", "mi", "have"}, l : {0} \cup Levels,
                  mi : {0} \cup Intervals, ok : BOOLEAN]
        /\ get'.l = get.l
    BY <1>12 DEF LoadMi
  <2> QED
    BY <1>1, <1>2, <1>3, <1>4, <1>12, <2>1 DEF LoadMi
<1>13. CASE LoadHave
  BY <1>1, <1>2, <1>3, <1>4, <1>13 DEF LoadHave, NoGet
<1>14. CASE ServiceRestart
  BY <1>1, <1>2, <1>3, <1>4, <1>14 DEF ServiceRestart, Empty, Idle, NoGet
<1> QED
  BY <1>5, <1>6, <1>7, <1>8, <1>9, <1>10, <1>11, <1>12, <1>13, <1>14 DEF Refresh, Issue

(* And the steps that change nothing.                                      *)
LEMMA StutterInv == ASSUME DInv, UNCHANGED vars PROVE DInv'
BY DEF DInv, TypeOK, ControllersRisen, SlewWindow, RefreshLoaded, Controller,
       Since, Risen, RisenSince, vars, keys, service

-----------------------------------------------------------------------------
(* DInv holds in every reachable state (tick, writeDifficulty, refresh,    *)
(* issue).                                                                 *)
THEOREM DifficultyInductive == Spec => []DInv
<1>1. DInv /\ [Next]_vars => DInv'
  BY ControlInv, ServiceInv, TickInv, LossInv, StutterInv DEF Next, Steer
<1> QED
  BY InitInv, <1>1, PTL DEF Spec

(* No controller, key, cache or challenge ever leaves the ladder of NextL. *)
THEOREM DifficultyTypeCorrect == Spec => []TypeOK
<1>1. DInv => TypeOK
  BY DEF DInv
<1> QED
  BY DifficultyInductive, <1>1, PTL

(* However many workers steer, crash, fail to read or write, and whatever  *)
(* Redis loses: in every window of time the published level (tick,         *)
(* writeDifficulty) rises above all held at its beginning by one step and  *)
(* one per SlewInterval at most.                                           *)
THEOREM SlewHolds == Spec => []SlewWindow
<1>1. DInv => SlewWindow
  BY DEF DInv
<1> QED
  BY DifficultyInductive, <1>1, PTL
=============================================================================
