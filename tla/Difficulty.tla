----------------------------- MODULE Difficulty -----------------------------
(***************************************************************************)
(* The proof-of-work difficulty, from the controllers to a challenge: the  *)
(* steering half of tick and writeDifficulty (internal/counterworker) with *)
(* NextL and MinInterval (internal/pow), the Redis keys pow:L and          *)
(* pow:min_interval, the cache a service process refreshes from them every *)
(* second (internal/difficulty), and the reading of that cache in issue    *)
(* (internal/server).                                                      *)
(*                                                                         *)
(* Every worker runs a controller with its own l and lastChange.  Nothing  *)
(* keeps two of them apart: they share only the keys.  The accepted rate,  *)
(* an EWMA of stats:accepted_total, is above the band, below it or in it,  *)
(* as the environment likes.  A tick that changes nothing is left out, and *)
(* a refresh that fails leaves the cache as it was.                        *)
(***************************************************************************)
EXTENDS Integers, Sequences

CONSTANTS
  Controllers,   \* the workers
  MinL, MaxL,    \* the ladder of difficulties
  LowUpTo,       \* the L up to which MinInterval is the shortest
  MidUpTo,       \* the L up to which it is the middle one
  SlewInterval,
  FaultKinds,    \* the kinds of fault that happen in this instance
  MaxFaults,     \* bound: faults in a behaviour
  MaxTime        \* bound: the clock

ASSUME Ladder ==
  /\ MinL \in Nat \ {0} /\ MaxL \in Nat /\ LowUpTo \in Nat /\ MidUpTo \in Nat
  /\ MinL <= LowUpTo /\ LowUpTo < MidUpTo /\ MidUpTo <= MaxL
  /\ SlewInterval \in Nat \ {0}

VARIABLES
  now,      \* the clock
  powL,     \* the Redis key pow:L, 0 when there is none
  powMi,    \* the Redis key pow:min_interval, 0 when there is none
  ctl,      \* ctl[w]: the controller of a worker [pc, l, last]
  cache,    \* the atomics of the cache [l, mi, have]
  refresh,  \* the refresh in progress [pc, l, mi]
  get,      \* the Get in progress, or the last one and its result [pc, l, mi, ok]
  torn,     \* history: a write failed, two wrote at once, or a loss none mends
  held,     \* history: held[t]: the levels of controllers and key at the end of t - 1
  faults    \* faults so far

keys == <<powL, powMi>>
service == <<cache, refresh, get>>
vars == <<now, keys, ctl, service, torn, held, faults>>

Levels == MinL..MaxL
Unset == -1  \* lastChange before the first write is over
Off == [pc |-> "down", l |-> MinL, last |-> Unset]
Empty == [l |-> 0, mi |-> 0, have |-> FALSE]
Idle == [pc |-> "idle", l |-> 0, mi |-> 0]
NoGet == [pc |-> "idle", l |-> 0, mi |-> 0, ok |-> FALSE]

Fault(k) ==
  /\ k \in FaultKinds
  /\ faults < MaxFaults
  /\ faults' = faults + 1

At(w, pc) == ctl[w].pc = pc
Writing(w) == ctl[w].pc \in {"writeL", "writeMi"}

MinInterval(l) == IF l <= LowUpTo THEN 2 ELSE IF l <= MidUpTo THEN 5 ELSE 10

(* Wrong: no clamp at the lower end.                                       *)
NextL_Wrong(l, rate) ==
  IF rate = "high" /\ l < MaxL THEN l + 1
  ELSE IF rate = "low" THEN l - 1
  ELSE l

NextL(l, rate) ==
  IF rate = "high" /\ l < MaxL THEN l + 1
  ELSE IF rate = "low" /\ l > MinL THEN l - 1
  ELSE l

(* The keys are missing, or were left by workers of another day.           *)
Init ==
  /\ now = 0
  /\ powL \in {0} \cup Levels
  /\ powMi = IF powL = 0 THEN 0 ELSE MinInterval(powL)
  /\ ctl = [w \in Controllers |-> Off]
  /\ cache = Empty /\ refresh = Idle /\ get = NoGet
  /\ torn = FALSE /\ held = << >> /\ faults = 0

-----------------------------------------------------------------------------
(* The controllers.                                                        *)

(* Wrong: nothing is written when there is a level to go on from.          *)
Start_Wrong(w) ==
  /\ At(w, "down")
  /\ ctl' = [ctl EXCEPT ![w] =
       IF powL \in Levels THEN [pc |-> "run", l |-> powL, last |-> now]
       ELSE [pc |-> "writeL", l |-> MinL, last |-> Unset]]
  /\ UNCHANGED <<now, keys, service, torn, held, faults>>

(* currentL: go on from the key when it holds a level, else from MinL.     *)
Start(w) ==
  /\ At(w, "down")
  /\ ctl' = [ctl EXCEPT ![w] =
       [pc |-> "writeL", l |-> IF powL \in Levels THEN powL ELSE MinL, last |-> Unset]]
  /\ UNCHANGED <<now, keys, service, torn, held, faults>>

(* The key cannot be read: the controller starts from MinL.                *)
StartBlind(w) ==
  /\ At(w, "down") /\ Fault("redis")
  /\ ctl' = [ctl EXCEPT ![w] = [pc |-> "writeL", l |-> MinL, last |-> Unset]]
  /\ UNCHANGED <<now, keys, service, torn, held>>

Overlap(w) == \E v \in Controllers \ {w} : Writing(v)

WriteL(w) ==
  /\ At(w, "writeL")
  /\ powL' = ctl[w].l
  /\ ctl' = [ctl EXCEPT ![w].pc = "writeMi"]
  /\ torn' = (torn \/ Overlap(w))
  /\ UNCHANGED <<now, powMi, service, held, faults>>

(* A write error is logged and the next write tried all the same.          *)
WriteLError(w) ==
  /\ At(w, "writeL") /\ Fault("redis")
  /\ powL' \in {powL, ctl[w].l}
  /\ ctl' = [ctl EXCEPT ![w].pc = "writeMi"]
  /\ torn' = TRUE
  /\ UNCHANGED <<now, powMi, service, held>>

(* Wrong: the first slew window is open from the start.                    *)
Running_Wrong(c) == [c EXCEPT !.pc = "run"]

(* lastChange starts to run when the first write is over.                  *)
Running(c) ==
  [pc |-> "run", l |-> c.l, last |-> IF c.last = Unset THEN now ELSE c.last]

WriteMi(w) ==
  /\ At(w, "writeMi")
  /\ powMi' = MinInterval(ctl[w].l)
  /\ ctl' = [ctl EXCEPT ![w] = Running(ctl[w])]
  /\ UNCHANGED <<now, powL, service, torn, held, faults>>

WriteMiError(w) ==
  /\ At(w, "writeMi") /\ Fault("redis")
  /\ powMi' \in {powMi, MinInterval(ctl[w].l)}
  /\ ctl' = [ctl EXCEPT ![w] = Running(ctl[w])]
  /\ torn' = TRUE
  /\ UNCHANGED <<now, powL, service, held>>

(* A tick whose rate is outside the band, one slew interval or more after  *)
(* the last change.                                                        *)
Move(w) ==
  /\ At(w, "run") /\ now - ctl[w].last >= SlewInterval
  /\ \E rate \in {"high", "low"} :
       LET next == NextL(ctl[w].l, rate) IN
         /\ next # ctl[w].l
         /\ ctl' = [ctl EXCEPT ![w] = [pc |-> "writeL", l |-> next, last |-> now]]
  /\ UNCHANGED <<now, keys, service, torn, held, faults>>

Crash(w) ==
  /\ ~At(w, "down") /\ Fault("crash")
  /\ ctl' = [ctl EXCEPT ![w] = Off]
  /\ UNCHANGED <<now, keys, service, torn, held>>

-----------------------------------------------------------------------------
(* The cache of a service process: refresh reads both keys, one call each, *)
(* and then stores both values and have.                                   *)

RefreshL ==
  /\ refresh.pc = "idle" /\ powL # 0
  /\ refresh' = [pc |-> "mi", l |-> powL, mi |-> 0]
  /\ UNCHANGED <<now, keys, ctl, cache, get, torn, held, faults>>

(* A key that is missing or cannot be read ends the refresh.               *)
RefreshMi ==
  /\ refresh.pc = "mi"
  /\ refresh' = IF powMi = 0 THEN Idle ELSE [refresh EXCEPT !.pc = "storeL", !.mi = powMi]
  /\ UNCHANGED <<now, keys, ctl, cache, get, torn, held, faults>>

RefreshError ==
  /\ refresh.pc = "mi" /\ Fault("redis")
  /\ refresh' = Idle
  /\ UNCHANGED <<now, keys, ctl, cache, get, torn, held>>

StoreL ==
  /\ refresh.pc = "storeL"
  /\ cache' = [cache EXCEPT !.l = refresh.l]
  /\ refresh' = [refresh EXCEPT !.pc = "storeMi"]
  /\ UNCHANGED <<now, keys, ctl, get, torn, held, faults>>

(* Wrong: the interval is stored only once.                                *)
StoreMi_Wrong ==
  /\ refresh.pc = "storeMi"
  /\ cache' = IF cache.have THEN cache ELSE [cache EXCEPT !.mi = refresh.mi]
  /\ refresh' = [refresh EXCEPT !.pc = "storeHave"]
  /\ UNCHANGED <<now, keys, ctl, get, torn, held, faults>>

StoreMi ==
  /\ refresh.pc = "storeMi"
  /\ cache' = [cache EXCEPT !.mi = refresh.mi]
  /\ refresh' = [refresh EXCEPT !.pc = "storeHave"]
  /\ UNCHANGED <<now, keys, ctl, get, torn, held, faults>>

StoreHave ==
  /\ refresh.pc = "storeHave"
  /\ cache' = [cache EXCEPT !.have = TRUE]
  /\ refresh' = Idle
  /\ UNCHANGED <<now, keys, ctl, get, torn, held, faults>>

-----------------------------------------------------------------------------
(* A challenge is issued: Get loads l, minInterval and have, in this order.*)

LoadL ==
  /\ get.pc = "idle"
  /\ get' = [pc |-> "mi", l |-> cache.l, mi |-> 0, ok |-> FALSE]
  /\ UNCHANGED <<now, keys, ctl, cache, refresh, torn, held, faults>>

LoadMi ==
  /\ get.pc = "mi"
  /\ get' = [get EXCEPT !.pc = "have", !.mi = cache.mi]
  /\ UNCHANGED <<now, keys, ctl, cache, refresh, torn, held, faults>>

(* No value yet: Unavailable.                                              *)
LoadHave ==
  /\ get.pc = "have"
  /\ get' = IF cache.have THEN [get EXCEPT !.pc = "idle", !.ok = TRUE] ELSE NoGet
  /\ UNCHANGED <<now, keys, ctl, cache, refresh, torn, held, faults>>

(* The service process dies and starts again with an empty cache.          *)
ServiceRestart ==
  /\ Fault("crash")
  /\ cache' = Empty /\ refresh' = Idle /\ get' = NoGet
  /\ UNCHANGED <<now, keys, ctl, torn, held>>

-----------------------------------------------------------------------------
(* Redis comes back without its keys.  Only a controller that has yet to    *)
(* write both of them, or to start, puts them back before its next move.   *)
RedisLoss ==
  /\ Fault("loss")
  /\ powL' = 0 /\ powMi' = 0
  /\ torn' = (torn \/ \A w \in Controllers : At(w, "run") \/ At(w, "writeMi"))
  /\ UNCHANGED <<now, ctl, service, held>>

Tick ==
  /\ now < MaxTime
  /\ now' = now + 1
  /\ held' = Append(held, {powL} \cup {ctl[w].l : w \in Controllers})
  /\ UNCHANGED <<keys, ctl, service, torn, faults>>

Control(w) ==
  \/ Start(w) \/ StartBlind(w)
  \/ WriteL(w) \/ WriteLError(w) \/ WriteMi(w) \/ WriteMiError(w)

Refresh == RefreshL \/ RefreshMi \/ RefreshError \/ StoreL \/ StoreMi \/ StoreHave
Issue == LoadL \/ LoadMi \/ LoadHave

Steer ==
  \/ Tick \/ RedisLoss
  \/ \E w \in Controllers : Control(w) \/ Move(w) \/ Crash(w)

Next == Steer \/ Refresh \/ Issue \/ ServiceRestart

Spec == Init /\ [][Next]_vars

(* Workers are running or are started again, and finish what they write;   *)
(* the cache's ticker fires for ever.                                      *)
Fairness == WF_vars(Refresh) /\ \A w \in Controllers : WF_vars(Control(w))
LiveSpec == Spec /\ Fairness

-----------------------------------------------------------------------------
Intervals == {MinInterval(l) : l \in Levels}

Controller ==
  {c \in [pc : {"down", "writeL", "writeMi", "run"}, l : Levels,
          last : {Unset} \cup (0..now)] : c.pc = "run" => c.last # Unset}

(* Types; in particular no controller, key or refresh leaves the ladder.   *)
TypeOK ==
  /\ now \in Nat
  /\ powL \in {0} \cup Levels /\ powMi \in {0} \cup Intervals
  /\ ctl \in [Controllers -> Controller]
  /\ cache \in [l : {0} \cup Levels, mi : {0} \cup Intervals, have : BOOLEAN]
  /\ cache.have => cache.l # 0 /\ cache.mi # 0
  /\ refresh \in [pc : {"idle", "mi", "storeL", "storeMi", "storeHave"},
                  l : {0} \cup Levels, mi : {0} \cup Intervals]
  /\ get \in [pc : {"idle", "mi", "have"}, l : {0} \cup Levels,
              mi : {0} \cup Intervals, ok : BOOLEAN]
  /\ torn \in BOOLEAN /\ faults \in Nat
  /\ held \in Seq(SUBSET ({0} \cup Levels)) /\ Len(held) = now

(* At time t, l lies no higher above a level that a controller or the key  *)
(* had when second i - 1 was over than one step and one more per slew      *)
(* interval since; a controller that is down counts with MinL.             *)
RisenSince(l, t, i) ==
  \E h \in held[i] : l <= h \/ (l - h - 1) * SlewInterval <= t - (i - 1)
Risen(l, t) == \A i \in DOMAIN held : RisenSince(l, t, i)

(* controller.go:20, "SlewInterval limits difficulty movement to one step  *)
(* per 30s", and difficulty.go:2, "moves them at most once per 30s": two   *)
(* controllers that write their levels over each other move the published  *)
(* level by several steps at once, downwards and upwards.  What holds with *)
(* any number of them is that in every window of time it rises above the   *)
(* highest level held at its beginning, by the key or by a controller, by  *)
(* one step and one per slew interval at most.                             *)
SlewWindow == Risen(powL, now)

(* Inductive: what a controller steers by has not risen faster, up to its  *)
(* lastChange, from which it counts the next slew interval.                *)
Since(c) == IF c.last = Unset THEN now ELSE c.last
ControllersRisen ==
  \A w \in Controllers : Risen(ctl[w].l, Since(ctl[w]))
RefreshLoaded ==
  /\ refresh.pc # "idle" => refresh.l # 0
  /\ refresh.pc \in {"storeL", "storeMi", "storeHave"} => refresh.mi # 0
  /\ refresh.pc \in {"storeMi", "storeHave"} => cache.l # 0
  /\ refresh.pc = "storeHave" => cache.mi # 0
DInv == TypeOK /\ ControllersRisen /\ SlewWindow /\ RefreshLoaded

(* Once nothing moves, the two keys belong to the same level, though each  *)
(* is written by a call of its own and a worker may die between them: the  *)
(* next start writes both.  Failed writes, two controllers that write at   *)
(* the same time, and a loss of Redis while every controller runs are the  *)
(* exceptions.                                                             *)
PairSettles == <>[](torn \/ (powL # 0 /\ powMi = MinInterval(powL)))

(* A service process that was late, had errors or was started again shows  *)
(* its callers the keys in the end.                                        *)
CacheCatchesUp ==
  <>[](powL # 0 /\ powMi # 0 => cache.have /\ cache.l = powL /\ cache.mi = powMi)
=============================================================================
