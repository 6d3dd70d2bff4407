-------------------------------- MODULE Tally --------------------------------
(***************************************************************************)
(* What the progress group promises of a player's counters (the comment at *)
(* progressworker.go:113-114 and :130-131): every distinct click event is  *)
(* counted at most once, and then in one step everywhere -- all-time       *)
(* board, board of its week, clicks and batches of its day, days of its    *)
(* week -- or nowhere.  ProgressGroup implements this specification.       *)
(***************************************************************************)
EXTENDS Engines, FiniteSetsExt

CONSTANTS Users, Days, Logs, Poison

VARIABLES
  clicks,    \* the log of click events [ch, sub, count, ts]
  applied,   \* the offsets of the events that are counted
  board,     \* board[u]: clicks of all time
  week,      \* week[u][w]: clicks of the week that opens on w
  daily,     \* daily[u][d]: [clicks, batches] of day d
  weekdays   \* weekdays[u][w]: days of that week on which u contributed

views == <<board, week, daily, weekdays>>
vars == <<clicks, applied, views>>

Weeks == {WeekStart(d) : d \in Days}

Init ==
  /\ clicks \in Logs
  /\ applied = {}
  /\ board = [u \in Users |-> 0]
  /\ week = [u \in Users |-> [w \in Weeks |-> 0]]
  /\ daily = [u \in Users |-> [d \in Days |-> [clicks |-> 0, batches |-> 0]]]
  /\ weekdays = [u \in Users |-> [w \in Weeks |-> {}]]

CountEvent(e) ==
  LET d == DateHCM(e.ts)
      w == WeekStart(d)
  IN  /\ board' = [board EXCEPT ![e.sub] = @ + e.count]
      /\ week' = [week EXCEPT ![e.sub][w] = @ + e.count]
      /\ daily' = [daily EXCEPT ![e.sub][d] =
                     [clicks |-> @.clicks + e.count, batches |-> @.batches + 1]]
      /\ weekdays' = [weekdays EXCEPT ![e.sub][w] = @ \cup {d}]

Count(o) ==
  /\ clicks[o].ch # Poison
  /\ \A p \in applied : clicks[p].ch # clicks[o].ch
  /\ applied' = applied \cup {o}
  /\ CountEvent(clicks[o])
  /\ UNCHANGED clicks

Next == \E o \in DOMAIN clicks : Count(o)

Spec == Init /\ [][Next]_vars
=============================================================================
