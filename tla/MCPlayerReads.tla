---------------------------- MODULE MCPlayerReads ----------------------------
(* PlayerReads around the week of Monday 2026-07-06 (day 20640).  MCHash     *)
(* holds the real FNV-1a hashes of the dates, so the quests are the code's:  *)
(* a batch of 500 and a place in the top 100 are among them on the Monday.   *)
EXTENDS PlayerReads, TLC

CONSTANTS w1, w2, bad

MCWorkers == {w1, w2}
Symmetry == Permutations(MCWorkers)
MCUsers == {1, 2}
Mon == 20640
MCDays == Mon - 1 .. Mon + 3
MCHash == (Mon - 7 :> 2) @@ (Mon - 1 :> 1) @@
          (Mon :> 4) @@ (Mon + 1 :> 5) @@ (Mon + 2 :> 0) @@ (Mon + 3 :> 1)

(* A click event at hour h and minute m of day d in HCMC.                    *)
E(ch, u, n, d, h, m) == [ch |-> ch, sub |-> u, count |-> n, ts |-> d * 1440 + h * 60 + m - 420]

MCLogs == {
  (* the same day, a smaller batch, and a repeat                             *)
  << E(1, 1, 600, Mon, 12, 0), E(2, 1, 69, Mon, 16, 20), E(1, 1, 600, Mon, 12, 0) >>,
  (* two days in a row, of two weeks, and a gap                              *)
  << E(1, 1, 10, Mon - 1, 23, 59), E(2, 1, 1, Mon, 0, 0), E(3, 1, 500, Mon + 2, 3, 0) >>,
  (* two users, and a value that does not unmarshal                          *)
  << E(1, 1, 60, Mon, 5, 0), E(2, 2, 70, Mon, 6, 0), E(bad, 1, 0, Mon, 6, 0) >>,
  (* out of order around midnight                                            *)
  << E(1, 1, 60, Mon + 1, 0, 0), E(2, 1, 100, Mon, 23, 59), E(bad, 1, 0, Mon, 9, 0) >>,
  (* the same user twice, half a week apart, to a total of 1111              *)
  << E(1, 1, 600, Mon, 9, 0), E(2, 1, 511, Mon + 3, 9, 0), E(bad, 1, 0, Mon, 9, 0) >>,
  (* one event under a pair of faults, or a call and a fault                 *)
  << E(1, 1, 600, Mon, 9, 0), E(bad, 1, 0, Mon, 9, 0) >> }
=============================================================================
