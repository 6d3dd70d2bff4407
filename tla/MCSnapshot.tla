----------------------------- MODULE MCSnapshot -----------------------------
(* Snapshot with one user, and with one worker or two.                      *)
EXTENDS Snapshot

CONSTANTS u1, w1, w2

MCUsers == {u1}
OneWorker == {w1}
TwoWorkers == {w1, w2}
=============================================================================
