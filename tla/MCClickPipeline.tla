--------------------------- MODULE MCClickPipeline ---------------------------
(* The whole path, with one user, one call at a time, two workers.         *)
EXTENDS ClickPipeline, TLC

CONSTANTS u1, ch1, r1, w1, w2

MCUsers == {u1}
OneChallenge == {ch1}
OneCall == {r1}
MCWorkers == {w1, w2}
=============================================================================
