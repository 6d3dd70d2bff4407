--------------------------- MODULE MCCounterGroup ---------------------------
(* CounterGroup with small sets of challenges and workers.  In units of the *)
(* model's clock a challenge may be appended for Window = 1 after it was    *)
(* issued, a record may wait MaxLag = 1, and the seen key lives SeenTTL = 3.*)
EXTENDS CounterGroup, TLC

CONSTANTS ch1, ch2, w1, w2

MCChallenges == {ch1, ch2}
OneChallenge == {ch1}
MCWorkers == {w1, w2}

Symmetry == Permutations(MCChallenges) \cup Permutations(MCWorkers)
=============================================================================
