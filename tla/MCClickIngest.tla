---------------------------- MODULE MCClickIngest ----------------------------
(* ClickIngest with one user (throttle keys and logs of users are apart),    *)
(* two challenges and up to three calls at a time.  A call may last 3 ticks  *)
(* against an interval of 2: a produce takes up to its 10 s timeout while    *)
(* the interval is 2, 5 or 10 s.                                             *)
EXTENDS ClickIngest, TLC

CONSTANTS u1, ch1, ch2, r1, r2, r3

OneUser == {u1}
MCChallenges == {ch1, ch2}
TwoCalls == {r1, r2}
ThreeCalls == {r1, r2, r3}

Symmetry == Permutations(MCChallenges) \cup Permutations(TwoCalls)
=============================================================================
