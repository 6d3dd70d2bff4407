---------------------------- MODULE MCDifficulty ----------------------------
(* Difficulty with two controllers.                                         *)
EXTENDS Difficulty

CONSTANTS w1, w2

MCControllers == {w1, w2}
=============================================================================
