-------------------------- MODULE MCAttemptJournal --------------------------
(* The journal with two attempts for two episodes.  *)
EXTENDS AttemptJournal, TLC

CONSTANTS a1, a2, k1, k2, k3, i1, i2, o1

MCInterruptKey == (a1 :> i1) @@ (a2 :> i2)
MCSymmetry == Permutations(Free)
=============================================================================
