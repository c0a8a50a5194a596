---------------------------- MODULE MCArchivedSends ----------------------------
(* Three requests for two send ids: a retry or a repeat can overlap the end of *)
(* the attempt before it while the other send waits behind both.               *)
EXTENDS ArchivedSends, TLC

CONSTANTS r1, r2, r3, s1, s2

MCRequest == {r1, r2, r3}
MCSend    == {s1, s2}
Symmetric == Permutations(MCRequest) \cup Permutations(MCSend)
================================================================================
