---------------------------- MODULE MCOrderedQueue ----------------------------
(* Three callers, two keys: enough for a lane to be dropped and made again    *)
(* while a refused admission still holds the mutex of the old one.            *)
EXTENDS OrderedQueue, TLC

CONSTANTS c1, c2, c3, k1, k2, l1, l2, l3

MCCaller     == {c1, c2, c3}
MCPosition   == 0..2
Symmetric    == Permutations(MCCaller) \cup Permutations(LaneObject)
===============================================================================
