------------------------------ MODULE MCSelfChat ------------------------------
(* Two phone goroutines and a desktop over two conversations: a message can    *)
(* find none, one started meanwhile, or one deleted before it is recorded.     *)
EXTENDS SelfChat, TLC

CONSTANTS a, b, p1, p2, m1

Symmetric == Permutations(Conversation) \cup Permutations(Phone)
===============================================================================
