---------------------------- MODULE PositionOrder ----------------------------
(***************************************************************************)
(* What dokja_orch/internal/core/ordered_queue.go promises its callers,    *)
(* without lanes, locks or channels: an entry joins a lane at a position   *)
(* no entry of the lane lies beyond, runs once no earlier position of the  *)
(* lane is left, and leaves whenever its work has ended.                   *)
(***************************************************************************)
EXTENDS Naturals, FiniteSets

CONSTANTS
    Entry,       \* who may hold a place
    Key,         \* the lanes
    Position,    \* the places of a lane
    MaxEntries,  \* the bound of one lane
    None         \* the place of an entry that is in no lane

VARIABLES
    place,       \* place[e]: the lane and position e holds, or None
    running      \* the entries whose wait is over

Place == [key : Key, position : Position]

Init ==
    /\ place = [e \in Entry |-> None]
    /\ running = {}

\* The entries of lane k.
Held(k) == {e \in Entry : place[e] # None /\ place[e].key = k}

\* An entry joins a lane that has room, behind or beside every entry in it.
Join(e, k, p) ==
    /\ place[e] = None
    /\ Cardinality(Held(k)) < MaxEntries
    /\ \A f \in Held(k) : place[f].position <= p
    /\ place' = [place EXCEPT ![e] = [key |-> k, position |-> p]]
    /\ UNCHANGED running

\* An entry runs when every earlier position of its lane is free.
Run(e) ==
    /\ place[e] # None
    /\ e \notin running
    /\ \A f \in Held(place[e].key) : place[e].position <= place[f].position
    /\ running' = running \cup {e}
    /\ UNCHANGED place

\* An entry leaves, run or not.
Leave(e) ==
    /\ place[e] # None
    /\ place' = [place EXCEPT ![e] = None]
    /\ running' = running \ {e}

Next ==
    \E e \in Entry :
        \/ \E k \in Key, p \in Position : Join(e, k, p)
        \/ Run(e)
        \/ Leave(e)

vars == <<place, running>>

Spec == Init /\ [][Next]_vars
==============================================================================
