----------------------------- MODULE OrderedQueue -----------------------------
(***************************************************************************)
(* OrderedQueue of dokja_orch/internal/core/ordered_queue.go: lanes made   *)
(* on demand and dropped with their last user, admissions serialized by    *)
(* the lane's own mutex, and tickets that wait for every earlier position. *)
(*                                                                         *)
(* A caller is one goroutine that admits, waits and releases, again and    *)
(* again.  Each critical section of q.mu is one action, and so is each     *)
(* acquisition and release of lane.admit; what a caller does between two   *)
(* of them is not atomic with either.  The callback record and its store   *)
(* are the caller's own; here it answers anything its contract allows.     *)
(***************************************************************************)
EXTENDS Naturals, FiniteSets

CONSTANTS
    Caller,      \* the goroutines that use the queue
    Key,         \* the lane keys (conversation ids)
    LaneObject,  \* the queueLane objects memory may hold at once
    Position,    \* the positions record may answer
    MaxEntries,  \* q.maxEntries
    None         \* a nil pointer

ASSUME CallerAssumption     == IsFiniteSet(Caller)
ASSUME PositionAssumption   == Position \subseteq Nat /\ 0 \in Position
ASSUME MaxEntriesAssumption == MaxEntries \in Nat \ {0}
ASSUME NoneAssumption       == None \notin Caller \cup LaneObject \cup [key : Key, position : Position]

VARIABLES
    lanes,     \* q.lanes: the lane object of each key, or None
    admit,     \* lane.admit: the caller that holds the mutex, or None
    entries,   \* lane.entries: the callers whose tickets are enrolled
    users,     \* lane.users
    pc,        \* where each caller is
    key,       \* the key each caller uses
    lane,      \* the lane object each caller's use is counted in, or None
    full,      \* what Admit told record
    position,  \* the position of each caller's ticket
    ahead      \* the done channels, still open, that Wait snapshot

vars == <<lanes, admit, entries, users, pc, key, lane, full, position, ahead>>

\* A caller's ticket is enrolled in its lane.
InLane == {"enrolled", "admitted", "waiting", "running", "stopped"}
\* A caller is counted in its lane's users.
Using  == InLane \cup {"joined", "locked", "recording", "enrolling", "refusing", "released"}
\* A caller holds its lane's admit mutex.
Admitting == {"locked", "recording", "enrolling", "refusing", "left", "enrolled"}

Init ==
    /\ lanes    = [k \in Key |-> None]
    /\ admit    = [l \in LaneObject |-> None]
    /\ entries  = [l \in LaneObject |-> {}]
    /\ users    = [l \in LaneObject |-> 0]
    /\ pc       = [c \in Caller |-> "idle"]
    /\ key      \in [Caller -> Key]
    /\ lane     = [c \in Caller |-> None]
    /\ full     = [c \in Caller |-> FALSE]
    /\ position = [c \in Caller |-> 0]
    /\ ahead    = [c \in Caller |-> {}]
-------------------------------------------------------------------------------
\* No pointer reaches the object, so a new lane may take its place in memory.
Unreferenced(l) == l \notin {lanes[k] : k \in Key} \cup {lane[c] : c \in Caller}

\* Altered: only the caller that makes the lane is counted.
JoinUncounted(c, k) ==
    /\ pc[c] = "idle"
    /\ \E l \in LaneObject :
          /\ IF lanes[k] = None
             THEN /\ Unreferenced(l)
                  /\ lanes'   = [lanes EXCEPT ![k] = l]
                  /\ admit'   = [admit EXCEPT ![l] = None]
                  /\ entries' = [entries EXCEPT ![l] = {}]
                  /\ users'   = [users EXCEPT ![l] = 1]
             ELSE /\ l = lanes[k]
                  /\ UNCHANGED <<lanes, admit, entries, users>>
          /\ lane' = [lane EXCEPT ![c] = l]
    /\ key' = [key EXCEPT ![c] = k]
    /\ pc'  = [pc EXCEPT ![c] = "joined"]
    /\ UNCHANGED <<full, position, ahead>>

\* Under q.mu: find the key's lane or make one, and count one more user.
Join(c, k) ==
    /\ pc[c] = "idle"
    /\ \E l \in LaneObject :
          /\ IF lanes[k] = None
             THEN /\ Unreferenced(l)
                  /\ lanes'   = [lanes EXCEPT ![k] = l]
                  /\ admit'   = [admit EXCEPT ![l] = None]
                  /\ entries' = [entries EXCEPT ![l] = {}]
                  /\ users'   = [users EXCEPT ![l] = 1]
             ELSE /\ l = lanes[k]
                  /\ users' = [users EXCEPT ![l] = @ + 1]
                  /\ UNCHANGED <<lanes, admit, entries>>
          /\ lane' = [lane EXCEPT ![c] = l]
    /\ key' = [key EXCEPT ![c] = k]
    /\ pc'  = [pc EXCEPT ![c] = "joined"]
    /\ UNCHANGED <<full, position, ahead>>

\* Altered: admissions are not serialized.
LockUnguarded(c) ==
    /\ pc[c] = "joined"
    /\ admit' = [admit EXCEPT ![lane[c]] = c]
    /\ pc'    = [pc EXCEPT ![c] = "locked"]
    /\ UNCHANGED <<lanes, entries, users, key, lane, full, position, ahead>>

\* lane.admit.Lock()
Lock(c) ==
    /\ pc[c] = "joined"
    /\ admit[lane[c]] = None
    /\ admit' = [admit EXCEPT ![lane[c]] = c]
    /\ pc'    = [pc EXCEPT ![c] = "locked"]
    /\ UNCHANGED <<lanes, entries, users, key, lane, full, position, ahead>>

\* Altered: one entry more than the bound is let in.
ReadFullOneMore(c) ==
    /\ pc[c] = "locked"
    /\ full' = [full EXCEPT ![c] = Cardinality(entries[lane[c]]) > MaxEntries]
    /\ pc'   = [pc EXCEPT ![c] = "recording"]
    /\ UNCHANGED <<lanes, admit, entries, users, key, lane, position, ahead>>

\* Under q.mu: read whether the lane is full, before record runs.
ReadFull(c) ==
    /\ pc[c] = "locked"
    /\ full' = [full EXCEPT ![c] = Cardinality(entries[lane[c]]) >= MaxEntries]
    /\ pc'   = [pc EXCEPT ![c] = "recording"]
    /\ UNCHANGED <<lanes, admit, entries, users, key, lane, position, ahead>>

\* Altered: a full lane enrolls what record answers.
RecordEnrollsAlways(c, p) ==
    /\ pc[c] = "recording"
    /\ \A d \in entries[lane[c]] : position[d] <= p
    /\ position' = [position EXCEPT ![c] = p]
    /\ pc' = [pc EXCEPT ![c] = "enrolling"]
    /\ UNCHANGED <<lanes, admit, entries, users, key, lane, full, ahead>>

\* record answers a position to enroll, never before an entry already in the
\* lane (its contract); a lane that was full enrolls nothing all the same.
RecordEnrolls(c, p) ==
    /\ pc[c] = "recording"
    /\ \A d \in entries[lane[c]] : position[d] <= p
    /\ position' = [position EXCEPT ![c] = p]
    /\ pc' = [pc EXCEPT ![c] = IF full[c] THEN "refusing" ELSE "enrolling"]
    /\ UNCHANGED <<lanes, admit, entries, users, key, lane, full, ahead>>

\* record answers an error, or nothing to run.
RecordRefuses(c) ==
    /\ pc[c] = "recording"
    /\ pc' = [pc EXCEPT ![c] = "refusing"]
    /\ UNCHANGED <<lanes, admit, entries, users, key, lane, full, position, ahead>>

\* Under q.mu: the ticket joins the entries, and takes over the admission's use.
Enroll(c) ==
    /\ pc[c] = "enrolling"
    /\ entries' = [entries EXCEPT ![lane[c]] = @ \cup {c}]
    /\ pc'      = [pc EXCEPT ![c] = "enrolled"]
    /\ UNCHANGED <<lanes, admit, users, key, lane, full, position, ahead>>

\* Altered: the lane is dropped with the first user that leaves.
LeaveLaneDropped(k, l) ==
    /\ users' = [users EXCEPT ![l] = @ - 1]
    /\ lanes' = [lanes EXCEPT ![k] = None]

\* Altered: the lane stays in the map after its last user.
LeaveLaneKept(k, l) ==
    /\ users' = [users EXCEPT ![l] = @ - 1]
    /\ lanes' = lanes

\* Under q.mu: one user fewer, and the lane is dropped with the last one.
LeaveLane(k, l) ==
    /\ users' = [users EXCEPT ![l] = @ - 1]
    /\ lanes' = IF users[l] = 1 THEN [lanes EXCEPT ![k] = None] ELSE lanes

\* A refused admission leaves before its deferred unlock.
Refuse(c) ==
    /\ pc[c] = "refusing"
    /\ LeaveLane(key[c], lane[c])
    /\ pc' = [pc EXCEPT ![c] = "left"]
    /\ UNCHANGED <<admit, entries, key, lane, full, position, ahead>>

\* Altered: a refused admission returns without the unlock.
UnlockEnrolledOnly(c) ==
    /\ pc[c] \in {"left", "enrolled"}
    /\ full'  = [full EXCEPT ![c] = FALSE]
    /\ IF pc[c] = "enrolled"
       THEN /\ admit' = [admit EXCEPT ![lane[c]] = None]
            /\ pc' = [pc EXCEPT ![c] = "admitted"]
            /\ UNCHANGED <<lane, position>>
       ELSE /\ pc' = [pc EXCEPT ![c] = "idle"]
            /\ lane' = [lane EXCEPT ![c] = None]
            /\ position' = [position EXCEPT ![c] = 0]
            /\ UNCHANGED admit
    /\ UNCHANGED <<lanes, entries, users, key, ahead>>

\* The deferred lane.admit.Unlock(), after which Admit returns.
Unlock(c) ==
    /\ pc[c] \in {"left", "enrolled"}
    /\ admit' = [admit EXCEPT ![lane[c]] = None]
    /\ full'  = [full EXCEPT ![c] = FALSE]
    /\ IF pc[c] = "enrolled"
       THEN /\ pc' = [pc EXCEPT ![c] = "admitted"]
            /\ UNCHANGED <<lane, position>>
       ELSE /\ pc' = [pc EXCEPT ![c] = "idle"]
            /\ lane' = [lane EXCEPT ![c] = None]
            /\ position' = [position EXCEPT ![c] = 0]
    /\ UNCHANGED <<lanes, entries, users, key, ahead>>

\* Altered: the wait is for the later entries.
Later(c) == {d \in entries[lanes[key[c]]] : position[d] > position[c]}

\* The entries at an earlier position of the lane the ticket's key names now.
Earlier(c) == {d \in entries[lanes[key[c]]] : position[d] < position[c]}

\* Wait, under q.mu: snapshot the tickets ahead; with none it returns at once.
Wait(c) ==
    /\ pc[c] = "admitted"
    /\ ahead' = [ahead EXCEPT ![c] = Earlier(c)]
    /\ pc'    = [pc EXCEPT ![c] = IF Earlier(c) = {} THEN "running" ELSE "waiting"]
    /\ UNCHANGED <<lanes, admit, entries, users, key, lane, full, position>>

\* Wait returns nil: every channel of the snapshot is closed.
Dispatch(c) ==
    /\ pc[c] = "waiting"
    /\ ahead[c] = {}
    /\ pc' = [pc EXCEPT ![c] = "running"]
    /\ UNCHANGED <<lanes, admit, entries, users, key, lane, full, position, ahead>>

\* Wait returns the context's error; the select may pick it even when the
\* last channel is closed as well.
GiveUp(c) ==
    /\ pc[c] = "waiting"
    /\ pc'    = [pc EXCEPT ![c] = "stopped"]
    /\ ahead' = [ahead EXCEPT ![c] = {}]
    /\ UNCHANGED <<lanes, admit, entries, users, key, lane, full, position>>

\* Altered: done is never closed.
ReleaseSilently(c) ==
    /\ pc[c] \in {"admitted", "running", "stopped"}
    /\ entries' = [entries EXCEPT ![lanes[key[c]]] = @ \ {c}]
    /\ lane'    = [lane EXCEPT ![c] = lanes[key[c]]]
    /\ pc'      = [pc EXCEPT ![c] = "released"]
    /\ UNCHANGED <<lanes, admit, users, key, full, position, ahead>>

\* Release, under q.mu: the entry leaves the key's lane and done is closed.
Release(c) ==
    /\ pc[c] \in {"admitted", "running", "stopped"}
    /\ entries' = [entries EXCEPT ![lanes[key[c]]] = @ \ {c}]
    /\ ahead'   = [d \in Caller |-> ahead[d] \ {c}]
    /\ lane'    = [lane EXCEPT ![c] = lanes[key[c]]]
    /\ pc'      = [pc EXCEPT ![c] = "released"]
    /\ UNCHANGED <<lanes, admit, users, key, full, position>>

\* The second half of Release: the ticket's use of the lane ends.
EndUse(c) ==
    /\ pc[c] = "released"
    /\ LeaveLane(key[c], lane[c])
    /\ lane'     = [lane EXCEPT ![c] = None]
    /\ position' = [position EXCEPT ![c] = 0]
    /\ pc'       = [pc EXCEPT ![c] = "idle"]
    /\ UNCHANGED <<admit, entries, key, full, ahead>>

Next ==
    \E c \in Caller :
        \/ \E k \in Key : Join(c, k)
        \/ Lock(c)
        \/ ReadFull(c)
        \/ \E p \in Position : RecordEnrolls(c, p)
        \/ RecordRefuses(c)
        \/ Enroll(c)
        \/ Refuse(c)
        \/ Unlock(c)
        \/ Wait(c)
        \/ Dispatch(c)
        \/ GiveUp(c)
        \/ Release(c)
        \/ EndUse(c)

Spec == Init /\ [][Next]_vars

\* What a caller does between two steps of its own always ends: record
\* returns, and whoever ran or gave up releases.  A Go mutex hands itself to a
\* goroutine that has waited a millisecond, so Lock is strongly fair.
Fairness ==
    \A c \in Caller :
        /\ SF_vars(Lock(c))
        /\ WF_vars(ReadFull(c))
        /\ WF_vars(RecordRefuses(c) \/ \E p \in Position : RecordEnrolls(c, p))
        /\ WF_vars(Enroll(c) \/ Refuse(c) \/ Unlock(c))
        /\ WF_vars(Wait(c))
        /\ WF_vars(Dispatch(c))
        /\ WF_vars(Release(c) /\ pc[c] # "admitted")
        /\ WF_vars(EndUse(c))

FairSpec == Spec /\ Fairness
-------------------------------------------------------------------------------
\* Every variable holds a value of its kind.
TypeOK ==
    /\ lanes    \in [Key -> LaneObject \cup {None}]
    /\ admit    \in [LaneObject -> Caller \cup {None}]
    /\ entries  \in [LaneObject -> SUBSET Caller]
    /\ users    \in [LaneObject -> Nat]
    /\ pc       \in [Caller -> Using \cup {"idle", "left"}]
    /\ key      \in [Caller -> Key]
    /\ lane     \in [Caller -> LaneObject \cup {None}]
    /\ full     \in [Caller -> BOOLEAN]
    /\ position \in [Caller -> Position]
    /\ ahead    \in [Caller -> SUBSET Caller]

\* "every user of a key always shares the same lane" (leave): whoever is
\* counted in a lane finds that very object under its key, so Release and Wait,
\* which look the lane up again by key, never meet another lane or none.
LaneShared == \A c \in Caller : pc[c] \in Using => lanes[key[c]] = lane[c] /\ lane[c] # None

\* "finished lanes do not accumulate" (leave): a key whose users are all gone
\* keeps no lane, and the count that decides it is exact.
NoIdleLane ==
    \A k \in Key : lanes[k] # None =>
        /\ users[lanes[k]] = Cardinality({c \in Caller : pc[c] \in Using /\ key[c] = k})
        /\ users[lanes[k]] > 0

\* "admit serializes admissions" (queueLane): record never runs twice at once
\* for one key, lanes dropped and made again under that key included.
AdmissionsSerialized ==
    \A c, d \in Caller :
        /\ key[c] = key[d]
        /\ pc[c] \in {"recording", "enrolling"}
        /\ pc[d] \in {"recording", "enrolling"}
        => c = d

\* "NewOrderedQueue bounds each lane to maxEntries admitted and unreleased
\* entries": full is read before record runs, and the bound holds after it.
BoundHeld ==
    \A k \in Key :
        Cardinality({c \in Caller : pc[c] \in InLane /\ key[c] = k}) <= MaxEntries

\* Wait: an entry runs only while no entry of its key is at an earlier
\* position, although Wait looked at the lane only once, when it began.
InPositionOrder ==
    \A c, d \in Caller :
        /\ pc[c] = "running"
        /\ pc[d] \in InLane
        /\ key[d] = key[c]
        => position[c] <= position[d]

\* The place each caller's ticket holds, and the callers whose wait is over.
HeldPlace == [c \in Caller |-> IF pc[c] \in InLane
                               THEN [key |-> key[c], position |-> position[c]]
                               ELSE None]
Dispatched == {c \in Caller : pc[c] = "running"}

Abstract == INSTANCE PositionOrder WITH
    Entry <- Caller, place <- HeldPlace, running <- Dispatched

\* The queue does what PositionOrder promises: enrolling is joining, the end
\* of Wait is running, the removal from the entries is leaving.
KeepsPositionOrder == Abstract!Spec

\* Nobody waits for ever: an admission ends, and a ticket ahead of which every
\* entry is released in the end is dispatched or given up.
EveryAdmissionEnds == \A c \in Caller : pc[c] = "joined" ~> pc[c] \in {"idle", "admitted"}
EveryWaitEnds == \A c \in Caller : pc[c] = "waiting" ~> pc[c] \in {"running", "stopped"}
===============================================================================
