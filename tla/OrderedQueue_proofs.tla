-------------------------- MODULE OrderedQueue_proofs --------------------------
(***************************************************************************)
(* Proofs about OrderedQueue for any callers, keys, positions and bound.   *)
(*                                                                         *)
(* The inductive invariant comes in two layers.  Lanes says which lane     *)
(* objects the callers and the keys reach and that the counts are exact;   *)
(* Order, on top of it, says what the holder of lane.admit knows of its    *)
(* lane and what the snapshot taken by Wait still covers.                  *)
(***************************************************************************)
EXTENDS OrderedQueue, FiniteSetTheorems, TLAPS

\* The callers counted in a lane object's users.
UsersOf == [l \in LaneObject |-> {c \in Caller : pc[c] \in Using /\ lane[c] = l}]

\* A caller that is not idle points to a lane object.
Pointed == \A c \in Caller : lane[c] = None <=> pc[c] = "idle"

\* No two keys share a lane object.
LanesApart == \A k, m \in Key : lanes[k] = lanes[m] /\ lanes[k] # None => k = m

\* A lane holds exactly the tickets enrolled in it.
EntriesExact == \A l \in LaneObject : entries[l] = {c \in Caller : pc[c] \in InLane /\ lane[c] = l}

\* users counts the callers that use the lane, and a mapped lane has some.
UsersExact ==
    /\ \A l \in LaneObject : users[l] = Cardinality(UsersOf[l])
    /\ \A k \in Key : lanes[k] # None => UsersOf[lanes[k]] # {}

Lanes == TypeOK /\ Pointed /\ LaneShared /\ LanesApart /\ EntriesExact /\ UsersExact

\* Whoever is past Lock and not past Unlock holds the lane's mutex.
AdmitHeld == \A c \in Caller : pc[c] \in Admitting => admit[lane[c]] = c

\* No lane holds more tickets than it may, and one fewer while a ticket is
\* about to join it.
Room ==
    /\ \A l \in LaneObject : Cardinality(entries[l]) <= MaxEntries
    /\ \A c \in Caller :
          pc[c] = "enrolling" \/ (pc[c] = "recording" /\ ~full[c])
          => Cardinality(entries[lane[c]]) < MaxEntries

\* What is about to join a lane comes before nothing in it.
JoinsLast ==
    \A c, d \in Caller : pc[c] = "enrolling" /\ d \in entries[lane[c]]
                         => position[d] <= position[c]

\* A waiter still has a channel for every earlier entry of its lane; a runner
\* has none left to wait for.
AheadCovers ==
    \A c \in Caller : pc[c] \in {"waiting", "running"} =>
        \A d \in entries[lane[c]] :
            position[d] < position[c] => pc[c] = "waiting" /\ d \in ahead[c]

Order == AdmitHeld /\ Room /\ JoinsLast /\ AheadCovers

IInv == Lanes /\ Order
--------------------------------------------------------------------------------
(* The lane objects: who reaches them, and what they count. *)

\* The users of a lane are finitely many, so their count is a number.
LEMMA UsersFinite ==
    \A l \in LaneObject : IsFiniteSet(UsersOf[l]) /\ Cardinality(UsersOf[l]) \in Nat
<1> TAKE l \in LaneObject
<1>1. UsersOf[l] \in SUBSET Caller
  BY DEF UsersOf
<1> QED
  BY <1>1, CallerAssumption, FS_Subset, FS_CardinalityType

\* Lanes survives a step that moves nobody in or out of a lane.
LEMMA LanesQuiet ==
    ASSUME Lanes, TypeOK',
           UNCHANGED <<lanes, entries, users, key, lane>>,
           \A c \in Caller : /\ pc'[c] \in Using <=> pc[c] \in Using
                             /\ pc'[c] \in InLane <=> pc[c] \in InLane
                             /\ pc'[c] = "idle" <=> pc[c] = "idle"
    PROVE  Lanes'
<1> USE DEF Lanes
<1>1. UsersOf' = UsersOf
  BY DEF UsersOf
<1>2. Pointed' /\ LaneShared' /\ LanesApart'
  BY DEF Pointed, LaneShared, LanesApart
<1>3. EntriesExact'
  BY DEF EntriesExact
<1>4. UsersExact'
  BY <1>1 DEF UsersExact
<1> QED
  BY <1>2, <1>3, <1>4

\* Join counts the caller in the lane it finds or makes.
LEMMA LanesJoin ==
    ASSUME Lanes, NEW c \in Caller, NEW k \in Key, Join(c, k)
    PROVE  Lanes'
<1> USE DEF Lanes
<1>1. PICK l \in LaneObject :
          /\ IF lanes[k] = None
             THEN /\ Unreferenced(l)
                  /\ lanes'   = [lanes EXCEPT ![k] = l]
                  /\ admit'   = [admit EXCEPT ![l] = None]
                  /\ entries' = [entries EXCEPT ![l] = {}]
                  /\ users'   = [users EXCEPT ![l] = 1]
             ELSE /\ l = lanes[k]
                  /\ users' = [users EXCEPT ![l] = @ + 1]
                  /\ UNCHANGED <<lanes, admit, entries>>
          /\ lane' = [lane EXCEPT ![c] = l]
  BY DEF Join
<1>2. /\ pc[c] = "idle"
      /\ key' = [key EXCEPT ![c] = k]
      /\ pc'  = [pc EXCEPT ![c] = "joined"]
      /\ UNCHANGED <<full, position, ahead>>
  BY DEF Join
<1>3. TypeOK'
  <2>1. /\ key' \in [Caller -> Key] /\ pc' \in [Caller -> Using \cup {"idle", "left"}]
        /\ lane' \in [Caller -> LaneObject \cup {None}]
    BY <1>1, <1>2 DEF TypeOK, Using, InLane
  <2>2. CASE lanes[k] = None
    BY <1>1, <1>2, <2>1, <2>2 DEF TypeOK
  <2>3. CASE lanes[k] # None
    BY <1>1, <1>2, <2>1, <2>3 DEF TypeOK
  <2> QED
    BY <2>2, <2>3
<1>4. l # None /\ lane[c] = None
  BY <1>2, NoneAssumption DEF Pointed
<1>5. lanes'[k] = l /\ \A m \in Key : m # k => lanes'[m] = lanes[m]
  BY <1>1 DEF TypeOK
<1>6. lanes[k] = None => \A d \in Caller : lane[d] # l
  BY <1>1 DEF Unreferenced
<1>7. Pointed'
  BY <1>1, <1>2, <1>4 DEF Pointed, TypeOK
<1>8. LaneShared'
  BY <1>1, <1>2, <1>4, <1>5 DEF LaneShared, TypeOK, Using, InLane
<1>9. LanesApart'
  BY <1>1, <1>4, <1>5 DEF LanesApart, Unreferenced
<1>10. EntriesExact'
  <2>1. \A m \in LaneObject : entries'[m] = entries[m]
    <3>1. lanes[k] = None => entries[l] = {}
      BY <1>6 DEF EntriesExact
    <3> QED
      BY <1>1, <3>1 DEF TypeOK
  <2>2. \A m \in LaneObject, d \in Caller :
          pc'[d] \in InLane /\ lane'[d] = m <=> pc[d] \in InLane /\ lane[d] = m
    BY <1>1, <1>2 DEF TypeOK, InLane
  <2> QED
    BY <2>1, <2>2 DEF EntriesExact
<1>11. UsersExact'
  <2>1. UsersOf'[l] = UsersOf[l] \cup {c} /\ c \notin UsersOf[l]
    BY <1>1, <1>2 DEF UsersOf, TypeOK, Using, InLane
  <2>2. \A m \in LaneObject : m # l => UsersOf'[m] = UsersOf[m]
    BY <1>1, <1>2, <1>4, NoneAssumption DEF UsersOf, TypeOK, Using, InLane
  <2>3. Cardinality(UsersOf'[l]) = Cardinality(UsersOf[l]) + 1
    BY <2>1, UsersFinite, FS_AddElement
  <2>4. lanes[k] = None => Cardinality(UsersOf[l]) = 0
    BY <1>6, FS_EmptySet DEF UsersOf
  <2>5. users'[l] = Cardinality(UsersOf'[l])
    BY <1>1, <2>3, <2>4 DEF UsersExact, TypeOK
  <2>6. \A m \in LaneObject : m # l => users'[m] = users[m]
    BY <1>1 DEF TypeOK
  <2>7. \A m \in LaneObject : users'[m] = Cardinality(UsersOf'[m])
    BY <2>2, <2>5, <2>6 DEF UsersExact
  <2>8. \A m \in Key : lanes'[m] # None => UsersOf'[lanes'[m]] # {}
    <3> SUFFICES ASSUME NEW m \in Key, lanes'[m] # None
                 PROVE  UsersOf'[lanes'[m]] # {}
      OBVIOUS
    <3>1. lanes'[m] \in LaneObject
      BY <1>3 DEF TypeOK
    <3>2. CASE lanes'[m] = l
      BY <2>1, <3>2
    <3>3. CASE lanes'[m] # l
      BY <1>5, <2>2, <3>1, <3>3 DEF UsersExact
    <3> QED
      BY <3>2, <3>3
  <2> QED
    BY <2>7, <2>8 DEF UsersExact
<1> QED
  BY <1>3, <1>7, <1>8, <1>9, <1>10, <1>11

\* What leaving counts: the caller is one user fewer, and the lane is dropped
\* exactly when nobody is left in it.
LEMMA LanesLeave ==
    ASSUME Lanes, NEW c \in Caller, pc[c] \in {"refusing", "released"},
           LeaveLane(key[c], lane[c]),
           pc' \in {[pc EXCEPT ![c] = "left"], [pc EXCEPT ![c] = "idle"]},
           lane' = IF pc'[c] = "idle" THEN [lane EXCEPT ![c] = None] ELSE lane,
           position' \in [Caller -> Position],
           UNCHANGED <<admit, entries, key, full, ahead>>
    PROVE  Lanes'
<1> USE DEF Lanes
<1> DEFINE l == lane[c]
           k == key[c]
<1>1. k \in Key /\ l \in LaneObject /\ l # None /\ lanes[k] = l
  BY DEF TypeOK, LaneShared, Using
<1>2. /\ users' = [users EXCEPT ![l] = @ - 1]
      /\ lanes' = IF users[l] = 1 THEN [lanes EXCEPT ![k] = None] ELSE lanes
  BY DEF LeaveLane
<1>3. pc'[c] \in {"left", "idle"} /\ \A d \in Caller : d # c => pc'[d] = pc[d] /\ lane'[d] = lane[d]
  BY DEF TypeOK
<1>4. UsersOf'[l] = UsersOf[l] \ {c} /\ c \in UsersOf[l]
  BY <1>1, <1>3 DEF UsersOf, Using, InLane
<1>5. \A m \in LaneObject : m # l => UsersOf'[m] = UsersOf[m]
  BY <1>1, <1>3 DEF UsersOf, Using, InLane
<1>6. Cardinality(UsersOf'[l]) = Cardinality(UsersOf[l]) - 1
  <2>1. IsFiniteSet(UsersOf[l])
    BY <1>1, UsersFinite
  <2>2. Cardinality(UsersOf[l] \ {c}) = Cardinality(UsersOf[l]) - 1
    BY <1>4, <2>1, FS_RemoveElement
  <2> QED
    BY <1>4, <2>2
<1>7. users[l] = Cardinality(UsersOf[l])
  BY <1>1 DEF UsersExact
<1>8. Cardinality(UsersOf'[l]) \in Nat /\ (Cardinality(UsersOf'[l]) = 0 <=> UsersOf'[l] = {})
  <2>1. IsFiniteSet(UsersOf'[l])
    BY <1>1, <1>4, UsersFinite, FS_RemoveElement
  <2> QED
    BY <2>1, FS_CardinalityType, FS_EmptySet
<1>9. users[l] = 1 <=> UsersOf'[l] = {}
  BY <1>1, <1>6, <1>7, <1>8, UsersFinite
<1>10. users'[l] = Cardinality(UsersOf'[l]) /\ users' \in [LaneObject -> Nat]
  BY <1>1, <1>2, <1>6, <1>7, <1>8 DEF TypeOK
<1>11. TypeOK'
  BY <1>1, <1>2, <1>10 DEF TypeOK, Using
<1>12. Pointed'
  BY <1>1, <1>3 DEF Pointed, TypeOK
<1>13. LaneShared'
  <2> SUFFICES ASSUME NEW d \in Caller, pc'[d] \in Using
               PROVE  lanes'[key[d]] = lane'[d] /\ lane'[d] # None
    BY DEF LaneShared
  <2>1. d # c /\ pc[d] \in Using /\ lane'[d] = lane[d]
    BY <1>3 DEF Using, InLane
  <2>2. lanes[key[d]] = lane[d] /\ lane[d] # None
    BY <2>1 DEF LaneShared
  <2>3. CASE users[l] # 1
    BY <1>2, <2>1, <2>2, <2>3
  <2>4. CASE users[l] = 1
    <3>1. lane[d] # l
      BY <1>1, <1>3, <1>9, <2>1, <2>4 DEF UsersOf
    <3>2. key[d] # k
      BY <1>1, <2>2, <3>1
    <3> QED
      BY <1>2, <2>1, <2>2, <2>4, <3>2 DEF TypeOK
  <2> QED
    BY <2>3, <2>4
<1>14. LanesApart'
  BY <1>1, <1>2 DEF LanesApart, TypeOK
<1>15. EntriesExact'
  BY <1>3 DEF EntriesExact, InLane
<1>16. UsersExact'
  <2>1. \A m \in LaneObject : users'[m] = Cardinality(UsersOf'[m])
    BY <1>2, <1>5, <1>10 DEF UsersExact, TypeOK
  <2>2. ASSUME NEW m \in Key, lanes'[m] # None
        PROVE  UsersOf'[lanes'[m]] # {}
    <3>1. lanes'[m] = lanes[m] /\ (users[l] = 1 => m # k)
      BY <1>2, <2>2 DEF TypeOK
    <3>2. CASE lanes[m] = l
      BY <1>1, <1>9, <3>1, <3>2 DEF LanesApart
    <3>3. CASE lanes[m] # l
      BY <1>5, <2>2, <3>1, <3>3 DEF UsersExact, TypeOK
    <3> QED
      BY <3>2, <3>3
  <2> QED
    BY <2>1, <2>2 DEF UsersExact
<1> QED
  BY <1>11, <1>12, <1>13, <1>14, <1>15, <1>16

\* Releasing moves the ticket out of the entries; its use goes on.
LEMMA LanesRelease ==
    ASSUME Lanes, NEW c \in Caller, Release(c)
    PROVE  Lanes'
<1> USE DEF Lanes
<1>1. lanes[key[c]] = lane[c] /\ lane[c] \in LaneObject /\ key[c] \in Key
  BY DEF Release, LaneShared, TypeOK, Using, InLane
<1>2. lane' = lane
  BY <1>1 DEF Release, TypeOK
<1>3. \A d \in Caller : d # c => pc'[d] = pc[d]
  BY DEF Release, TypeOK
<1>4. pc[c] \in InLane /\ pc'[c] = "released" /\ pc'[c] \notin InLane
  BY DEF Release, TypeOK, InLane
<1>5. TypeOK'
  BY <1>1, <1>2 DEF Release, TypeOK, Using
<1>6. UsersOf' = UsersOf
  BY <1>2, <1>3, <1>4 DEF UsersOf, Using
<1>7. Pointed' /\ LaneShared' /\ LanesApart'
  BY <1>2, <1>3, <1>4 DEF Release, Pointed, LaneShared, LanesApart, Using, InLane
<1>8. EntriesExact'
  BY <1>1, <1>2, <1>3, <1>4 DEF Release, EntriesExact, TypeOK
<1>9. UsersExact'
  BY <1>6 DEF Release, UsersExact
<1> QED
  BY <1>5, <1>7, <1>8, <1>9

\* Enrolling adds the ticket to the entries of the lane it already uses.
LEMMA LanesEnroll ==
    ASSUME Lanes, NEW c \in Caller, Enroll(c)
    PROVE  Lanes'
<1> USE DEF Lanes
<1>1. lane[c] \in LaneObject
  BY DEF Enroll, LaneShared, TypeOK, Using
<1>2. \A d \in Caller : d # c => pc'[d] = pc[d]
  BY DEF Enroll, TypeOK
<1>3. pc[c] = "enrolling" /\ pc'[c] = "enrolled"
  BY DEF Enroll, TypeOK
<1>4. TypeOK'
  BY <1>1 DEF Enroll, TypeOK, Using, InLane
<1>5. UsersOf' = UsersOf
  BY <1>2, <1>3 DEF Enroll, UsersOf, Using, InLane
<1>6. Pointed' /\ LaneShared' /\ LanesApart'
  BY <1>2, <1>3 DEF Enroll, Pointed, LaneShared, LanesApart, Using, InLane
<1>7. EntriesExact'
  BY <1>1, <1>2, <1>3 DEF Enroll, EntriesExact, TypeOK, InLane
<1>8. UsersExact'
  BY <1>5 DEF Enroll, UsersExact
<1> QED
  BY <1>4, <1>6, <1>7, <1>8

\* Unlocking ends an admission; a refused one has already left its lane.
LEMMA LanesUnlock ==
    ASSUME Lanes, NEW c \in Caller, Unlock(c)
    PROVE  Lanes'
<1> USE DEF Lanes
<1>1. CASE pc[c] = "enrolled"
  <2>1. TypeOK'
    BY <1>1 DEF Unlock, TypeOK, Using, InLane
  <2>2. UNCHANGED <<lanes, entries, users, key, lane>>
    BY <1>1 DEF Unlock
  <2>3. pc' = [pc EXCEPT ![c] = "admitted"]
    BY <1>1 DEF Unlock
  <2>4. \A d \in Caller : /\ pc'[d] \in Using <=> pc[d] \in Using
                          /\ pc'[d] \in InLane <=> pc[d] \in InLane
                          /\ pc'[d] = "idle" <=> pc[d] = "idle"
    BY <1>1, <2>3 DEF TypeOK, Using, InLane
  <2> QED
    BY <2>1, <2>2, <2>4, LanesQuiet
<1>2. CASE pc[c] = "left"
  <2>1. /\ pc' = [pc EXCEPT ![c] = "idle"]
        /\ lane' = [lane EXCEPT ![c] = None]
        /\ position' = [position EXCEPT ![c] = 0]
        /\ UNCHANGED <<lanes, entries, users, key, ahead>>
    BY <1>2 DEF Unlock
  <2>2. \A d \in Caller : d # c => pc'[d] = pc[d] /\ lane'[d] = lane[d]
    BY <2>1 DEF TypeOK
  <2>3. pc'[c] = "idle" /\ lane'[c] = None
    BY <2>1 DEF TypeOK
  <2>4. TypeOK'
    BY <2>1, PositionAssumption DEF Unlock, TypeOK, Using
  <2>5. UsersOf' = UsersOf
    BY <1>2, <2>2, <2>3 DEF UsersOf, Using, InLane
  <2>6. Pointed' /\ LaneShared' /\ LanesApart'
    BY <2>1, <2>2, <2>3 DEF Pointed, LaneShared, LanesApart, Using, InLane
  <2>7. EntriesExact'
    BY <1>2, <2>1, <2>2, <2>3 DEF EntriesExact, InLane
  <2>8. UsersExact'
    BY <2>1, <2>5 DEF UsersExact
  <2> QED
    BY <2>4, <2>6, <2>7, <2>8
<1> QED
  BY <1>1, <1>2 DEF Unlock

\* Every step keeps Lanes.
LEMMA LanesNext == Lanes /\ [Next]_vars => Lanes'
<1> SUFFICES ASSUME Lanes, [Next]_vars PROVE Lanes'
  OBVIOUS
<1>1. ASSUME NEW c \in Caller, NEW k \in Key, Join(c, k) PROVE Lanes'
  BY <1>1, LanesJoin
<1>2. ASSUME NEW c \in Caller, Lock(c) PROVE Lanes'
  <2>1. TypeOK'
    BY <1>2 DEF Lanes, Lock, TypeOK, Using, InLane
  <2> QED
    BY <1>2, <2>1, LanesQuiet DEF Lock, Lanes, TypeOK, Using, InLane
<1>3. ASSUME NEW c \in Caller, ReadFull(c) PROVE Lanes'
  <2>1. TypeOK'
    BY <1>3 DEF Lanes, ReadFull, TypeOK, Using, InLane
  <2> QED
    BY <1>3, <2>1, LanesQuiet DEF ReadFull, Lanes, TypeOK, Using, InLane
<1>4. ASSUME NEW c \in Caller, NEW p \in Position, RecordEnrolls(c, p) PROVE Lanes'
  <2>1. TypeOK'
    BY <1>4 DEF Lanes, RecordEnrolls, TypeOK, Using, InLane
  <2> QED
    BY <1>4, <2>1, LanesQuiet DEF RecordEnrolls, Lanes, TypeOK, Using, InLane
<1>5. ASSUME NEW c \in Caller, RecordRefuses(c) PROVE Lanes'
  <2>1. TypeOK'
    BY <1>5 DEF Lanes, RecordRefuses, TypeOK, Using, InLane
  <2> QED
    BY <1>5, <2>1, LanesQuiet DEF RecordRefuses, Lanes, TypeOK, Using, InLane
<1>6. ASSUME NEW c \in Caller, Enroll(c) PROVE Lanes'
  BY <1>6, LanesEnroll
<1>7. ASSUME NEW c \in Caller, Refuse(c) PROVE Lanes'
  BY <1>7, LanesLeave DEF Refuse, Lanes, TypeOK
<1>8. ASSUME NEW c \in Caller, Unlock(c) PROVE Lanes'
  BY <1>8, LanesUnlock
<1>9. ASSUME NEW c \in Caller, Wait(c) PROVE Lanes'
  <2>1. Earlier(c) \subseteq Caller
    BY <1>9 DEF Wait, Earlier, Lanes, LaneShared, TypeOK, Using, InLane
  <2>2. TypeOK'
    BY <1>9, <2>1 DEF Lanes, Wait, TypeOK, Using, InLane
  <2> QED
    BY <1>9, <2>2, LanesQuiet DEF Wait, Lanes, TypeOK, Using, InLane
<1>10. ASSUME NEW c \in Caller, Dispatch(c) PROVE Lanes'
  <2>1. TypeOK'
    BY <1>10 DEF Lanes, Dispatch, TypeOK, Using, InLane
  <2> QED
    BY <1>10, <2>1, LanesQuiet DEF Dispatch, Lanes, TypeOK, Using, InLane
<1>11. ASSUME NEW c \in Caller, GiveUp(c) PROVE Lanes'
  <2>1. TypeOK'
    BY <1>11 DEF Lanes, GiveUp, TypeOK, Using, InLane
  <2> QED
    BY <1>11, <2>1, LanesQuiet DEF GiveUp, Lanes, TypeOK, Using, InLane
<1>12. ASSUME NEW c \in Caller, Release(c) PROVE Lanes'
  BY <1>12, LanesRelease
<1>13. ASSUME NEW c \in Caller, EndUse(c) PROVE Lanes'
  <2>1. position' \in [Caller -> Position]
    BY <1>13, PositionAssumption DEF EndUse, Lanes, TypeOK
  <2>2. pc'[c] = "idle"
    BY <1>13 DEF EndUse, Lanes, TypeOK
  <2> QED
    BY <1>13, <2>1, <2>2, LanesLeave DEF EndUse
<1>14. CASE UNCHANGED vars
  BY <1>14, LanesQuiet DEF vars, Lanes, TypeOK
<1> QED
  BY <1>1, <1>2, <1>3, <1>4, <1>5, <1>6, <1>7, <1>8, <1>9, <1>10, <1>11, <1>12, <1>13, <1>14
  DEF Next

\* Lanes holds at first: no lane, no user.
LEMMA LanesInit == Init => Lanes
<1> SUFFICES ASSUME Init PROVE Lanes
  OBVIOUS
<1>1. TypeOK
  BY PositionAssumption DEF Init, TypeOK
<1>2. Pointed /\ LaneShared /\ LanesApart
  BY NoneAssumption DEF Init, Pointed, LaneShared, LanesApart, Using, InLane
<1>3. EntriesExact
  BY DEF Init, EntriesExact, InLane
<1>4. \A l \in LaneObject : UsersOf[l] = {}
  BY DEF Init, UsersOf, Using, InLane
<1>5. UsersExact
  BY <1>4, FS_EmptySet DEF Init, UsersExact
<1> QED
  BY <1>1, <1>2, <1>3, <1>5 DEF Lanes
--------------------------------------------------------------------------------
(* What an admission and a wait may rely on. *)

\* Entries are finitely many callers, so they can be counted.
LEMMA EntriesFinite ==
    ASSUME Lanes
    PROVE  \A l \in LaneObject : /\ IsFiniteSet(entries[l])
                                 /\ Cardinality(entries[l]) \in Nat
<1> TAKE l \in LaneObject
<1>1. entries[l] \in SUBSET Caller
  BY DEF Lanes, TypeOK
<1> QED
  BY <1>1, CallerAssumption, FS_Subset, FS_CardinalityType

\* Two callers between Lock and Unlock of one lane are the same.
LEMMA AdmitExclusive ==
    ASSUME AdmitHeld, NEW c \in Caller, NEW d \in Caller,
           pc[c] \in Admitting, pc[d] \in Admitting, lane[c] = lane[d]
    PROVE  c = d
BY DEF AdmitHeld

\* Order survives a step that only moves callers on without letting anyone
\* lock, record, enroll or wait.
LEMMA OrderQuiet ==
    ASSUME Lanes, Order, Lanes',
           UNCHANGED <<entries, full>>,
           \A c \in Caller :
              /\ pc'[c] \in Admitting => /\ pc[c] \in Admitting
                                         /\ lane'[c] = lane[c]
                                         /\ admit'[lane[c]] = admit[lane[c]]
              /\ pc'[c] \in {"recording", "enrolling"} => pc'[c] = pc[c]
              /\ pc'[c] \in {"waiting", "running"} =>
                    /\ lane'[c] = lane[c] /\ pc'[c] = pc[c] /\ ahead'[c] = ahead[c]
              /\ pc[c] \in InLane \/ pc'[c] = "enrolling" => position'[c] = position[c]
    PROVE  Order'
<1>1. \A c \in Caller : pc'[c] \in {"recording", "enrolling"} => lane'[c] = lane[c]
  BY DEF Admitting
<1>2. \A c \in Caller : pc[c] # "idle" => \A d \in entries[lane[c]] :
          d \in Caller /\ position'[d] = position[d]
  BY DEF Lanes, TypeOK, EntriesExact, Pointed
<1>3. AdmitHeld'
  BY DEF AdmitHeld, Order
<1>4. Room'
  BY <1>1 DEF Room, Order
<1>5. JoinsLast'
  BY <1>1, <1>2 DEF JoinsLast, Order
<1>6. AheadCovers'
  BY <1>2 DEF AheadCovers, Order, InLane
<1> QED
  BY <1>3, <1>4, <1>5, <1>6 DEF Order

\* Joining locks nothing, and a lane made anew had no holder and no entry.
LEMMA OrderJoin ==
    ASSUME Lanes, Order, Lanes', NEW c \in Caller, NEW k \in Key, Join(c, k)
    PROVE  Order'
<1>1. PICK l \in LaneObject :
          /\ IF lanes[k] = None
             THEN /\ Unreferenced(l)
                  /\ admit'   = [admit EXCEPT ![l] = None]
                  /\ entries' = [entries EXCEPT ![l] = {}]
             ELSE UNCHANGED <<admit, entries>>
          /\ lane' = [lane EXCEPT ![c] = l]
  BY DEF Join
<1>2. /\ pc[c] = "idle"
      /\ pc' = [pc EXCEPT ![c] = "joined"]
      /\ UNCHANGED <<full, position, ahead>>
  BY DEF Join
<1>3. entries' = entries
  <2>1. lanes[k] = None => entries[l] = {}
    BY <1>1 DEF Unreferenced, Lanes, EntriesExact
  <2>2. \A m \in LaneObject : entries'[m] = entries[m]
    BY <1>1, <2>1 DEF Lanes, TypeOK
  <2>3. entries \in [LaneObject -> SUBSET Caller] /\ entries' \in [LaneObject -> SUBSET Caller]
    BY DEF Lanes, TypeOK
  <2> QED
    BY <2>2, <2>3
<1>4. \A d \in Caller : d # c => pc'[d] = pc[d] /\ lane'[d] = lane[d]
  BY <1>1, <1>2 DEF Lanes, TypeOK
<1>6. \A d \in Caller : pc[d] # "idle" => admit'[lane[d]] = admit[lane[d]]
  <2>1. \A d \in Caller : pc[d] # "idle" => lane[d] \in LaneObject
    BY DEF Lanes, Pointed, TypeOK
  <2> QED
    BY <1>1, <2>1 DEF Unreferenced, Lanes, TypeOK
<1>5. pc'[c] = "joined"
  BY <1>2 DEF Lanes, TypeOK
<1> QED
  BY <1>2, <1>3, <1>4, <1>5, <1>6, OrderQuiet DEF Admitting, InLane

\* The mutex was free, so nobody else is admitting to this lane.
LEMMA OrderLock ==
    ASSUME Lanes, Order, Lanes', NEW c \in Caller, Lock(c)
    PROVE  Order'
<1>1. /\ pc[c] = "joined" /\ admit[lane[c]] = None /\ lane[c] \in LaneObject
      /\ admit' = [admit EXCEPT ![lane[c]] = c]
      /\ pc' = [pc EXCEPT ![c] = "locked"]
      /\ UNCHANGED <<entries, lane, full, position, ahead>>
  BY DEF Lock, Lanes, LaneShared, TypeOK, Using
<1>2. \A d \in Caller : pc[d] \in Admitting => lane[d] # lane[c]
  BY <1>1, NoneAssumption DEF Order, AdmitHeld
<1>3. AdmitHeld'
  BY <1>1, <1>2 DEF Order, AdmitHeld, Lanes, TypeOK
<1>4. \A d \in Caller : pc'[d] \in {"recording", "enrolling", "waiting", "running"} => pc[d] = pc'[d]
  BY <1>1 DEF Lanes, TypeOK
<1>5. Room' /\ JoinsLast' /\ AheadCovers'
  BY <1>1, <1>4 DEF Order, Room, JoinsLast, AheadCovers
<1> QED
  BY <1>3, <1>5 DEF Order

\* What the admission read stays true while it holds the mutex: entries leave
\* a lane, but only the admission joins it.
LEMMA OrderReadFull ==
    ASSUME Lanes, Order, Lanes', NEW c \in Caller, ReadFull(c)
    PROVE  Order'
<1>1. /\ pc[c] = "locked" /\ lane[c] \in LaneObject
      /\ full' = [full EXCEPT ![c] = Cardinality(entries[lane[c]]) >= MaxEntries]
      /\ pc' = [pc EXCEPT ![c] = "recording"]
      /\ UNCHANGED <<admit, entries, lane, position, ahead>>
  BY DEF ReadFull, Lanes, LaneShared, TypeOK, Using
<1>2. \A d \in Caller : d # c => pc'[d] = pc[d] /\ full'[d] = full[d]
  BY <1>1 DEF Lanes, TypeOK
<1>3. pc'[c] = "recording" /\ (~full'[c] => Cardinality(entries[lane[c]]) < MaxEntries)
  <2>1. pc'[c] = "recording" /\ (~full'[c] => ~(Cardinality(entries[lane[c]]) >= MaxEntries))
    BY <1>1 DEF Lanes, TypeOK
  <2>2. Cardinality(entries[lane[c]]) \in Nat
    BY <1>1, EntriesFinite
  <2> QED
    BY <2>1, <2>2, MaxEntriesAssumption
<1>4. AdmitHeld'
  BY <1>1, <1>2 DEF Order, AdmitHeld, Admitting
<1>5. Room'
  BY <1>1, <1>2, <1>3 DEF Order, Room
<1>6. JoinsLast' /\ AheadCovers'
  BY <1>1, <1>2, <1>3 DEF Order, JoinsLast, AheadCovers
<1> QED
  BY <1>4, <1>5, <1>6 DEF Order

\* record answers no position before an entry of the lane; the admission has
\* no ticket yet, so changing its position moves nobody.
LEMMA OrderRecord ==
    ASSUME Lanes, Order, Lanes', NEW c \in Caller, NEW p \in Position, RecordEnrolls(c, p)
    PROVE  Order'
<1>1. /\ pc[c] = "recording" /\ lane[c] \in LaneObject
      /\ \A d \in entries[lane[c]] : position[d] <= p
      /\ position' = [position EXCEPT ![c] = p]
      /\ pc' = [pc EXCEPT ![c] = IF full[c] THEN "refusing" ELSE "enrolling"]
      /\ UNCHANGED <<admit, entries, lane, full, ahead>>
  BY DEF RecordEnrolls, Lanes, LaneShared, TypeOK, Using
<1>2. \A d \in Caller : d # c => pc'[d] = pc[d] /\ position'[d] = position[d]
  BY <1>1 DEF Lanes, TypeOK
<1>3. pc'[c] = (IF full[c] THEN "refusing" ELSE "enrolling") /\ position'[c] = p
  BY <1>1 DEF Lanes, TypeOK
<1>4. \A l \in LaneObject : c \notin entries[l] /\ entries[l] \subseteq Caller
  BY <1>1 DEF Lanes, EntriesExact, InLane
<1>5. \A d \in Caller : pc[d] # "idle" => lane[d] \in LaneObject
  BY DEF Lanes, Pointed, TypeOK
<1>6. AdmitHeld'
  BY <1>1, <1>2, <1>3 DEF Order, AdmitHeld, Admitting
<1>7. Room'
  BY <1>1, <1>2, <1>3 DEF Order, Room, Lanes, TypeOK
<1>8. JoinsLast'
  BY <1>1, <1>2, <1>3, <1>4, <1>5 DEF Order, JoinsLast
<1>9. AheadCovers'
  BY <1>1, <1>2, <1>3, <1>4, <1>5 DEF Order, AheadCovers
<1> QED
  BY <1>6, <1>7, <1>8, <1>9 DEF Order

\* Enrolling fills one place the admission knew was free, behind every entry.
LEMMA OrderEnroll ==
    ASSUME Lanes, Order, Lanes', NEW c \in Caller, Enroll(c)
    PROVE  Order'
<1> DEFINE l == lane[c]
<1>1. /\ pc[c] = "enrolling" /\ l \in LaneObject
      /\ entries' = [entries EXCEPT ![l] = @ \cup {c}]
      /\ pc' = [pc EXCEPT ![c] = "enrolled"]
      /\ UNCHANGED <<admit, lane, full, position, ahead>>
  BY DEF Enroll, Lanes, LaneShared, TypeOK, Using
<1>2. \A d \in Caller : d # c => pc'[d] = pc[d]
  BY <1>1 DEF Lanes, TypeOK
<1>3. pc'[c] = "enrolled"
  BY <1>1 DEF Lanes, TypeOK
<1>4. entries'[l] = entries[l] \cup {c} /\ \A m \in LaneObject : m # l => entries'[m] = entries[m]
  BY <1>1 DEF Lanes, TypeOK
<1>5. \A d \in Caller : pc'[d] \in {"recording", "enrolling"} => lane[d] # l
  BY <1>1, <1>2, <1>3, AdmitExclusive DEF Order, Admitting
<1>6. AdmitHeld'
  BY <1>1, <1>2, <1>3 DEF Order, AdmitHeld, Admitting
<1>7. Room'
  <2>1. c \notin entries[l] /\ IsFiniteSet(entries[l]) /\ Cardinality(entries[l]) \in Nat
    BY <1>1, EntriesFinite DEF Lanes, EntriesExact, InLane
  <2>2. Cardinality(entries[l] \cup {c}) = Cardinality(entries[l]) + 1
    BY <2>1, FS_AddElement
  <2>3. Cardinality(entries[l]) < MaxEntries
    BY <1>1 DEF Order, Room
  <2>4. \A m \in LaneObject : Cardinality(entries'[m]) <= MaxEntries
    BY <1>1, <1>4, <2>1, <2>2, <2>3, MaxEntriesAssumption DEF Order, Room
  <2>5. ASSUME NEW d \in Caller, pc'[d] = "enrolling" \/ (pc'[d] = "recording" /\ ~full'[d])
        PROVE  Cardinality(entries'[lane'[d]]) < MaxEntries
    <3>1. d # c /\ pc'[d] = pc[d] /\ lane[d] # l /\ lane[d] \in LaneObject
      BY <1>2, <1>3, <1>5, <2>5 DEF Lanes, LaneShared, TypeOK, Using
    <3> QED
      BY <1>1, <1>4, <2>5, <3>1 DEF Order, Room
  <2> QED
    BY <2>4, <2>5 DEF Room
<1>8. JoinsLast'
  <2> SUFFICES ASSUME NEW d \in Caller, NEW e \in Caller, pc'[d] = "enrolling", e \in entries'[lane'[d]]
               PROVE  position'[e] <= position'[d]
    BY DEF JoinsLast
  <2>1. d # c /\ pc'[d] = pc[d] /\ lane[d] # l /\ lane[d] \in LaneObject
    BY <1>2, <1>3, <1>5 DEF Lanes, LaneShared, TypeOK, Using
  <2> QED
    BY <1>1, <1>4, <2>1 DEF Order, JoinsLast
<1>9. AheadCovers'
  <2> SUFFICES ASSUME NEW d \in Caller, pc'[d] \in {"waiting", "running"},
                      NEW e \in entries'[lane'[d]], position'[e] < position'[d]
               PROVE  pc'[d] = "waiting" /\ e \in ahead'[d]
    BY DEF AheadCovers
  <2>1. d # c /\ pc'[d] = pc[d] /\ lane'[d] = lane[d] /\ lane[d] \in LaneObject
    BY <1>1, <1>2, <1>3 DEF Lanes, LaneShared, TypeOK, Using, InLane
  <2>2. d \in entries[lane[d]]
    BY <2>1 DEF Lanes, EntriesExact, InLane
  <2>3. CASE e = c /\ lane[d] = l
    <3>1. position[d] <= position[c]
      BY <1>1, <2>2, <2>3 DEF Order, JoinsLast
    <3>2. position[c] < position[d]
      BY <1>1, <2>3
    <3>3. position[c] \in Nat /\ position[d] \in Nat
      BY PositionAssumption DEF Lanes, TypeOK
    <3> QED
      BY <3>1, <3>2, <3>3
  <2>4. CASE ~(e = c /\ lane[d] = l)
    <3>1. e \in entries[lane[d]]
      BY <1>4, <2>1, <2>4
    <3> QED
      BY <1>1, <2>1, <3>1 DEF Order, AheadCovers
  <2> QED
    BY <2>3, <2>4
<1> QED
  BY <1>6, <1>7, <1>8, <1>9 DEF Order

\* Unlocking frees the mutex of a lane in which nobody else is admitting.
LEMMA OrderUnlock ==
    ASSUME Lanes, Order, Lanes', NEW c \in Caller, Unlock(c)
    PROVE  Order'
<1>1. /\ pc[c] \in {"left", "enrolled"} /\ lane[c] \in LaneObject
      /\ admit' = [admit EXCEPT ![lane[c]] = None]
      /\ UNCHANGED <<entries, ahead>>
  BY DEF Unlock, Lanes, Pointed, TypeOK
<1>2. \A d \in Caller : d # c => /\ pc'[d] = pc[d] /\ lane'[d] = lane[d]
                                /\ full'[d] = full[d] /\ position'[d] = position[d]
  BY DEF Unlock, Lanes, TypeOK
<1>3. /\ pc'[c] \in {"admitted", "idle"}
      /\ pc[c] = "enrolled" => position'[c] = position[c]
  BY <1>1 DEF Unlock, Lanes, TypeOK
<1>4. \A d \in Caller : pc[d] \in Admitting /\ d # c => lane[d] # lane[c] /\ lane[d] \in LaneObject
  BY <1>1, AdmitExclusive DEF Order, Admitting, Lanes, Pointed, TypeOK
<1>5. AdmitHeld'
  BY <1>1, <1>2, <1>3, <1>4 DEF Order, AdmitHeld, Admitting, Lanes, TypeOK
<1>6. \A d \in Caller : pc[d] \in Using => \A e \in entries[lane[d]] :
          e \in Caller /\ position'[e] = position[e]
  <2>1. ASSUME NEW e \in Caller, pc[e] \in InLane
        PROVE  position'[e] = position[e]
    BY <1>1, <1>2, <1>3, <2>1 DEF InLane
  <2>2. \A d \in Caller : pc[d] \in Using => lane[d] \in LaneObject
    BY DEF Lanes, LaneShared, TypeOK
  <2> QED
    BY <2>1, <2>2 DEF Lanes, EntriesExact
<1>7. \A d \in Caller : pc'[d] \in {"recording", "enrolling", "waiting", "running"} => d # c
  BY <1>3
<1>8. Room'
  BY <1>1, <1>2, <1>7 DEF Order, Room
<1>9. JoinsLast'
  BY <1>1, <1>2, <1>6, <1>7 DEF Order, JoinsLast, Using
<1>10. AheadCovers'
  BY <1>1, <1>2, <1>6, <1>7 DEF Order, AheadCovers, Using, InLane
<1> QED
  BY <1>5, <1>8, <1>9, <1>10 DEF Order

\* The snapshot holds every earlier entry of the very lane the ticket is in.
LEMMA OrderWait ==
    ASSUME Lanes, Order, Lanes', NEW c \in Caller, Wait(c)
    PROVE  Order'
<1>1. /\ pc[c] = "admitted" /\ lanes[key[c]] = lane[c]
      /\ ahead' = [ahead EXCEPT ![c] = Earlier(c)]
      /\ pc' = [pc EXCEPT ![c] = IF Earlier(c) = {} THEN "running" ELSE "waiting"]
      /\ UNCHANGED <<admit, entries, lane, full, position>>
  BY DEF Wait, Lanes, LaneShared, Using, InLane
<1>2. \A d \in Caller : d # c => pc'[d] = pc[d] /\ ahead'[d] = ahead[d]
  BY <1>1 DEF Lanes, TypeOK
<1>3. /\ ahead'[c] = Earlier(c)
      /\ pc'[c] = IF Earlier(c) = {} THEN "running" ELSE "waiting"
  BY <1>1 DEF Lanes, TypeOK
<1>4. Earlier(c) = {d \in entries[lane[c]] : position[d] < position[c]}
  BY <1>1 DEF Earlier
<1>5. AdmitHeld' /\ Room' /\ JoinsLast'
  BY <1>1, <1>2, <1>3 DEF Order, AdmitHeld, Room, JoinsLast, Admitting
<1>6. AheadCovers'
  BY <1>1, <1>2, <1>3, <1>4 DEF Order, AheadCovers
<1> QED
  BY <1>5, <1>6 DEF Order

\* With every channel closed no earlier entry is left.
LEMMA OrderDispatch ==
    ASSUME Lanes, Order, Lanes', NEW c \in Caller, Dispatch(c)
    PROVE  Order'
<1>1. /\ pc[c] = "waiting" /\ ahead[c] = {}
      /\ pc' = [pc EXCEPT ![c] = "running"]
      /\ UNCHANGED <<admit, entries, lane, full, position, ahead>>
  BY DEF Dispatch
<1>2. \A d \in Caller : d # c => pc'[d] = pc[d]
  BY <1>1 DEF Lanes, TypeOK
<1>3. pc'[c] = "running"
  BY <1>1 DEF Lanes, TypeOK
<1>4. AdmitHeld' /\ Room' /\ JoinsLast'
  BY <1>1, <1>2, <1>3 DEF Order, AdmitHeld, Room, JoinsLast, Admitting
<1>5. AheadCovers'
  BY <1>1, <1>2, <1>3 DEF Order, AheadCovers
<1> QED
  BY <1>4, <1>5 DEF Order

\* A released ticket leaves its entries and every snapshot at once.
LEMMA OrderRelease ==
    ASSUME Lanes, Order, Lanes', NEW c \in Caller, Release(c)
    PROVE  Order'
<1> DEFINE l == lane[c]
<1>1. /\ l \in LaneObject /\ lanes[key[c]] = l
      /\ pc[c] \in {"admitted", "running", "stopped"}
  BY DEF Release, Lanes, LaneShared, TypeOK, Using, InLane
<1>2. /\ entries' = [entries EXCEPT ![l] = @ \ {c}]
      /\ ahead' = [d \in Caller |-> ahead[d] \ {c}]
      /\ lane' = lane
      /\ pc' = [pc EXCEPT ![c] = "released"]
      /\ UNCHANGED <<admit, full, position>>
  BY <1>1 DEF Release, Lanes, TypeOK
<1>3. \A d \in Caller : d # c => pc'[d] = pc[d]
  BY <1>2 DEF Lanes, TypeOK
<1>4. pc'[c] = "released"
  BY <1>2 DEF Lanes, TypeOK
<1>5. \A m \in LaneObject : /\ entries'[m] \subseteq entries[m]
                            /\ c \notin entries'[m]
                            /\ Cardinality(entries'[m]) \in Nat
                            /\ Cardinality(entries'[m]) <= Cardinality(entries[m])
  <2> TAKE m \in LaneObject
  <2>1. entries'[m] \in SUBSET entries[m] /\ IsFiniteSet(entries[m])
    BY <1>2, EntriesFinite DEF Lanes, TypeOK
  <2>2. IsFiniteSet(entries'[m]) /\ Cardinality(entries'[m]) <= Cardinality(entries[m])
    BY <2>1, FS_Subset
  <2>3. c \notin entries'[m]
    BY <1>1, <1>2 DEF Lanes, EntriesExact, TypeOK
  <2> QED
    BY <2>1, <2>2, <2>3, FS_CardinalityType
<1>6. \A d \in Caller : pc[d] # "idle" => lane[d] \in LaneObject
  BY DEF Lanes, Pointed, TypeOK
<1>7. AdmitHeld'
  BY <1>2, <1>3, <1>4 DEF Order, AdmitHeld, Admitting
<1>8. Room'
  <2>1. \A m \in LaneObject : Cardinality(entries'[m]) <= MaxEntries
    BY <1>5, EntriesFinite, MaxEntriesAssumption DEF Order, Room
  <2>2. ASSUME NEW d \in Caller, pc'[d] = "enrolling" \/ (pc'[d] = "recording" /\ ~full'[d])
        PROVE  Cardinality(entries'[lane'[d]]) < MaxEntries
    <3>1. pc'[d] = pc[d] /\ lane[d] \in LaneObject /\ full'[d] = full[d] /\ lane'[d] = lane[d]
      BY <1>2, <1>3, <1>4, <1>6, <2>2
    <3>2. Cardinality(entries[lane[d]]) < MaxEntries
      BY <2>2, <3>1 DEF Order, Room
    <3> QED
      BY <1>5, <3>1, <3>2, EntriesFinite, MaxEntriesAssumption
  <2> QED
    BY <2>1, <2>2 DEF Room
<1>9. JoinsLast'
  BY <1>2, <1>3, <1>4, <1>5, <1>6 DEF Order, JoinsLast
<1>10. AheadCovers'
  BY <1>2, <1>3, <1>4, <1>5, <1>6 DEF Order, AheadCovers
<1> QED
  BY <1>7, <1>8, <1>9, <1>10 DEF Order

\* Every step keeps Order.
LEMMA OrderNext == IInv /\ [Next]_vars => Order'
<1> SUFFICES ASSUME Lanes, Order, [Next]_vars PROVE Order'
  BY DEF IInv
<1>0. Lanes'
  BY LanesNext
<1>1. ASSUME NEW c \in Caller, NEW k \in Key, Join(c, k) PROVE Order'
  BY <1>0, <1>1, OrderJoin
<1>2. ASSUME NEW c \in Caller, Lock(c) PROVE Order'
  BY <1>0, <1>2, OrderLock
<1>3. ASSUME NEW c \in Caller, ReadFull(c) PROVE Order'
  BY <1>0, <1>3, OrderReadFull
<1>4. ASSUME NEW c \in Caller, NEW p \in Position, RecordEnrolls(c, p) PROVE Order'
  BY <1>0, <1>4, OrderRecord
<1>5. ASSUME NEW c \in Caller, RecordRefuses(c) PROVE Order'
  BY <1>0, <1>5, OrderQuiet DEF RecordRefuses, Lanes, TypeOK, Admitting, InLane
<1>6. ASSUME NEW c \in Caller, Enroll(c) PROVE Order'
  BY <1>0, <1>6, OrderEnroll
<1>7. ASSUME NEW c \in Caller, Refuse(c) PROVE Order'
  BY <1>0, <1>7, OrderQuiet DEF Refuse, Lanes, TypeOK, Admitting, InLane
<1>8. ASSUME NEW c \in Caller, Unlock(c) PROVE Order'
  BY <1>0, <1>8, OrderUnlock
<1>9. ASSUME NEW c \in Caller, Wait(c) PROVE Order'
  BY <1>0, <1>9, OrderWait
<1>10. ASSUME NEW c \in Caller, Dispatch(c) PROVE Order'
  BY <1>0, <1>10, OrderDispatch
<1>11. ASSUME NEW c \in Caller, GiveUp(c) PROVE Order'
  BY <1>0, <1>11, OrderQuiet DEF GiveUp, Lanes, TypeOK, Admitting, InLane
<1>12. ASSUME NEW c \in Caller, Release(c) PROVE Order'
  BY <1>0, <1>12, OrderRelease
<1>13. ASSUME NEW c \in Caller, EndUse(c) PROVE Order'
  BY <1>0, <1>13, OrderQuiet DEF EndUse, Lanes, TypeOK, Admitting, InLane
<1>14. CASE UNCHANGED vars
  BY <1>0, <1>14, OrderQuiet DEF vars
<1> QED
  BY <1>1, <1>2, <1>3, <1>4, <1>5, <1>6, <1>7, <1>8, <1>9, <1>10, <1>11, <1>12, <1>13, <1>14
  DEF Next

\* Order holds at first: nobody admits, holds a ticket or waits.
LEMMA OrderInit == Init => Order
<1> SUFFICES ASSUME Init PROVE Order
  OBVIOUS
<1>1. AdmitHeld /\ JoinsLast /\ AheadCovers
  BY DEF Init, AdmitHeld, JoinsLast, AheadCovers, Admitting
<1>2. Room
  BY FS_EmptySet, MaxEntriesAssumption DEF Init, Room
<1> QED
  BY <1>1, <1>2 DEF Order

\* The inductive invariant of the queue.
THEOREM Invariance == Spec => []IInv
<1>1. Init => IInv
  BY LanesInit, OrderInit DEF IInv
<1>2. IInv /\ [Next]_vars => IInv'
  BY LanesNext, OrderNext DEF IInv
<1> QED
  BY <1>1, <1>2, PTL DEF Spec

\* Every variable of the queue always holds a value of its kind; in particular
\* lane.users never falls below zero, however joins and leaves interleave.
THEOREM TypeCorrect == Spec => []TypeOK
<1>1. IInv => TypeOK
  BY DEF IInv, Lanes
<1> QED
  BY <1>1, Invariance, PTL

\* Every user of a key shares the lane the map holds, for any number of callers
\* and keys: the lookups of Blocked, Wait and Release by key are always safe.
THEOREM LaneSharedHolds == Spec => []LaneShared
<1>1. IInv => LaneShared
  BY DEF IInv, Lanes
<1> QED
  BY <1>1, Invariance, PTL

\* Record never runs twice at once for one key.
THEOREM AdmissionsSerializedHolds == Spec => []AdmissionsSerialized
<1>1. IInv => AdmissionsSerialized
  <2> SUFFICES ASSUME IInv, NEW c \in Caller, NEW d \in Caller, key[c] = key[d],
                      pc[c] \in {"recording", "enrolling"}, pc[d] \in {"recording", "enrolling"}
               PROVE  c = d
    BY DEF AdmissionsSerialized
  <2>1. lane[c] = lane[d]
    BY DEF IInv, Lanes, LaneShared, Using
  <2> QED
    BY <2>1, AdmitExclusive DEF IInv, Order, Admitting
<1> QED
  BY <1>1, Invariance, PTL

\* The tickets of one key are the entries of its lane.
LEMMA KeyEntries ==
    ASSUME Lanes, NEW c \in Caller, pc[c] \in Using
    PROVE  {d \in Caller : pc[d] \in InLane /\ key[d] = key[c]} = entries[lane[c]]
<1>1. lane[c] \in LaneObject /\ lanes[key[c]] = lane[c] /\ lane[c] # None /\ key[c] \in Key
  BY DEF Lanes, LaneShared, TypeOK
<1>2. \A d \in Caller : pc[d] \in InLane => (key[d] = key[c] <=> lane[d] = lane[c])
  BY <1>1 DEF Lanes, LaneShared, LanesApart, TypeOK, Using
<1> QED
  BY <1>1, <1>2 DEF Lanes, EntriesExact

\* No key ever holds more tickets than the bound.
THEOREM BoundHeldHolds == Spec => []BoundHeld
<1>1. IInv => BoundHeld
  <2> SUFFICES ASSUME IInv, NEW k \in Key
               PROVE  Cardinality({c \in Caller : pc[c] \in InLane /\ key[c] = k}) <= MaxEntries
    BY DEF BoundHeld
  <2> DEFINE held == {c \in Caller : pc[c] \in InLane /\ key[c] = k}
  <2>1. CASE held = {}
    BY <2>1, FS_EmptySet, MaxEntriesAssumption
  <2>2. CASE held # {}
    <3>1. PICK c \in Caller : pc[c] \in InLane /\ key[c] = k
      BY <2>2
    <3>2. held = entries[lane[c]] /\ lane[c] \in LaneObject
      BY <3>1, KeyEntries DEF IInv, Lanes, LaneShared, TypeOK, Using
    <3> QED
      BY <3>2 DEF IInv, Order, Room
  <2> QED
    BY <2>1, <2>2
<1> QED
  BY <1>1, Invariance, PTL

\* Nothing earlier is left ahead of a runner.
LEMMA OrderHolds == IInv => InPositionOrder
<1> SUFFICES ASSUME IInv, NEW c \in Caller, NEW d \in Caller,
                    pc[c] = "running", pc[d] \in InLane, key[d] = key[c]
             PROVE  position[c] <= position[d]
  BY DEF InPositionOrder
<1>1. d \in entries[lane[c]]
  BY KeyEntries DEF IInv, Using, InLane
<1>2. ~(position[d] < position[c])
  BY <1>1 DEF IInv, Order, AheadCovers
<1>3. position[c] \in Nat /\ position[d] \in Nat
  BY PositionAssumption DEF IInv, Lanes, TypeOK
<1> QED
  BY <1>2, <1>3

\* An entry runs only when no entry of its key holds an earlier position.
THEOREM InPositionOrderHolds == Spec => []InPositionOrder
BY Invariance, OrderHolds, PTL

\* A key keeps a lane only while callers use it, and users counts them.
THEOREM NoIdleLaneHolds == Spec => []NoIdleLane
<1>1. IInv => NoIdleLane
  <2> SUFFICES ASSUME IInv, NEW k \in Key, lanes[k] # None
               PROVE  /\ users[lanes[k]] = Cardinality({c \in Caller : pc[c] \in Using /\ key[c] = k})
                      /\ users[lanes[k]] > 0
    BY DEF NoIdleLane
  <2>1. lanes[k] \in LaneObject
    BY DEF IInv, Lanes, TypeOK
  <2>2. \A c \in Caller : pc[c] \in Using => (key[c] = k <=> lane[c] = lanes[k])
    BY DEF IInv, Lanes, LaneShared, LanesApart, TypeOK
  <2>3. {c \in Caller : pc[c] \in Using /\ key[c] = k} = UsersOf[lanes[k]]
    BY <2>1, <2>2 DEF UsersOf
  <2>4. users[lanes[k]] = Cardinality(UsersOf[lanes[k]]) /\ UsersOf[lanes[k]] # {}
    BY <2>1 DEF IInv, Lanes, UsersExact
  <2>5. IsFiniteSet(UsersOf[lanes[k]]) /\ Cardinality(UsersOf[lanes[k]]) \in Nat
    BY <2>1, UsersFinite
  <2> QED
    BY <2>3, <2>4, <2>5, FS_EmptySet
<1> QED
  BY <1>1, Invariance, PTL
--------------------------------------------------------------------------------
(* The queue implements PositionOrder. *)

\* The callers that hold a place of a lane are those with a ticket in it.
LEMMA HeldIs ==
    ASSUME TypeOK
    PROVE  /\ \A c \in Caller : pc[c] \in InLane <=> HeldPlace[c] # None
           /\ \A c \in Caller : pc[c] \in InLane =>
                 HeldPlace[c].key = key[c] /\ HeldPlace[c].position = position[c]
           /\ \A k \in Key : Abstract!Held(k) = {c \in Caller : pc[c] \in InLane /\ key[c] = k}
<1>1. \A c \in Caller : [key |-> key[c], position |-> position[c]] # None
  BY NoneAssumption DEF TypeOK
<1>2. \A c \in Caller : pc[c] \in InLane <=> HeldPlace[c] # None
  BY <1>1 DEF HeldPlace
<1>3. \A c \in Caller : pc[c] \in InLane =>
         HeldPlace[c].key = key[c] /\ HeldPlace[c].position = position[c]
  BY DEF HeldPlace
<1>4. ASSUME NEW k \in Key
      PROVE  Abstract!Held(k) = {c \in Caller : pc[c] \in InLane /\ key[c] = k}
  BY <1>2, <1>3 DEF Abstract!Held
<1> QED
  BY <1>2, <1>3, <1>4

\* A step that moves no ticket in, out or into running is a stutter.
LEMMA Stutters ==
    ASSUME TypeOK, TypeOK', NEW c \in Caller,
           \A d \in Caller : d # c => /\ pc'[d] = pc[d] /\ key'[d] = key[d]
                                      /\ position'[d] = position[d],
           pc'[c] \in InLane <=> pc[c] \in InLane,
           pc[c] \in InLane => key'[c] = key[c] /\ position'[c] = position[c],
           pc'[c] = "running" <=> pc[c] = "running"
    PROVE  UNCHANGED Abstract!vars
<1>1. HeldPlace' = HeldPlace
  BY DEF HeldPlace
<1>2. Dispatched' = Dispatched
  BY DEF Dispatched
<1> QED
  BY <1>1, <1>2 DEF Abstract!vars

\* Enrolling a ticket joins its place.
LEMMA EnrollJoins ==
    ASSUME IInv, IInv', NEW c \in Caller, Enroll(c)
    PROVE  Abstract!Join(c, key[c], position[c])
<1>1. TypeOK /\ pc[c] = "enrolling" /\ pc[c] \in Using /\ key[c] \in Key
  BY DEF IInv, Lanes, Enroll, TypeOK, Using
<1>2. /\ pc' = [pc EXCEPT ![c] = "enrolled"]
      /\ UNCHANGED <<key, position>>
  BY DEF Enroll
<1>3. HeldPlace[c] = None
  BY <1>1 DEF HeldPlace, InLane
<1>4. Abstract!Held(key[c]) = entries[lane[c]]
  BY <1>1, HeldIs, KeyEntries DEF IInv
<1>5. Cardinality(Abstract!Held(key[c])) < MaxEntries
  BY <1>1, <1>4 DEF IInv, Order, Room
<1>6. \A f \in Abstract!Held(key[c]) : HeldPlace[f].position <= position[c]
  <2>1. \A f \in entries[lane[c]] : f \in Caller /\ pc[f] \in InLane /\ position[f] <= position[c]
    BY <1>1, KeyEntries DEF IInv, Order, JoinsLast
  <2>2. \A f \in entries[lane[c]] : HeldPlace[f].position = position[f]
    BY <1>1, <2>1, HeldIs
  <2> QED
    BY <1>4, <2>1, <2>2
<1>7. HeldPlace' = [HeldPlace EXCEPT ![c] = [key |-> key[c], position |-> position[c]]]
  BY <1>1, <1>2 DEF HeldPlace, TypeOK, InLane
<1>8. Dispatched' = Dispatched
  BY <1>1, <1>2 DEF Dispatched, TypeOK
<1>9. Abstract!Cardinality(Abstract!Held(key[c])) = Cardinality(Abstract!Held(key[c]))
  BY DEF Abstract!Cardinality, Cardinality
<1> QED
  BY <1>3, <1>5, <1>6, <1>7, <1>8, <1>9 DEF Abstract!Join

\* The end of a wait runs the entry.
LEMMA DispatchRuns ==
    ASSUME IInv, IInv', NEW c \in Caller, pc[c] \in {"admitted", "waiting"},
           pc' = [pc EXCEPT ![c] = "running"], UNCHANGED <<key, position>>
    PROVE  Abstract!Run(c)
<1>1. TypeOK /\ pc[c] \in InLane /\ pc[c] # "running" /\ key[c] \in Key
  BY DEF IInv, Lanes, TypeOK, InLane
<1>2. HeldPlace[c] # None /\ HeldPlace[c].key = key[c] /\ HeldPlace[c].position = position[c]
  BY <1>1, HeldIs
<1>3. c \notin Dispatched /\ Dispatched' = Dispatched \cup {c}
  BY <1>1 DEF Dispatched, TypeOK
<1>4. HeldPlace' = HeldPlace
  BY <1>1 DEF HeldPlace, TypeOK, InLane
<1>5. \A f \in Abstract!Held(key[c]) : position[c] <= HeldPlace[f].position
  <2>1. \A f \in Abstract!Held(key[c]) : f \in Caller /\ pc[f] \in InLane /\ key[f] = key[c]
    BY <1>1, HeldIs
  <2>2. \A f \in Caller : pc[f] \in InLane /\ key[f] = key[c] => position[c] <= position[f]
    <3>1. (IInv => InPositionOrder)'
      BY OrderHolds, PTL
    <3>2. pc'[c] = "running" /\ \A f \in Caller : pc[f] \in InLane => pc'[f] \in InLane
      BY <1>1 DEF TypeOK, InLane
    <3> QED
      BY <3>1, <3>2 DEF InPositionOrder
  <2> QED
    BY <1>1, <2>1, <2>2, HeldIs
<1> QED
  BY <1>2, <1>3, <1>4, <1>5 DEF Abstract!Run

\* Releasing a ticket leaves its place.
LEMMA ReleaseLeaves ==
    ASSUME IInv, IInv', NEW c \in Caller, Release(c)
    PROVE  Abstract!Leave(c)
<1>1. TypeOK /\ pc[c] \in InLane
  BY DEF IInv, Lanes, Release, InLane
<1>2. /\ pc' = [pc EXCEPT ![c] = "released"]
      /\ UNCHANGED <<key, position>>
  BY DEF Release
<1>3. HeldPlace[c] # None
  BY <1>1, HeldIs
<1>4. HeldPlace' = [HeldPlace EXCEPT ![c] = None]
  BY <1>1, <1>2 DEF HeldPlace, TypeOK, InLane
<1>5. Dispatched' = Dispatched \ {c}
  BY <1>1, <1>2 DEF Dispatched, TypeOK
<1> QED
  BY <1>3, <1>4, <1>5 DEF Abstract!Leave

\* Every step of the queue is a step of PositionOrder, or none.
LEMMA StepMaps == IInv /\ IInv' /\ [Next]_vars => [Abstract!Next]_(Abstract!vars)
<1> SUFFICES ASSUME IInv, IInv', [Next]_vars
             PROVE  Abstract!Next \/ UNCHANGED Abstract!vars
  OBVIOUS
<1>0. TypeOK /\ TypeOK'
  BY DEF IInv, Lanes
<1>1. ASSUME NEW c \in Caller, NEW k \in Key, Join(c, k) PROVE UNCHANGED Abstract!vars
  BY <1>0, <1>1, Stutters DEF Join, TypeOK, InLane
<1>2. ASSUME NEW c \in Caller, Lock(c) PROVE UNCHANGED Abstract!vars
  BY <1>0, <1>2, Stutters DEF Lock, TypeOK, InLane
<1>3. ASSUME NEW c \in Caller, ReadFull(c) PROVE UNCHANGED Abstract!vars
  BY <1>0, <1>3, Stutters DEF ReadFull, TypeOK, InLane
<1>4. ASSUME NEW c \in Caller, NEW p \in Position, RecordEnrolls(c, p) PROVE UNCHANGED Abstract!vars
  BY <1>0, <1>4, Stutters DEF RecordEnrolls, TypeOK, InLane
<1>5. ASSUME NEW c \in Caller, RecordRefuses(c) PROVE UNCHANGED Abstract!vars
  BY <1>0, <1>5, Stutters DEF RecordRefuses, TypeOK, InLane
<1>6. ASSUME NEW c \in Caller, Enroll(c) PROVE Abstract!Next
  <2>1. Abstract!Join(c, key[c], position[c])
    BY <1>6, EnrollJoins
  <2> QED
    BY <1>0, <2>1 DEF Abstract!Next, TypeOK
<1>7. ASSUME NEW c \in Caller, Refuse(c) PROVE UNCHANGED Abstract!vars
  BY <1>0, <1>7, Stutters DEF Refuse, TypeOK, InLane
<1>8. ASSUME NEW c \in Caller, Unlock(c) PROVE UNCHANGED Abstract!vars
  BY <1>0, <1>8, Stutters DEF Unlock, TypeOK, InLane
<1>9. ASSUME NEW c \in Caller, Wait(c) PROVE Abstract!Next \/ UNCHANGED Abstract!vars
  <2>1. CASE Earlier(c) = {}
    <3>1. Abstract!Run(c)
      BY <1>9, <2>1, DispatchRuns DEF Wait
    <3> QED
      BY <3>1 DEF Abstract!Next
  <2>2. CASE Earlier(c) # {}
    BY <1>0, <1>9, <2>2, Stutters DEF Wait, TypeOK, InLane
  <2> QED
    BY <2>1, <2>2
<1>10. ASSUME NEW c \in Caller, Dispatch(c) PROVE Abstract!Next
  <2>1. Abstract!Run(c)
    BY <1>10, DispatchRuns DEF Dispatch
  <2> QED
    BY <2>1 DEF Abstract!Next
<1>11. ASSUME NEW c \in Caller, GiveUp(c) PROVE UNCHANGED Abstract!vars
  BY <1>0, <1>11, Stutters DEF GiveUp, TypeOK, InLane
<1>12. ASSUME NEW c \in Caller, Release(c) PROVE Abstract!Next
  BY <1>12, ReleaseLeaves DEF Abstract!Next
<1>13. ASSUME NEW c \in Caller, EndUse(c) PROVE UNCHANGED Abstract!vars
  BY <1>0, <1>13, Stutters DEF EndUse, TypeOK, InLane
<1>14. CASE UNCHANGED vars
  BY <1>14 DEF vars, Abstract!vars, HeldPlace, Dispatched
<1> QED
  BY <1>1, <1>2, <1>3, <1>4, <1>5, <1>6, <1>7, <1>8, <1>9, <1>10, <1>11, <1>12, <1>13, <1>14
  DEF Next

\* With its lanes, mutexes and channels the queue does what PositionOrder
\* promises: joins in position order within the bound, runs in position order.
THEOREM QueueImplementsOrder == Spec => KeepsPositionOrder
<1>1. Init => Abstract!Init
  BY DEF Init, Abstract!Init, HeldPlace, Dispatched, InLane
<1>2. IInv /\ IInv' /\ [Next]_vars => [Abstract!Next]_(Abstract!vars)
  BY StepMaps
<1> QED
  BY <1>1, <1>2, Invariance, PTL DEF Spec, KeepsPositionOrder, Abstract!Spec
================================================================================
