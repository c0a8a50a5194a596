------------------------ MODULE AttemptJournal_proofs ------------------------
(***************************************************************************)
(* Proofs about the application journal, for any attempts, episodes, keys, *)
(* evidence bound and clock: what Store keeps is proved once, and shared   *)
(* by a caller's call, by recovery, and by a recovery that fails after its *)
(* commit.                                                                 *)
(***************************************************************************)
EXTENDS AttemptJournal, TLAPS

\* A request as callers and recovery make it: only a begin expects no revision, an
\* observation brings a report, and the key of an interruption interrupts.
Sensible == {q \in RequestRows : /\ q.action = "begin" <=> q.expected = 0
                                 /\ q.action = "observe" => q.report \in Reports
                                 /\ \A a \in Attempts : q.key = InterruptKey[a] =>
                                       q.action = "interrupt" /\ q.attempt = a}

\* A live operation points at a revision its episode has.
OperationsLinked ==
    \A k \in Keys : operations[k] # None /\ operations[k].request # None =>
        /\ operations[k].request.episode = operations[k].episode
        /\ operations[k].episode \notin forgotten =>
              operations[k].revision <= Held(operations[k].episode)

\* The key of an answer is never free again.
AnswersRecorded == \A given \in answered : operations[given[1].key] # None

\* A deleted episode holds nothing.
ForgottenEmpty == \A e \in forgotten : revisions[e] = <<>>

\* What was dispatched is not prepared any more.
SentKnown == \A e \in Episodes : \A n \in 1..Held(e) :
                revisions[e][n].sent => revisions[e][n].phase # "prepared"

\* The inductive invariant.
Sound == /\ TypeOK
         /\ OneClaimEach
         /\ OperationsLinked
         /\ AnswersRecorded
         /\ ForgottenEmpty
         /\ OneEffectPerOperation
         /\ SameAnswer
         /\ SentKnown

\* An interruption whose key is used left its attempt interrupted or settled.
InterruptedByKey ==
    \A a \in Attempts : \A e \in Episodes :
        /\ operations[InterruptKey[a]] # None
        /\ operations[InterruptKey[a]].revision > 0
        /\ operations[InterruptKey[a]].episode = e
        => /\ claim[e] = a /\ e \notin forgotten /\ Held(e) > 0
           /\ Current(e).phase \in {"interrupted", "settled"}

\* What recovery has to mark: rows it looked at that nobody changed since.
Open(e) == Unsettled(e) /\ claim[e] \in Recoverable /\ e \notin recovery.touched
Found(e) == [episode |-> e, attempt |-> claim[e], revision |-> Held(e)]

\* Recovery holds every such row, as it stands.
NothingMissed ==
    /\ recovery.stage = "off" => recovery.cursor = 0
    /\ \A e \in 1..recovery.cursor : Open(e) =>
          \E i \in 1..Len(recovery.listed) : recovery.listed[i] = Found(e)

\* The inductive invariant of recovery.
Covered == InterruptedByKey /\ NothingMissed

-----------------------------------------------------------------------------
(* Requests and snapshots. *)

\* A caller's request is sensible.
LEMMA RequestsSensible == \A q \in Requests : q \in Sensible
<1> SUFFICES ASSUME NEW q \in Requests PROVE q \in Sensible
  OBVIOUS
<1>1. Expected \subseteq Nat \ {0} /\ Free \subseteq Keys
  BY EvidenceAssumption DEF Expected, Keys
<1>2. \A a \in Attempts : InterruptKey[a] \in Keys
  BY DEF Keys
<1>3. CASE q \in RequestsOf({"begin"}, Free, Attempts, {0}, {None})
  BY <1>1, <1>3, KeysAssumption DEF RequestsOf, Sensible, RequestRows, Actions
<1>4. CASE q \in RequestsOf({"dispatch", "interrupt"}, Free, Attempts, Expected, {None})
  BY <1>1, <1>4, KeysAssumption DEF RequestsOf, Sensible, RequestRows, Actions
<1>5. CASE q \in RequestsOf({"observe"}, Free, Attempts, Expected, Reports)
  BY <1>1, <1>5, KeysAssumption DEF RequestsOf, Sensible, RequestRows, Actions
<1>6. ASSUME NEW a \in Attempts,
             q \in RequestsOf({"interrupt"}, {InterruptKey[a]}, {a}, Expected, {None})
      PROVE  q \in Sensible
  BY <1>1, <1>2, <1>6, KeysAssumption DEF RequestsOf, Sensible, RequestRows, Actions
<1> QED
  BY <1>3, <1>4, <1>5, <1>6 DEF Requests

\* The parts of a sensible request.
LEMMA SensibleParts ==
  ASSUME NEW q \in Sensible
  PROVE  /\ q \in RequestRows /\ q # None /\ q.action \in Actions /\ q.key \in Keys
         /\ q.episode \in Episodes /\ q.attempt \in Attempts /\ q.attempt # None
<1>1. q \in RequestRows
  BY DEF Sensible
<1> QED
  BY <1>1, RowsAssumption, KeysAssumption DEF RequestRows

\* Recovery's interruption of an attempt it listed is sensible.
LEMMA MarkSensible ==
  ASSUME NEW m \in [episode : Episodes, attempt : Attempts, revision : Nat \ {0}]
  PROVE  MarkRequest(m) \in Sensible
BY KeysAssumption DEF MarkRequest, Sensible, RequestRows, Actions, Keys

\* The current snapshot is a snapshot.
LEMMA CurrentSnapshot ==
  ASSUME TypeOK, NEW e \in Episodes, Held(e) > 0
  PROVE  Current(e) \in Snapshots /\ Held(e) \in Nat /\ Held(e) \in 1..Held(e)
BY DEF TypeOK, Current, Held

\* A stored request has a current snapshot unless it begins.
LEMMA StoredHolds ==
  ASSUME TypeOK, NEW q \in Sensible, Store(q)
  PROVE  /\ q \in RequestRows
         /\ Held(q.episode) \in Nat
         /\ q.action = "begin" <=> Held(q.episode) = 0
         /\ q.action # "begin" => Held(q.episode) > 0
BY DEF Sensible, RequestRows, Store, Matches, TypeOK, Held

\* What a stored request writes is a snapshot, and keeps what was sent known.
LEMMA WrittenSnapshot ==
  ASSUME TypeOK, SentKnown, NEW q \in Sensible, Store(q)
  PROVE  /\ Written(q) \in Snapshots
         /\ Written(q).by = q.key
         /\ Written(q).sent => Written(q).phase # "prepared"
<1>1. /\ q \in RequestRows /\ q.key \in Keys /\ q.episode \in Episodes /\ clock \in Time
      /\ q.action \in Actions
  BY StoredHolds DEF RequestRows, TypeOK
<1>2. CASE q.action = "begin"
  BY <1>1, <1>2 DEF Written, Snapshots
<1>3. CASE q.action # "begin"
  <2>1. /\ Current(q.episode) \in Snapshots
        /\ Current(q.episode).sent => Current(q.episode).phase # "prepared"
    BY <1>1, <1>3, StoredHolds, CurrentSnapshot DEF SentKnown, Current
  <2>2. CASE q.action = "dispatch"
    BY <1>1, <2>1, <2>2 DEF Written, Snapshots
  <2>3. CASE q.action = "interrupt"
    BY <1>1, <2>1, <2>3 DEF Written, Snapshots
  <2>4. CASE q.action = "observe"
    <3>1. q.report \in Reports
      BY <2>4 DEF Sensible
    <3> QED
      BY <1>1, <2>1, <2>4, <3>1 DEF Written, Snapshots, Reports
  <2> QED
    BY <1>1, <1>3, <2>2, <2>3, <2>4 DEF Actions
<1> QED
  BY <1>2, <1>3

-----------------------------------------------------------------------------
(* What a stored request leaves. *)

\* Store writes one operation row, at the last revision of its episode, and at
\* most one snapshot, after the others.
LEMMA StoreRows ==
  ASSUME TypeOK, SentKnown, NEW q \in Sensible, Store(q)
  PROVE  /\ claim' = [claim EXCEPT ![q.episode] = q.attempt]
         /\ forgotten' = forgotten
         /\ revisions' \in [Episodes -> Seq(Snapshots)]
         /\ operations' \in [Keys -> OperationRows \cup {None}]
         /\ operations'[q.key] = [episode |-> q.episode, request |-> q,
                                  revision |-> Len(revisions'[q.episode])]
         /\ operations'[q.key] # None
         /\ \A k \in Keys : k # q.key => operations'[k] = operations[k]
         /\ \A e \in Episodes : e # q.episode => revisions'[e] = revisions[e]
         /\ \/ /\ ~Changes(q) /\ revisions'[q.episode] = revisions[q.episode]
               /\ Held(q.episode) > 0
            \/ Changes(q) /\ revisions'[q.episode] = Append(revisions[q.episode], Written(q))
<1> DEFINE history == IF Changes(q) THEN Append(revisions[q.episode], Written(q))
                                    ELSE revisions[q.episode]
           row == [episode |-> q.episode, request |-> q, revision |-> Len(history)]
<1>1. /\ q \in RequestRows /\ q.key \in Keys /\ q.episode \in Episodes
  BY StoredHolds DEF RequestRows
<1>2. /\ revisions \in [Episodes -> Seq(Snapshots)]
      /\ operations \in [Keys -> OperationRows \cup {None}]
  BY DEF TypeOK
<1>3. /\ revisions' = [revisions EXCEPT ![q.episode] = history]
      /\ operations' = [operations EXCEPT ![q.key] = row]
      /\ claim' = [claim EXCEPT ![q.episode] = q.attempt]
      /\ forgotten' = forgotten
  BY DEF Store
<1>4. revisions[q.episode] \in Seq(Snapshots)
  BY <1>1, <1>2
<1>5. history \in Seq(Snapshots)
  BY <1>4, WrittenSnapshot
<1>6. row \in OperationRows /\ row # None
  <2>1. Len(history) \in Nat
    BY <1>5
  <2>2. row \in OperationRows
    BY <1>1, <2>1 DEF OperationRows
  <2> QED
    BY <2>2, RowsAssumption
<1>7. revisions'[q.episode] = history /\ operations'[q.key] = row
  BY <1>1, <1>2, <1>3
<1>8. Changes(q) \/ Held(q.episode) > 0
  BY StoredHolds DEF Changes
<1>9. /\ \A k \in Keys : k # q.key => operations'[k] = operations[k]
      /\ \A e \in Episodes : e # q.episode => revisions'[e] = revisions[e]
  BY <1>2, <1>3
<1>10. /\ revisions' \in [Episodes -> Seq(Snapshots)]
       /\ operations' \in [Keys -> OperationRows \cup {None}]
  <2> HIDE DEF history, row
  <2> QED
    BY <1>2, <1>3, <1>5, <1>6
<1> QED
  BY <1>3, <1>6, <1>7, <1>8, <1>9, <1>10

\* An episode only grows, by the one snapshot written.
LEMMA StoreGrows ==
  ASSUME TypeOK, SentKnown, NEW q \in Sensible, Store(q)
  PROVE  /\ Len(revisions'[q.episode]) > 0
         /\ \A e \in Episodes :
               /\ Held(e) \in Nat /\ Len(revisions'[e]) \in Nat /\ Len(revisions'[e]) >= Held(e)
               /\ \A n \in 1..Held(e) : revisions'[e][n] = revisions[e][n]
               /\ \A n \in 1..Len(revisions'[e]) : n \notin 1..Held(e) =>
                     e = q.episode /\ n = Len(revisions'[e]) /\ revisions'[e][n] = Written(q)
<1>1. revisions \in [Episodes -> Seq(Snapshots)] /\ q.episode \in Episodes
  BY StoredHolds DEF RequestRows, TypeOK
<1>2. Written(q) \in Snapshots
  BY WrittenSnapshot
<1>3. ASSUME NEW e \in Episodes, revisions'[e] = revisions[e]
      PROVE  /\ Held(e) \in Nat /\ Len(revisions'[e]) \in Nat /\ Len(revisions'[e]) >= Held(e)
             /\ \A n \in 1..Held(e) : revisions'[e][n] = revisions[e][n]
             /\ \A n \in 1..Len(revisions'[e]) : n \in 1..Held(e)
  BY <1>1, <1>3 DEF Held
<1>4. CASE revisions'[q.episode] = Append(revisions[q.episode], Written(q))
  <2>1. /\ Held(q.episode) \in Nat
        /\ Len(revisions'[q.episode]) = Held(q.episode) + 1
        /\ \A n \in 1..Held(q.episode) : revisions'[q.episode][n] = revisions[q.episode][n]
        /\ revisions'[q.episode][Held(q.episode) + 1] = Written(q)
    BY <1>1, <1>2, <1>4 DEF Held
  <2>2. \A n \in 1..Len(revisions'[q.episode]) : n \notin 1..Held(q.episode) =>
           n = Len(revisions'[q.episode])
    BY <2>1
  <2>3. \A e \in Episodes : e # q.episode => revisions'[e] = revisions[e]
    BY StoreRows
  <2>4. Len(revisions'[q.episode]) > 0 /\ Len(revisions'[q.episode]) \in Nat
    BY <2>1
  <2>5. SUFFICES ASSUME NEW e \in Episodes
                 PROVE  /\ Held(e) \in Nat /\ Len(revisions'[e]) \in Nat
                        /\ Len(revisions'[e]) >= Held(e)
                        /\ \A n \in 1..Held(e) : revisions'[e][n] = revisions[e][n]
                        /\ \A n \in 1..Len(revisions'[e]) : n \notin 1..Held(e) =>
                              /\ e = q.episode /\ n = Len(revisions'[e])
                              /\ revisions'[e][n] = Written(q)
    BY <2>4
  <2>6. CASE e # q.episode
    BY <1>3, <2>3, <2>6
  <2>7. CASE e = q.episode
    BY <2>1, <2>2, <2>4, <2>7
  <2> QED
    BY <2>6, <2>7
<1>5. CASE revisions'[q.episode] = revisions[q.episode] /\ Held(q.episode) > 0
  <2>1. \A e \in Episodes : revisions'[e] = revisions[e]
    BY <1>5, StoreRows
  <2> QED
    BY <1>1, <1>3, <1>5, <2>1 DEF Held
<1> QED
  BY <1>4, <1>5, StoreRows

\* The claims stay one each.
LEMMA StoreClaims ==
  ASSUME Sound, NEW q \in Sensible, Store(q)
  PROVE  OneClaimEach'
<1>0. TypeOK /\ SentKnown
  BY DEF Sound
<1>1. /\ claim \in [Episodes -> Attempts \cup {None}]
      /\ claim' = [claim EXCEPT ![q.episode] = q.attempt]
      /\ forgotten' = forgotten
      /\ q.episode \in Episodes /\ q.attempt \in Attempts /\ q.attempt # None
  <2>1. claim \in [Episodes -> Attempts \cup {None}]
    BY <1>0 DEF TypeOK
  <2> QED
    BY <1>0, <2>1, StoreRows, SensibleParts
<1>2. \A e \in Episodes : claim[e] = q.attempt => e = q.episode
  BY DEF Store, Matches
<1>3. \A e, f \in Episodes : claim'[e] = claim'[f] /\ claim'[e] # None => e = f
  BY <1>1, <1>2 DEF Sound, OneClaimEach
<1>4. revisions'[q.episode] # <<>>
  BY <1>0, <1>1, StoreGrows
<1>5. \A e \in Episodes : e # q.episode => revisions'[e] = revisions[e]
  BY <1>0, StoreRows
<1>6. \A e \in Episodes : claim'[e] # None <=> (revisions'[e] # <<>> \/ e \in forgotten')
  BY <1>1, <1>4, <1>5 DEF Sound, OneClaimEach
<1> QED
  BY <1>3, <1>6 DEF OneClaimEach

\* What is stored has the operation that wrote it: a key is used once.
LEMMA StoreEffects ==
  ASSUME Sound, NEW q \in Sensible, Store(q)
  PROVE  OneEffectPerOperation'
<1>1. /\ TypeOK /\ SentKnown /\ operations[q.key] = None /\ q.key \in Keys
      /\ revisions \in [Episodes -> Seq(Snapshots)]
  BY SensibleParts DEF Sound, TypeOK, Store
<1>2. SUFFICES ASSUME NEW e \in Episodes, NEW n \in 1..Len(revisions'[e])
               PROVE  LET k == revisions'[e][n].by IN
                      operations'[k] # None /\ operations'[k].episode = e
                      /\ operations'[k].revision = n
  BY DEF OneEffectPerOperation, Held
<1>3. CASE n \in 1..Held(e)
  <2> DEFINE k == revisions[e][n].by
  <2>1. revisions'[e][n] = revisions[e][n]
    BY <1>1, <1>3, StoreGrows
  <2>2. operations[k] # None /\ operations[k].episode = e /\ operations[k].revision = n
    BY <1>3 DEF Sound, OneEffectPerOperation
  <2>3. revisions[e][n] \in Snapshots
    BY <1>1, <1>3 DEF Held
  <2>4. k \in Keys /\ k # q.key
    BY <1>1, <2>2, <2>3 DEF Snapshots
  <2>5. operations'[k] = operations[k]
    BY <1>1, <2>4, StoreRows
  <2> QED
    BY <2>1, <2>2, <2>5
<1>4. CASE n \notin 1..Held(e)
  <2>1. e = q.episode /\ n = Len(revisions'[e]) /\ revisions'[e][n] = Written(q)
    BY <1>1, <1>4, StoreGrows
  <2>2. Written(q).by = q.key
    BY <1>1, WrittenSnapshot
  <2>3. operations'[q.key] # None /\ operations'[q.key].episode = q.episode
        /\ operations'[q.key].revision = Len(revisions'[q.episode])
    <3>1. operations'[q.key] # None
      BY <1>1, StoreRows
    <3>2. operations'[q.key] = [episode |-> q.episode, request |-> q,
                                revision |-> Len(revisions'[q.episode])]
      BY <1>1, StoreRows
    <3> QED
      BY <3>1, <3>2
  <2> QED
    BY <2>1, <2>2, <2>3
<1> QED
  BY <1>3, <1>4

\* Operations stay linked, deleted episodes stay empty, what was sent stays known.
LEMMA StoreLinks ==
  ASSUME Sound, NEW q \in Sensible, Store(q)
  PROVE  OperationsLinked' /\ ForgottenEmpty' /\ SentKnown'
<1>1. /\ TypeOK /\ SentKnown /\ q.key \in Keys /\ q.episode \in Episodes
      /\ q \in RequestRows /\ q # None /\ q.episode \notin forgotten /\ forgotten' = forgotten
      /\ forgotten \subseteq Episodes
  <2>1. TypeOK /\ SentKnown
    BY DEF Sound
  <2>2. q.episode \notin forgotten /\ forgotten \subseteq Episodes
    BY <2>1 DEF Store, TypeOK
  <2> QED
    BY <2>1, <2>2, SensibleParts, StoreRows
<1>2. OperationsLinked'
  <2>1. SUFFICES ASSUME NEW k \in Keys, operations'[k] # None, operations'[k].request # None
                 PROVE  /\ operations'[k].request.episode = operations'[k].episode
                        /\ operations'[k].episode \notin forgotten =>
                              operations'[k].revision <= Len(revisions'[operations'[k].episode])
    BY <1>1 DEF OperationsLinked, Held
  <2>2. CASE k = q.key
    <3>1. operations'[k] = [episode |-> q.episode, request |-> q,
                            revision |-> Len(revisions'[q.episode])]
      BY <1>1, <2>2, StoreRows
    <3>2. Len(revisions'[q.episode]) \in Nat
      BY <1>1, StoreGrows
    <3> QED
      BY <3>1, <3>2
  <2>3. CASE k # q.key
    <3>1. operations'[k] = operations[k]
      BY <1>1, <2>3, StoreRows
    <3>2. operations[k] \in OperationRows
      BY <2>1, <3>1 DEF Sound, TypeOK
    <3>3. operations[k].episode \in Episodes /\ operations[k].revision \in Nat
      BY <3>2 DEF OperationRows
    <3>4. /\ Held(operations[k].episode) \in Nat
          /\ Len(revisions'[operations[k].episode]) \in Nat
          /\ Len(revisions'[operations[k].episode]) >= Held(operations[k].episode)
      BY <1>1, <3>3, StoreGrows
    <3> QED
      BY <2>1, <3>1, <3>3, <3>4 DEF Sound, OperationsLinked
  <2> QED
    BY <2>2, <2>3
<1>3. ForgottenEmpty'
  BY <1>1, StoreRows DEF Sound, ForgottenEmpty
<1>4. SentKnown'
  <2>1. SUFFICES ASSUME NEW e \in Episodes, NEW n \in 1..Len(revisions'[e])
                 PROVE  revisions'[e][n].sent => revisions'[e][n].phase # "prepared"
    BY DEF SentKnown, Held
  <2>2. CASE n \in 1..Held(e)
    BY <1>1, <2>2, StoreGrows DEF SentKnown
  <2>3. CASE n \notin 1..Held(e)
    BY <1>1, <2>3, StoreGrows, WrittenSnapshot
  <2> QED
    BY <2>2, <2>3
<1> QED
  BY <1>2, <1>3, <1>4

\* What was answered stands.
LEMMA StoreAnswers ==
  ASSUME Sound, NEW q \in Sensible, Store(q), NEW given \in answered
  PROVE  /\ operations'[given[1].key] # None
         /\ \/ given[1].episode \in forgotten'
            \/ /\ operations'[given[1].key].request = given[1]
               /\ operations'[given[1].key].revision = given[2]
               /\ given[2] <= Len(revisions'[given[1].episode])
<1>1. /\ TypeOK /\ SentKnown /\ operations[q.key] = None
      /\ given \in RequestRows \X Nat
  BY DEF Sound, TypeOK, Store
<1>2. given[1] \in RequestRows /\ given[2] \in Nat
  BY <1>1
<1>3. given[1].key \in Keys /\ given[1].episode \in Episodes
  BY <1>2 DEF RequestRows
<1>4. operations[given[1].key] # None
  BY DEF Sound, AnswersRecorded
<1>5. operations'[given[1].key] = operations[given[1].key]
  BY <1>1, <1>3, <1>4, StoreRows
<1>6. /\ forgotten' = forgotten
      /\ Held(given[1].episode) \in Nat /\ Len(revisions'[given[1].episode]) \in Nat
      /\ Len(revisions'[given[1].episode]) >= Held(given[1].episode)
  BY <1>1, <1>3, StoreRows, StoreGrows
<1> QED
  BY <1>2, <1>4, <1>5, <1>6 DEF Sound, SameAnswer

\* Rows keep their shapes.
LEMMA StoreTypes ==
  ASSUME TypeOK, SentKnown, NEW q \in Sensible, Store(q)
  PROVE  /\ claim' \in [Episodes -> Attempts \cup {None}]
         /\ revisions' \in [Episodes -> Seq(Snapshots)]
         /\ forgotten' \subseteq Episodes
         /\ operations' \in [Keys -> OperationRows \cup {None}]
<1>1. /\ claim \in [Episodes -> Attempts \cup {None}] /\ forgotten \subseteq Episodes
      /\ claim' = [claim EXCEPT ![q.episode] = q.attempt] /\ forgotten' = forgotten
  BY StoreRows DEF TypeOK
<1> QED
  BY <1>1, StoreRows, SensibleParts

-----------------------------------------------------------------------------
(* The steps. *)

\* What recovery lists, and its own state.
ListedRows == [episode : Episodes, attempt : Attempts, revision : Nat \ {0}]
RecoveryRows == [stage : {"off", "listing", "marking"}, before : Time,
                 cursor : 0..LastEpisode, touched : SUBSET Episodes,
                 listed : Seq(ListedRows)]

\* Noting an episode as touched keeps the shape of the recovery.
LEMMA TouchTypes ==
  ASSUME recovery \in RecoveryRows, NEW e \in Episodes, Touch(e)
  PROVE  recovery' \in RecoveryRows
BY DEF RecoveryRows, Touch

\* A caller's first call keeps everything.
LEMMA CallKeeps ==
  ASSUME Sound, NEW q \in Requests, Call(q)
  PROVE  Sound'
<1>1. /\ TypeOK /\ SentKnown /\ q \in Sensible /\ Store(q) /\ Answer(q)
      /\ Touch(q.episode) /\ clock' = clock
  BY RequestsSensible DEF Sound, Call
<1>2. q \in RequestRows /\ q.key \in Keys /\ q.episode \in Episodes
  BY <1>1, SensibleParts
<1>3. /\ answered' = answered \cup {<<q, Len(revisions'[q.episode])>>}
      /\ operations'[q.key] # None
      /\ operations'[q.key].request = q
      /\ operations'[q.key].revision = Len(revisions'[q.episode])
      /\ Len(revisions'[q.episode]) \in Nat
  <2>1. operations'[q.key] # None
    BY <1>1, StoreRows
  <2>2. operations'[q.key] = [episode |-> q.episode, request |-> q,
                              revision |-> Len(revisions'[q.episode])]
    BY <1>1, StoreRows
  <2>3. Len(revisions'[q.episode]) \in Nat
    BY <1>1, <1>2, StoreGrows
  <2>4. operations'[q.key].revision = Len(revisions'[q.episode])
    BY <2>2
  <2> QED
    BY <1>1, <2>1, <2>2, <2>3, <2>4 DEF Answer
<1>4. TypeOK'
  <2>1. answered \subseteq RequestRows \X Nat /\ clock \in Time /\ recovery \in RecoveryRows
    BY <1>1 DEF TypeOK, RecoveryRows, ListedRows
  <2>2. recovery' \in RecoveryRows
    BY <1>1, <1>2, <2>1, TouchTypes
  <2>3. answered' \subseteq RequestRows \X Nat
    BY <1>2, <1>3, <2>1
  <2> QED
    BY <1>1, <2>1, <2>2, <2>3, StoreTypes DEF TypeOK, RecoveryRows, ListedRows
<1>5. SameAnswer' /\ AnswersRecorded'
  <2>1. SUFFICES ASSUME NEW given \in answered'
                 PROVE  /\ operations'[given[1].key] # None
                        /\ \/ given[1].episode \in forgotten'
                           \/ /\ operations'[given[1].key].request = given[1]
                              /\ operations'[given[1].key].revision = given[2]
                              /\ given[2] <= Len(revisions'[given[1].episode])
    BY DEF SameAnswer, AnswersRecorded, Held
  <2>2. CASE given \in answered
    BY <1>1, <2>2, StoreAnswers
  <2>3. CASE given = <<q, Len(revisions'[q.episode])>>
    BY <1>3, <2>3
  <2> QED
    BY <1>3, <2>2, <2>3
<1> QED
  BY <1>1, <1>4, <1>5, StoreClaims, StoreEffects, StoreLinks DEF Sound

\* A step that leaves the rows and the answers alone keeps everything.
LEMMA RowsAlone ==
  ASSUME Sound, TypeOK', UNCHANGED <<store, answered>>
  PROVE  Sound'
BY DEF Sound, store, TypeOK, OneClaimEach, OperationsLinked, AnswersRecorded, ForgottenEmpty,
       OneEffectPerOperation, SameAnswer, SentKnown, Held

\* A repeated call keeps everything: its answer is the recorded one.
LEMMA RepeatKeeps ==
  ASSUME Sound, NEW q \in Requests, Repeat(q)
  PROVE  Sound'
<1>1. /\ q \in Sensible /\ UNCHANGED store /\ UNCHANGED <<clock, recovery>>
      /\ answered' = answered \cup {<<q, operations[q.key].revision>>}
      /\ operations[q.key] # None /\ operations[q.key].request = q /\ q.episode \notin forgotten
  BY RequestsSensible DEF Repeat, Recorded, Answer, store
<1>2. q \in RequestRows /\ q # None /\ q.key \in Keys /\ q.episode \in Episodes
  BY <1>1, SensibleParts
<1>3. operations[q.key] \in OperationRows
  BY <1>1, <1>2 DEF Sound, TypeOK
<1>4. operations[q.key].revision \in Nat /\ operations[q.key].revision <= Held(q.episode)
  BY <1>1, <1>2, <1>3 DEF Sound, OperationsLinked, OperationRows
<1>5. TypeOK'
  BY <1>1, <1>2, <1>4 DEF Sound, TypeOK, store
<1>6. SameAnswer' /\ AnswersRecorded'
  <2>1. SUFFICES ASSUME NEW given \in answered'
                 PROVE  /\ operations[given[1].key] # None
                        /\ \/ given[1].episode \in forgotten
                           \/ /\ operations[given[1].key].request = given[1]
                              /\ operations[given[1].key].revision = given[2]
                              /\ given[2] <= Held(given[1].episode)
    BY <1>1 DEF SameAnswer, AnswersRecorded, Held, store
  <2>2. CASE given \in answered
    BY <2>2 DEF Sound, SameAnswer, AnswersRecorded
  <2>3. CASE given = <<q, operations[q.key].revision>>
    BY <1>1, <1>4, <2>3
  <2> QED
    BY <1>1, <2>2, <2>3
<1> QED
  BY <1>1, <1>5, <1>6 DEF Sound, store, OneClaimEach, OperationsLinked, ForgottenEmpty,
     OneEffectPerOperation, SentKnown, Held

\* Deletion keeps everything: the fences stay.
LEMMA ForgetKeeps ==
  ASSUME Sound, NEW e \in Episodes, Forget(e)
  PROVE  Sound'
<1>1. /\ claim' = claim /\ clock' = clock /\ answered' = answered
      /\ forgotten' = forgotten \cup {e} /\ e \notin forgotten /\ claim[e] # None
      /\ revisions' = [revisions EXCEPT ![e] = <<>>]
      /\ operations' = [k \in Keys |-> IF operations[k] # None /\ operations[k].episode = e
                                       THEN Fence(e) ELSE operations[k]]
      /\ Touch(e)
  BY DEF Forget
<1>2. /\ revisions \in [Episodes -> Seq(Snapshots)]
      /\ operations \in [Keys -> OperationRows \cup {None}]
      /\ forgotten \subseteq Episodes /\ recovery \in RecoveryRows
      /\ answered \subseteq RequestRows \X Nat
  BY DEF Sound, TypeOK, RecoveryRows, ListedRows
<1>3. /\ revisions'[e] = <<>>
      /\ \A f \in Episodes : f # e => revisions'[f] = revisions[f]
  BY <1>1, <1>2
<1>4. /\ Fence(e) \in OperationRows /\ Fence(e) # None /\ Fence(e).request = None
      /\ Fence(e).episode = e
  <2>1. Fence(e) \in OperationRows
    BY DEF Fence, OperationRows
  <2> QED
    BY <2>1, RowsAssumption DEF Fence
<1>5. TypeOK'
  <2>1. recovery' \in RecoveryRows
    BY <1>1, <1>2, TouchTypes
  <2>2. revisions' \in [Episodes -> Seq(Snapshots)]
    BY <1>1, <1>2
  <2>3. operations' \in [Keys -> OperationRows \cup {None}]
    BY <1>1, <1>2, <1>4
  <2> QED
    BY <1>1, <1>2, <2>1, <2>2, <2>3 DEF Sound, TypeOK, RecoveryRows, ListedRows
<1>6. OneClaimEach'
  BY <1>1, <1>3 DEF Sound, OneClaimEach
<1>7. ForgottenEmpty'
  BY <1>1, <1>2, <1>3 DEF Sound, ForgottenEmpty
<1>8. SentKnown'
  BY <1>3 DEF Sound, SentKnown, Held
<1>9. OperationsLinked'
  <2>1. SUFFICES ASSUME NEW k \in Keys, operations'[k] # None, operations'[k].request # None
                 PROVE  /\ operations'[k].request.episode = operations'[k].episode
                        /\ operations'[k].episode \notin forgotten' =>
                              operations'[k].revision <= Len(revisions'[operations'[k].episode])
    BY DEF OperationsLinked, Held
  <2>2. operations'[k] = operations[k] /\ operations[k].episode # e
    BY <1>1, <1>4, <2>1
  <2>3. operations[k] \in OperationRows
    BY <1>2, <2>1, <2>2
  <2>4. operations[k].episode \in Episodes
    BY <2>3 DEF OperationRows
  <2> QED
    BY <1>1, <1>3, <2>1, <2>2, <2>4 DEF Sound, OperationsLinked, Held
<1>10. OneEffectPerOperation'
  <2>1. SUFFICES ASSUME NEW f \in Episodes, NEW n \in 1..Len(revisions'[f])
                 PROVE  LET k == revisions'[f][n].by IN
                        operations'[k] # None /\ operations'[k].episode = f
                        /\ operations'[k].revision = n
    BY DEF OneEffectPerOperation, Held
  <2>2. f # e /\ revisions'[f] = revisions[f] /\ n \in 1..Held(f)
    BY <1>3, <2>1 DEF Held
  <2> DEFINE k == revisions[f][n].by
  <2>3. operations[k] # None /\ operations[k].episode = f /\ operations[k].revision = n
    BY <2>2 DEF Sound, OneEffectPerOperation
  <2>4. revisions[f][n] \in Snapshots
    BY <1>2, <2>2 DEF Held
  <2>5. k \in Keys
    BY <2>4 DEF Snapshots
  <2>6. operations'[k] = operations[k]
    BY <1>1, <2>2, <2>3, <2>5
  <2> QED
    BY <2>2, <2>3, <2>6
<1>11. SameAnswer' /\ AnswersRecorded'
  <2>1. SUFFICES ASSUME NEW given \in answered
                 PROVE  /\ operations'[given[1].key] # None
                        /\ \/ given[1].episode \in forgotten'
                           \/ /\ operations'[given[1].key].request = given[1]
                              /\ operations'[given[1].key].revision = given[2]
                              /\ given[2] <= Len(revisions'[given[1].episode])
    BY <1>1 DEF SameAnswer, AnswersRecorded, Held
  <2>2. given[1] \in RequestRows /\ given[1] # None
    BY <1>2, RowsAssumption
  <2>3. given[1].key \in Keys /\ given[1].episode \in Episodes
    BY <2>2 DEF RequestRows
  <2>4. operations[given[1].key] # None
    BY DEF Sound, AnswersRecorded
  <2>5. CASE operations[given[1].key].episode = e
    <3>1. operations'[given[1].key] = Fence(e)
      BY <1>1, <2>3, <2>4, <2>5
    <3>2. given[1].episode \in forgotten'
      BY <1>1, <2>2, <2>3, <2>4, <2>5 DEF Sound, SameAnswer, OperationsLinked
    <3> QED
      BY <1>4, <3>1, <3>2
  <2>6. CASE operations[given[1].key].episode # e
    <3>1. operations'[given[1].key] = operations[given[1].key]
      BY <1>1, <2>3, <2>6
    <3>2. CASE given[1].episode \in forgotten
      BY <1>1, <2>4, <3>1, <3>2
    <3>3. CASE given[1].episode \notin forgotten
      <4>1. /\ operations[given[1].key].request = given[1]
            /\ operations[given[1].key].revision = given[2]
            /\ given[2] <= Held(given[1].episode)
        BY <3>3 DEF Sound, SameAnswer
      <4>2. given[1].episode # e
        BY <2>2, <2>3, <2>4, <2>6, <4>1 DEF Sound, OperationsLinked
      <4> QED
        BY <1>3, <2>3, <2>4, <3>1, <4>1, <4>2 DEF Held
    <3> QED
      BY <3>2, <3>3
  <2> QED
    BY <2>5, <2>6
<1> QED
  BY <1>5, <1>6, <1>7, <1>8, <1>9, <1>10, <1>11 DEF Sound

\* The operation recovery makes of what it listed is sensible.
LEMMA ListedSensible ==
  ASSUME recovery \in RecoveryRows, recovery.listed # <<>>
  PROVE  /\ MarkRequest(Head(recovery.listed)) \in Sensible
         /\ Tail(recovery.listed) \in
               Seq(ListedRows)
<1>1. recovery.listed \in Seq(ListedRows)
  BY DEF RecoveryRows
<1>2. Head(recovery.listed) \in ListedRows /\ Tail(recovery.listed) \in Seq(ListedRows)
  BY <1>1
<1> QED
  BY <1>2, MarkSensible DEF ListedRows

\* Recovery that stores keeps everything, whatever becomes of it.
LEMMA RecoveryStores ==
  ASSUME Sound, NEW q \in Sensible, Store(q), recovery' \in RecoveryRows,
         UNCHANGED <<clock, answered>>
  PROVE  Sound'
<1>1. TypeOK /\ SentKnown
  BY DEF Sound
<1>2. TypeOK'
  BY <1>1, StoreTypes DEF TypeOK, RecoveryRows, ListedRows
<1>3. SameAnswer' /\ AnswersRecorded'
  BY StoreAnswers DEF SameAnswer, AnswersRecorded, Held
<1> QED
  BY <1>2, <1>3, StoreClaims, StoreEffects, StoreLinks DEF Sound

\* A step of recovery that stores nothing keeps everything.
LEMMA RecoveryReads ==
  ASSUME Sound, UNCHANGED store, recovery' \in RecoveryRows, UNCHANGED <<clock, answered>>
  PROVE  Sound'
<1>1. TypeOK'
  BY DEF Sound, TypeOK, RecoveryRows, ListedRows, store
<1> QED
  BY <1>1, RowsAlone

\* What is found is a row with its attempt and revision.
LEMMA FoundListed ==
  ASSUME Sound, NEW e \in Episodes, Unsettled(e)
  PROVE  Found(e) \in ListedRows
<1>1. revisions[e] \in Seq(Snapshots) /\ claim[e] \in Attempts \cup {None}
  BY DEF Sound, TypeOK
<1>2. Held(e) \in Nat \ {0} /\ revisions[e] # <<>>
  BY <1>1 DEF Unsettled, Held
<1>3. claim[e] \in Attempts
  BY <1>1, <1>2 DEF Sound, OneClaimEach
<1> QED
  BY <1>2, <1>3 DEF ListedRows, Found

\* What recovery lists is an episode with its attempt and revision.
LEMMA ListTypes ==
  ASSUME Sound, ListNext
  PROVE  recovery' \in RecoveryRows
<1> DEFINE e == recovery.cursor + 1
           found == [episode |-> e, attempt |-> claim[e], revision |-> Held(e)]
<1>1. recovery \in RecoveryRows /\ recovery.cursor < LastEpisode
  BY DEF Sound, TypeOK, RecoveryRows, ListedRows, ListNext
<1>2. e \in Episodes /\ e \in 0..LastEpisode
  BY <1>1, EpisodesAssumption DEF RecoveryRows, Episodes
<1>3. recovery' = [recovery EXCEPT !.cursor = e,
                     !.listed = IF Unsettled(e) THEN Append(@, found) ELSE @]
  BY DEF ListNext
<1>4. ASSUME Unsettled(e)
      PROVE  found \in ListedRows
  BY <1>2, <1>4, FoundListed DEF Found
<1>5. recovery.listed \in Seq(ListedRows)
  BY <1>1 DEF RecoveryRows
<1>6. CASE Unsettled(e)
  <2>1. recovery' = [recovery EXCEPT !.cursor = e, !.listed = Append(@, found)]
    BY <1>3, <1>6
  <2>2. Append(recovery.listed, found) \in Seq(ListedRows)
    BY <1>4, <1>5, <1>6
  <2> HIDE DEF found, e
  <2> QED
    BY <1>1, <1>2, <2>1, <2>2 DEF RecoveryRows
<1>7. CASE ~Unsettled(e)
  <2>1. recovery' = [recovery EXCEPT !.cursor = e]
    BY <1>1, <1>3, <1>7 DEF RecoveryRows
  <2> HIDE DEF e
  <2> QED
    BY <1>1, <1>2, <2>1 DEF RecoveryRows
<1> QED
  BY <1>6, <1>7

\* An empty journal satisfies the inductive invariant.
LEMMA SoundInitially == Init => Sound
<1> SUFFICES ASSUME Init PROVE Sound
  OBVIOUS
<1>1. /\ \A e \in Episodes : revisions[e] = <<>> /\ Held(e) = 0 /\ claim[e] = None
      /\ \A k \in Keys : operations[k] = None
      /\ answered = {} /\ forgotten = {}
  BY DEF Init, Held
<1>2. recovery \in RecoveryRows
  BY EvidenceAssumption, EpisodesAssumption DEF Init, Off, RecoveryRows, Time
<1>3. TypeOK
  BY <1>1, <1>2, EvidenceAssumption DEF Init, TypeOK, RecoveryRows, ListedRows, Time
<1>4. OneEffectPerOperation /\ SentKnown
  BY <1>1 DEF OneEffectPerOperation, SentKnown
<1> QED
  BY <1>1, <1>3, <1>4 DEF Sound, OneClaimEach, OperationsLinked, AnswersRecorded,
     ForgottenEmpty, SameAnswer

\* Calls, repetitions, deletion, the clock, a start, and every step of recovery keep
\* the inductive invariant.
LEMMA SoundKept == Sound /\ [Next]_vars => Sound'
<1> SUFFICES ASSUME Sound, [Next]_vars PROVE Sound'
  OBVIOUS
<1>0. recovery \in RecoveryRows /\ clock \in Time
  BY DEF Sound, TypeOK, RecoveryRows, ListedRows
<1>1. ASSUME NEW q \in Requests, Call(q) PROVE Sound'
  BY <1>1, CallKeeps
<1>2. ASSUME NEW q \in Requests, Repeat(q) PROVE Sound'
  BY <1>2, RepeatKeeps
<1>3. ASSUME NEW e \in Episodes, Forget(e) PROVE Sound'
  BY <1>3, ForgetKeeps
<1>4. CASE ClockMoves
  <2>1. TypeOK'
    BY <1>4 DEF Sound, TypeOK, ClockMoves, store
  <2> QED
    BY <1>4, <2>1, RowsAlone DEF ClockMoves
<1>5. CASE Restart
  <2>1. recovery' = [stage |-> "listing", before |-> clock, cursor |-> 0, listed |-> <<>>,
                     touched |-> {}]
    BY <1>5 DEF Restart, Off
  <2>2. <<>> \in Seq(ListedRows) /\ 0 \in 0..LastEpisode
    BY EpisodesAssumption
  <2>3. recovery' \in RecoveryRows
    BY <1>0, <2>1, <2>2 DEF RecoveryRows
  <2> QED
    BY <1>5, <2>3, RecoveryReads DEF Restart
<1>6. CASE ListNext
  BY <1>6, ListTypes, RecoveryReads DEF ListNext
<1>7. CASE ListDone
  <2>1. recovery' \in RecoveryRows
    BY <1>0, <1>7 DEF ListDone, RecoveryRows
  <2> QED
    BY <1>7, <2>1, RecoveryReads DEF ListDone
<1>8. CASE MarkNext
  <2>1. recovery.listed # <<>> /\ recovery' = [recovery EXCEPT !.listed = Tail(@)]
        /\ UNCHANGED <<clock, answered>>
    BY <1>8 DEF MarkNext
  <2>2. /\ MarkRequest(Head(recovery.listed)) \in Sensible
        /\ recovery' \in RecoveryRows
    BY <1>0, <2>1, ListedSensible DEF RecoveryRows
  <2>3. Store(MarkRequest(Head(recovery.listed))) \/ UNCHANGED store
    BY <1>8 DEF MarkNext
  <2> QED
    BY <2>1, <2>2, <2>3, RecoveryStores, RecoveryReads
<1>9. CASE RecoveryFails
  <2>1. recovery' \in RecoveryRows /\ UNCHANGED <<clock, answered>>
    BY <1>9, EvidenceAssumption, EpisodesAssumption DEF RecoveryFails, Off, RecoveryRows, Time
  <2>2. CASE UNCHANGED store
    BY <2>1, <2>2, RecoveryReads
  <2>3. CASE ~UNCHANGED store
    <3>1. recovery.listed # <<>> /\ Store(MarkRequest(Head(recovery.listed)))
      BY <1>9, <2>3 DEF RecoveryFails
    <3>2. MarkRequest(Head(recovery.listed)) \in Sensible
      BY <1>0, <3>1, ListedSensible
    <3> QED
      BY <2>1, <3>1, <3>2, RecoveryStores
  <2> QED
    BY <2>2, <2>3
<1>10. CASE RecoveryEnds
  <2>1. recovery' \in RecoveryRows
    BY <1>10, EvidenceAssumption, EpisodesAssumption DEF RecoveryEnds, Off, RecoveryRows, Time
  <2> QED
    BY <1>10, <2>1, RecoveryReads DEF RecoveryEnds
<1>11. CASE UNCHANGED vars
  <2>1. TypeOK'
    BY <1>11 DEF Sound, TypeOK, vars, store
  <2> QED
    BY <1>11, <2>1, RowsAlone DEF vars
<1> QED
  BY <1>1, <1>2, <1>3, <1>4, <1>5, <1>6, <1>7, <1>8, <1>9, <1>10, <1>11 DEF Next

-----------------------------------------------------------------------------
(* The theorems. *)

\* The inductive invariant holds in every state, whatever callers, deletion, restarts
\* and recovery do.
THEOREM SoundAlways == Spec => []Sound
BY SoundInitially, SoundKept, PTL DEF Spec

\* Every row has the shape the schema gives it.
THEOREM TypeCorrect == Spec => []TypeOK
<1>1. Sound => TypeOK
  BY DEF Sound
<1> QED
  BY <1>1, SoundAlways, PTL

\* No two episodes ever hold one attempt, deleted or not (journal.go:151).
THEOREM ClaimsApart == Spec => []OneClaimEach
<1>1. Sound => OneClaimEach
  BY DEF Sound
<1> QED
  BY <1>1, SoundAlways, PTL

\* Every stored snapshot is the recorded result of one operation: a call repeated
\* after a lost answer, by recovery or by a caller, never writes again.
THEOREM OneEffect == Spec => []OneEffectPerOperation
<1>1. Sound => OneEffectPerOperation
  BY DEF Sound
<1> QED
  BY <1>1, SoundAlways, PTL

\* Every answer given stays the answer until the record is deleted.
THEOREM AnswersStand == Spec => []SameAnswer
<1>1. Sound => SameAnswer
  BY DEF Sound
<1> QED
  BY <1>1, SoundAlways, PTL

\* A store step leaves deleted episodes and used keys alone.
LEMMA StoreSpares ==
  ASSUME Sound, NEW q \in Sensible, Store(q)
  PROVE  /\ forgotten' = forgotten
         /\ \A e \in forgotten : revisions'[e] = <<>> /\ claim'[e] = claim[e]
         /\ \A k \in Keys : operations[k] # None => operations'[k] = operations[k]
<1>1. /\ TypeOK /\ SentKnown /\ q.episode \notin forgotten /\ operations[q.key] = None
      /\ forgotten \subseteq Episodes /\ claim \in [Episodes -> Attempts \cup {None}]
  BY DEF Sound, Store, TypeOK
<1>2. /\ forgotten' = forgotten /\ claim' = [claim EXCEPT ![q.episode] = q.attempt]
      /\ \A e \in Episodes : e # q.episode => revisions'[e] = revisions[e]
      /\ \A k \in Keys : k # q.key => operations'[k] = operations[k]
  BY <1>1, StoreRows
<1>3. \A e \in forgotten : revisions[e] = <<>>
  BY DEF Sound, ForgottenEmpty
<1> QED
  BY <1>1, <1>2, <1>3

\* What DeletedForGood asks of a step.
Kept == /\ forgotten \subseteq forgotten'
        /\ \A e \in forgotten : revisions'[e] = <<>> /\ claim'[e] = claim[e]
        /\ \A k \in Keys : operations[k] # None =>
             \/ operations'[k] = operations[k]
             \/ /\ operations[k].episode \in forgotten'
                /\ operations'[k] = Fence(operations[k].episode)

\* No step brings back a forgotten episode, frees its claim or frees a key.
LEMMA StepKeeps == Sound /\ [Next]_vars => Kept
<1> SUFFICES ASSUME Sound, [Next]_vars PROVE Kept
  OBVIOUS
<1>1. ASSUME NEW q \in Sensible, Store(q) PROVE Kept
  BY <1>1, StoreSpares DEF Kept
<1>2. ASSUME UNCHANGED store PROVE Kept
  BY <1>2 DEF Kept, store, Sound, ForgottenEmpty
<1>3. ASSUME NEW e \in Episodes, Forget(e) PROVE Kept
  <2>1. /\ revisions \in [Episodes -> Seq(Snapshots)] /\ forgotten \subseteq Episodes
        /\ \A f \in forgotten : revisions[f] = <<>>
    BY DEF Sound, TypeOK, ForgottenEmpty
  <2> QED
    BY <1>3, <2>1 DEF Kept, Forget
<1>4. ASSUME NEW q \in Requests, Call(q) PROVE Kept
  BY <1>1, <1>4, RequestsSensible DEF Call
<1>5. CASE recovery.listed # <<>> /\ Store(MarkRequest(Head(recovery.listed)))
  <2>1. recovery \in RecoveryRows
    BY DEF Sound, TypeOK, RecoveryRows, ListedRows
  <2> QED
    BY <1>1, <1>5, <2>1, ListedSensible
<1>6. CASE MarkNext
  BY <1>2, <1>5, <1>6 DEF MarkNext
<1>7. CASE RecoveryFails
  BY <1>2, <1>5, <1>7 DEF RecoveryFails
<1>8. CASE UNCHANGED vars
  BY <1>2, <1>8 DEF vars
<1> QED
  BY <1>2, <1>3, <1>4, <1>6, <1>7, <1>8
  DEF Next, Repeat, ClockMoves, Restart, ListNext, ListDone, RecoveryEnds

\* Deleted content never comes back, and the claim and keys of a deleted episode
\* are never free again (postgres.go:383-385).
THEOREM DeletionIsFinal == Spec => DeletedForGood
<1>1. Sound /\ [Next]_vars => [Kept]_vars
  BY StepKeeps
<1>2. Spec => [][Kept]_vars
  BY <1>1, SoundAlways, PTL DEF Spec
<1> QED
  BY <1>2 DEF DeletedForGood, Kept

-----------------------------------------------------------------------------
(* The journal implements the life of an attempt. *)

PhaseMap == [a \in Attempts |-> PhaseOf(a)]
SentMap == [a \in Attempts |-> SentOf(a)]

\* What the rows say of every attempt, without a choice of its holder.
PhaseFacts == \A a \in Attempts :
    /\ (\A e \in Episodes : claim[e] # a) => PhaseMap[a] = "none" /\ SentMap[a] = FALSE
    /\ \A e \in Episodes : claim[e] = a =>
          /\ e \in forgotten => PhaseMap[a] = "forgotten" /\ SentMap[a] = FALSE
          /\ e \notin forgotten => /\ PhaseMap[a] = revisions[e][Len(revisions[e])].phase
                                   /\ SentMap[a] = revisions[e][Len(revisions[e])].sent

\* An episode that holds an attempt and was not deleted has a current snapshot.
LEMMA HolderCurrent ==
  ASSUME TypeOK, OneClaimEach, NEW e \in Episodes, claim[e] # None, e \notin forgotten
  PROVE  /\ Held(e) > 0 /\ Held(e) \in 1..Held(e)
         /\ Current(e) \in Snapshots /\ Current(e) = revisions[e][Len(revisions[e])]
<1>1. revisions[e] # <<>> /\ revisions[e] \in Seq(Snapshots)
  BY DEF TypeOK, OneClaimEach
<1> QED
  BY <1>1 DEF Held, Current

\* The maps of the refinement are what the rows say.
LEMMA PhasesKnown == Sound => PhaseFacts
<1> SUFFICES ASSUME Sound, NEW a \in Attempts
             PROVE  /\ (\A e \in Episodes : claim[e] # a) =>
                          PhaseMap[a] = "none" /\ SentMap[a] = FALSE
                    /\ \A e \in Episodes : claim[e] = a =>
                          /\ e \in forgotten => PhaseMap[a] = "forgotten" /\ SentMap[a] = FALSE
                          /\ e \notin forgotten =>
                                /\ PhaseMap[a] = revisions[e][Len(revisions[e])].phase
                                /\ SentMap[a] = revisions[e][Len(revisions[e])].sent
  BY DEF PhaseFacts
<1>1. PhaseMap[a] = PhaseOf(a) /\ SentMap[a] = SentOf(a)
  BY DEF PhaseMap, SentMap
<1>2. ASSUME \A e \in Episodes : claim[e] # a
      PROVE  PhaseMap[a] = "none" /\ SentMap[a] = FALSE
  BY <1>1, <1>2 DEF PhaseOf, SentOf, Claimed
<1>3. ASSUME NEW e \in Episodes, claim[e] = a
      PROVE  /\ e \in forgotten => PhaseMap[a] = "forgotten" /\ SentMap[a] = FALSE
             /\ e \notin forgotten => /\ PhaseMap[a] = revisions[e][Len(revisions[e])].phase
                                      /\ SentMap[a] = revisions[e][Len(revisions[e])].sent
  <2>1. a # None
    BY KeysAssumption
  <2>2. Claimed(a) /\ Holder(a) = e
    BY <1>3, <2>1 DEF Claimed, Holder, Sound, OneClaimEach
  <2>3. CASE e \in forgotten
    BY <1>1, <2>2, <2>3 DEF PhaseOf, SentOf
  <2>4. CASE e \notin forgotten
    <3>1. TypeOK /\ OneClaimEach
      BY DEF Sound
    <3>2. /\ Current(e) \in Snapshots /\ Current(e) = revisions[e][Len(revisions[e])]
      BY <1>3, <2>1, <2>4, <3>1, HolderCurrent
    <3>3. Current(e).sent \in BOOLEAN
      BY <3>2 DEF Snapshots
    <3>4. PhaseOf(a) = Current(e).phase
      BY <2>2, <2>4 DEF PhaseOf
    <3>5. SentOf(a) = Current(e).sent
      BY <2>2, <2>4, <3>3 DEF SentOf
    <3> QED
      BY <1>1, <2>4, <3>2, <3>4, <3>5
  <2> QED
    BY <2>3, <2>4
<1> QED
  BY <1>2, <1>3

\* So are they after a step.
LEMMA PhasesKnownNext == Sound' => PhaseFacts'
BY PhasesKnown, PTL

\* A step of the abstract life, from the two maps.
LEMMA Becomes ==
  ASSUME NEW a \in Attempts, NEW p, NEW s,
         PhaseMap'[a] = p, SentMap'[a] = s,
         \A b \in Attempts : b # a => PhaseMap'[b] = PhaseMap[b] /\ SentMap'[b] = SentMap[b]
  PROVE  Log!Become(a, p, s)
<1>1. PhaseMap' = [b \in Attempts |-> PhaseMap'[b]] /\ SentMap' = [b \in Attempts |-> SentMap'[b]]
  BY DEF PhaseMap, SentMap
<1>2. /\ PhaseMap = [b \in Attempts |-> PhaseMap[b]] /\ SentMap = [b \in Attempts |-> SentMap[b]]
  BY DEF PhaseMap, SentMap
<1>3. PhaseMap' = [PhaseMap EXCEPT ![a] = p]
  BY <1>1, <1>2
<1>4. SentMap' = [SentMap EXCEPT ![a] = s]
  BY <1>1, <1>2
<1> QED
  BY <1>3, <1>4 DEF Log!Become, PhaseMap, SentMap

\* Nothing changes for any attempt.
LEMMA Stutters ==
  ASSUME \A b \in Attempts : PhaseMap'[b] = PhaseMap[b] /\ SentMap'[b] = SentMap[b]
  PROVE  PhaseMap' = PhaseMap /\ SentMap' = SentMap
<1>1. PhaseMap' = [b \in Attempts |-> PhaseMap'[b]] /\ SentMap' = [b \in Attempts |-> SentMap'[b]]
  BY DEF PhaseMap, SentMap
<1>2. /\ PhaseMap = [b \in Attempts |-> PhaseMap[b]] /\ SentMap = [b \in Attempts |-> SentMap[b]]
  BY DEF PhaseMap, SentMap
<1> QED
  BY <1>1, <1>2

\* An attempt whose row is left alone stays where it stands.
LEMMA RowLeftAlone ==
  ASSUME Sound, Sound', NEW b \in Attempts,
         \A e \in Episodes : claim[e] = b \/ claim'[e] = b =>
            /\ claim'[e] = claim[e] /\ revisions'[e] = revisions[e]
            /\ e \in forgotten' <=> e \in forgotten
  PROVE  PhaseMap'[b] = PhaseMap[b] /\ SentMap'[b] = SentMap[b]
<1>1. PhaseFacts /\ PhaseFacts'
  BY PhasesKnown, PhasesKnownNext
<1>2. CASE \A e \in Episodes : claim[e] # b
  <2>1. PhaseMap[b] = "none" /\ SentMap[b] = FALSE
    BY <1>1, <1>2 DEF PhaseFacts
  <2>2. \A e \in Episodes : claim'[e] # b
    BY <1>2
  <2>3. PhaseMap'[b] = "none" /\ SentMap'[b] = FALSE
    BY <1>1, <2>2 DEF PhaseFacts
  <2> QED
    BY <2>1, <2>3
<1>3. ASSUME NEW e \in Episodes, claim[e] = b
      PROVE  PhaseMap'[b] = PhaseMap[b] /\ SentMap'[b] = SentMap[b]
  <2>1. /\ claim'[e] = b /\ revisions'[e] = revisions[e]
        /\ e \in forgotten' <=> e \in forgotten
    BY <1>3
  <2>2. CASE e \in forgotten
    <3>1. PhaseMap[b] = "forgotten" /\ SentMap[b] = FALSE
      BY <1>1, <1>3, <2>2 DEF PhaseFacts
    <3>2. PhaseMap'[b] = "forgotten" /\ SentMap'[b] = FALSE
      BY <1>1, <2>1, <2>2 DEF PhaseFacts
    <3> QED
      BY <3>1, <3>2
  <2>3. CASE e \notin forgotten
    <3>1. /\ PhaseMap[b] = revisions[e][Len(revisions[e])].phase
          /\ SentMap[b] = revisions[e][Len(revisions[e])].sent
      BY <1>1, <1>3, <2>3 DEF PhaseFacts
    <3>2. /\ PhaseMap'[b] = revisions'[e][Len(revisions'[e])].phase
          /\ SentMap'[b] = revisions'[e][Len(revisions'[e])].sent
      BY <1>1, <2>1, <2>3 DEF PhaseFacts
    <3> QED
      BY <2>1, <3>1, <3>2
  <2> QED
    BY <2>2, <2>3
<1> QED
  BY <1>2, <1>3

\* A stored request touches no attempt but its own.
LEMMA StoreOthers ==
  ASSUME Sound, Sound', NEW q \in Sensible, Store(q), NEW b \in Attempts, b # q.attempt
  PROVE  PhaseMap'[b] = PhaseMap[b] /\ SentMap'[b] = SentMap[b]
<1>1. /\ TypeOK /\ SentKnown /\ q.episode \notin forgotten /\ b # None
      /\ claim \in [Episodes -> Attempts \cup {None}]
      /\ revisions[q.episode] \in Seq(Snapshots) /\ q.episode \in Episodes
  BY SensibleParts, KeysAssumption DEF Sound, Store, TypeOK
<1>2. /\ claim' = [claim EXCEPT ![q.episode] = q.attempt] /\ forgotten' = forgotten
      /\ \A e \in Episodes : e # q.episode => revisions'[e] = revisions[e]
  BY <1>1, StoreRows
<1>3. claim[q.episode] # b
  <2>1. CASE Held(q.episode) > 0
    BY <2>1 DEF Store, Matches
  <2>2. CASE ~(Held(q.episode) > 0)
    <3>1. revisions[q.episode] = <<>>
      BY <1>1, <2>2 DEF Held
    <3> QED
      BY <1>1, <3>1 DEF Sound, OneClaimEach
  <2> QED
    BY <2>1, <2>2
<1> QED
  BY <1>1, <1>2, <1>3, RowLeftAlone

\* The current snapshot an attempt's own store leaves.
LEMMA StoreOwn ==
  ASSUME Sound, Sound', NEW q \in Sensible, Store(q)
  PROVE  /\ PhaseMap'[q.attempt] = revisions'[q.episode][Len(revisions'[q.episode])].phase
         /\ SentMap'[q.attempt] = revisions'[q.episode][Len(revisions'[q.episode])].sent
         /\ q.action = "begin" => PhaseMap[q.attempt] = "none"
         /\ q.action # "begin" => /\ PhaseMap[q.attempt] = Current(q.episode).phase
                                  /\ SentMap[q.attempt] = Current(q.episode).sent
<1>1. PhaseFacts /\ PhaseFacts'
  BY PhasesKnown, PhasesKnownNext
<1>2. /\ TypeOK /\ SentKnown /\ q.episode \notin forgotten
      /\ claim \in [Episodes -> Attempts \cup {None}]
      /\ revisions[q.episode] \in Seq(Snapshots)
      /\ q.episode \in Episodes /\ q.attempt \in Attempts /\ q.attempt # None
  BY SensibleParts DEF Sound, Store, TypeOK
<1>3. claim' = [claim EXCEPT ![q.episode] = q.attempt] /\ forgotten' = forgotten
  BY <1>2, StoreRows
<1>4. claim'[q.episode] = q.attempt /\ q.episode \notin forgotten'
  BY <1>2, <1>3
<1>5. ASSUME q.action = "begin" PROVE PhaseMap[q.attempt] = "none"
  <2>1. revisions[q.episode] = <<>>
    BY <1>2, <1>5, StoredHolds DEF Held
  <2>2. claim[q.episode] = None
    BY <1>2, <2>1 DEF Sound, OneClaimEach
  <2>3. \A e \in Episodes : claim[e] # q.attempt
    BY <1>2, <2>2 DEF Store, Matches
  <2> QED
    BY <1>1, <1>2, <2>3 DEF PhaseFacts
<1>6. ASSUME q.action # "begin"
      PROVE  PhaseMap[q.attempt] = Current(q.episode).phase
             /\ SentMap[q.attempt] = Current(q.episode).sent
  <2>1. claim[q.episode] = q.attempt
    BY <1>2, <1>6, StoredHolds DEF Store, Matches
  <2> QED
    BY <1>1, <1>2, <2>1 DEF PhaseFacts, Current, Held
<1> QED
  BY <1>1, <1>2, <1>4, <1>5, <1>6 DEF PhaseFacts

LifeStep == [Log!Next]_<<PhaseMap, SentMap>>

\* A stored request is a step of its attempt's life, or none.
LEMMA StoreLives ==
  ASSUME Sound, Sound', NEW q \in Sensible, Store(q)
  PROVE  LifeStep
<1> DEFINE a == q.attempt
           last == revisions'[q.episode][Len(revisions'[q.episode])]
           now == Current(q.episode)
<1>1. /\ TypeOK /\ SentKnown /\ a \in Attempts /\ q.action \in Actions
      /\ q.episode \in Episodes /\ revisions[q.episode] \in Seq(Snapshots)
  BY SensibleParts DEF Sound, TypeOK
<1>2. \A b \in Attempts : b # a => PhaseMap'[b] = PhaseMap[b] /\ SentMap'[b] = SentMap[b]
  BY StoreOthers
<1>3. PhaseMap'[a] = last.phase /\ SentMap'[a] = last.sent
  BY StoreOwn
<1>4. CASE revisions'[q.episode] = revisions[q.episode] /\ Held(q.episode) > 0
  <2>1. q.action # "begin" /\ last = now
    BY <1>1, <1>4, StoredHolds DEF Current, Held
  <2>2. PhaseMap'[a] = PhaseMap[a] /\ SentMap'[a] = SentMap[a]
    BY <1>3, <2>1, StoreOwn
  <2> QED
    BY <1>2, <2>2, Stutters DEF LifeStep
<1>5. CASE Changes(q) /\ revisions'[q.episode] = Append(revisions[q.episode], Written(q))
  <2>1. Written(q) \in Snapshots /\ (Written(q).sent => Written(q).phase # "prepared")
    BY <1>1, WrittenSnapshot
  <2>2. last = Written(q)
    BY <1>1, <1>5, <2>1
  <2>3. CASE q.action = "begin"
    <3>1. PhaseMap[a] = "none" /\ Written(q).phase = "prepared" /\ Written(q).sent = FALSE
      BY <2>3, StoreOwn DEF Written
    <3>2. Log!Become(a, "prepared", FALSE)
      <4>1. PhaseMap'[a] = "prepared" /\ SentMap'[a] = FALSE
        BY <1>3, <2>2, <3>1
      <4> QED
        BY <1>1, <1>2, <4>1, Becomes
    <3>3. Log!Prepare(a)
      BY <1>1, <3>1, <3>2 DEF Log!Prepare, PhaseMap
    <3> QED
      BY <1>1, <3>3 DEF LifeStep, Log!Next
  <2>4. CASE q.action # "begin"
    <3>1. /\ PhaseMap[a] = now.phase /\ SentMap[a] = now.sent
      BY <2>4, StoreOwn
    <3>2. /\ now \in Snapshots /\ (now.sent => now.phase # "prepared")
      BY <1>1, <2>4, StoredHolds, CurrentSnapshot DEF SentKnown, Current
    <3>3. CASE q.action = "dispatch"
      <4>1. now.phase = "prepared" /\ Written(q).phase = "dispatched" /\ Written(q).sent = TRUE
        <5>1. Admits(q)
          BY DEF Store
        <5>2. now.phase = "prepared"
          BY <3>3, <5>1 DEF Admits
        <5>3. Written(q).phase = "dispatched" /\ Written(q).sent = TRUE
          BY <3>2, <3>3 DEF Written, Snapshots
        <5> QED
          BY <5>2, <5>3
      <4>2. Log!Become(a, "dispatched", TRUE)
        <5>1. PhaseMap'[a] = "dispatched" /\ SentMap'[a] = TRUE
          BY <1>3, <2>2, <4>1
        <5> QED
          BY <1>1, <1>2, <5>1, Becomes
      <4>3. Log!Dispatch(a)
        BY <1>1, <3>1, <4>1, <4>2 DEF Log!Dispatch, PhaseMap
      <4> QED
        BY <1>1, <4>3 DEF LifeStep, Log!Next
    <3>4. CASE q.action = "interrupt"
      <4>1. /\ now.phase \in {"prepared", "dispatched"}
            /\ Written(q).phase = "interrupted" /\ Written(q).sent = now.sent
        BY <1>5, <3>2, <3>4 DEF Store, Admits, Changes, Written, Snapshots
      <4>2. Log!Become(a, "interrupted", SentMap[a])
        <5>1. PhaseMap'[a] = "interrupted" /\ SentMap'[a] = SentMap[a]
          BY <1>3, <2>2, <3>1, <4>1
        <5> QED
          BY <1>1, <1>2, <5>1, Becomes
      <4>3. Log!Interrupt(a)
        BY <1>1, <3>1, <4>1, <4>2 DEF Log!Interrupt, PhaseMap, SentMap
      <4> QED
        BY <1>1, <4>3 DEF LifeStep, Log!Next
    <3>5. CASE q.action = "observe"
      <4>1. /\ now.sent = TRUE /\ Written(q).sent = TRUE
            /\ Written(q).phase = IF q.report.known THEN "settled" ELSE now.phase
        <5>1. Admits(q)
          BY DEF Store
        <5>2. now.sent = TRUE
          BY <3>2, <3>5, <5>1 DEF Admits, Snapshots
        <5>3. /\ Written(q).sent = now.sent
              /\ Written(q).phase = IF q.report.known THEN "settled" ELSE now.phase
          BY <3>2, <3>5 DEF Written, Snapshots
        <5> QED
          BY <5>2, <5>3
      <4>2. CASE Written(q).phase = now.phase
        <5>1. PhaseMap'[a] = PhaseMap[a] /\ SentMap'[a] = SentMap[a]
          BY <1>3, <2>2, <3>1, <4>1, <4>2
        <5> QED
          BY <1>2, <5>1, Stutters DEF LifeStep
      <4>3. CASE Written(q).phase # now.phase
        <5>1. now.phase \in {"dispatched", "interrupted"} /\ Written(q).phase = "settled"
          BY <3>2, <4>1, <4>3 DEF Snapshots
        <5>2. Log!Become(a, "settled", TRUE)
          <6>1. PhaseMap'[a] = "settled" /\ SentMap'[a] = TRUE
            BY <1>3, <2>2, <4>1, <5>1
          <6> QED
            BY <1>1, <1>2, <6>1, Becomes
        <5>3. Log!Settle(a)
          BY <1>1, <3>1, <4>1, <5>1, <5>2 DEF Log!Settle, PhaseMap, SentMap
        <5> QED
          BY <1>1, <5>3 DEF LifeStep, Log!Next
      <4> QED
        BY <4>2, <4>3
    <3> QED
      BY <1>1, <2>4, <3>3, <3>4, <3>5 DEF Actions
  <2> QED
    BY <2>3, <2>4
<1> QED
  BY <1>1, <1>4, <1>5, StoreRows

\* Deleting an episode ends the life of the attempt it holds.
LEMMA ForgetLives ==
  ASSUME Sound, Sound', NEW e \in Episodes, Forget(e)
  PROVE  LifeStep
<1> DEFINE a == claim[e]
<1>1. /\ TypeOK /\ OneClaimEach /\ a # None /\ e \notin forgotten /\ a \in Attempts
      /\ claim \in [Episodes -> Attempts \cup {None}]
      /\ revisions \in [Episodes -> Seq(Snapshots)]
  BY DEF Sound, Forget, TypeOK
<1>2. /\ claim' = claim /\ forgotten' = forgotten \cup {e}
      /\ \A f \in Episodes : f # e => revisions'[f] = revisions[f]
  BY <1>1 DEF Forget
<1>3. PhaseFacts /\ PhaseFacts'
  BY PhasesKnown, PhasesKnownNext
<1>4. \A b \in Attempts : b # a => PhaseMap'[b] = PhaseMap[b] /\ SentMap'[b] = SentMap[b]
  BY <1>2, RowLeftAlone
<1>5. PhaseMap'[a] = "forgotten" /\ SentMap'[a] = FALSE
  BY <1>1, <1>2, <1>3 DEF PhaseFacts
<1>6. PhaseMap[a] = Current(e).phase /\ Current(e) \in Snapshots
  <2>1. Current(e) \in Snapshots /\ Current(e) = revisions[e][Len(revisions[e])]
    BY <1>1, HolderCurrent
  <2>2. PhaseMap[a] = revisions[e][Len(revisions[e])].phase
    BY <1>1, <1>3 DEF PhaseFacts
  <2> QED
    BY <2>1, <2>2
<1>7. PhaseMap[a] \notin {"none", "forgotten"}
  BY <1>6 DEF Snapshots
<1>8. Log!Become(a, "forgotten", FALSE)
  BY <1>1, <1>4, <1>5, Becomes
<1>9. Log!Forget(a)
  BY <1>1, <1>7, <1>8 DEF Log!Forget, PhaseMap
<1> QED
  BY <1>1, <1>9 DEF LifeStep, Log!Next

\* A step that leaves the rows alone is no step of any attempt.
LEMMA RowsStutter ==
  ASSUME Sound, Sound', UNCHANGED store
  PROVE  LifeStep
<1>1. claim' = claim /\ revisions' = revisions /\ forgotten' = forgotten
  BY DEF store
<1>2. \A b \in Attempts : PhaseMap'[b] = PhaseMap[b] /\ SentMap'[b] = SentMap[b]
  BY <1>1, RowLeftAlone
<1> QED
  BY <1>2, Stutters DEF LifeStep

\* Every step of the journal is a step of an attempt's life, or none.
LEMMA StepLives == Sound /\ Sound' /\ [Next]_vars => LifeStep
<1> SUFFICES ASSUME Sound, Sound', [Next]_vars PROVE LifeStep
  OBVIOUS
<1>1. ASSUME NEW q \in Requests, Call(q) PROVE LifeStep
  BY <1>1, RequestsSensible, StoreLives DEF Call
<1>2. ASSUME NEW e \in Episodes, Forget(e) PROVE LifeStep
  BY <1>2, ForgetLives
<1>3. CASE recovery.listed # <<>> /\ Store(MarkRequest(Head(recovery.listed)))
  <2>1. recovery \in RecoveryRows
    BY DEF Sound, TypeOK, RecoveryRows, ListedRows
  <2> QED
    BY <1>3, <2>1, ListedSensible, StoreLives
<1>4. CASE UNCHANGED store
  BY <1>4, RowsStutter
<1>5. CASE MarkNext
  BY <1>3, <1>4, <1>5 DEF MarkNext
<1>6. CASE RecoveryFails
  BY <1>3, <1>4, <1>6 DEF RecoveryFails
<1>7. CASE UNCHANGED vars
  BY <1>4, <1>7 DEF vars
<1> QED
  BY <1>1, <1>2, <1>4, <1>5, <1>6, <1>7
  DEF Next, Repeat, ClockMoves, Restart, ListNext, ListDone, RecoveryEnds

\* No attempt has begun in an empty journal.
LEMMA InitLives == Init => Log!Init
<1> SUFFICES ASSUME Init PROVE Log!Init
  OBVIOUS
<1>1. \A a \in Attempts : ~Claimed(a)
  BY KeysAssumption DEF Init, Claimed
<1>2. \A a \in Attempts : PhaseOf(a) = "none" /\ SentOf(a) = FALSE
  BY <1>1 DEF PhaseOf, SentOf
<1> QED
  BY <1>2 DEF Log!Init

\* The journal implements the life of an attempt: whatever callers, recovery and
\* deletion do, an attempt is dispatched at most once, settled only after its
\* dispatch, and settled for good (the phases of journal.go).
THEOREM JournalImplementsLife == Spec => LifeOfAnAttempt
<1>1. Init => Log!Init
  BY InitLives
<1>2. Sound /\ Sound' /\ [Next]_vars => LifeStep
  BY StepLives
<1>3. Spec => Log!Init /\ [][LifeStep]_<<PhaseMap, SentMap>>
  BY <1>1, <1>2, SoundAlways, PTL DEF Spec
<1> QED
  BY <1>3, PTL DEF LifeOfAnAttempt, Log!Spec, LifeStep, PhaseMap, SentMap

-----------------------------------------------------------------------------
(* Recovery misses no attempt of its capability. *)

\* An interruption, and any change of what was interrupted or settled, leaves the
\* attempt interrupted or settled.
LEMMA StoreStops ==
  ASSUME Sound, NEW q \in Sensible, Store(q),
         \/ q.action = "interrupt"
         \/ Held(q.episode) > 0 /\ Current(q.episode).phase \in {"interrupted", "settled"}
  PROVE  revisions'[q.episode][Len(revisions'[q.episode])].phase
            \in {"interrupted", "settled"}
<1> DEFINE now == Current(q.episode)
<1>1. /\ TypeOK /\ SentKnown /\ q.action \in Actions /\ q.episode \in Episodes
      /\ revisions[q.episode] \in Seq(Snapshots)
  BY SensibleParts DEF Sound, TypeOK
<1>2. q.action # "begin" /\ Held(q.episode) > 0 /\ now \in Snapshots
  BY <1>1, StoredHolds, CurrentSnapshot
<1>3. CASE ~Changes(q) /\ revisions'[q.episode] = revisions[q.episode]
  <2>1. now.phase \in {"interrupted", "settled"}
    BY <1>3 DEF Changes
  <2> QED
    BY <1>3, <2>1 DEF Current, Held
<1>4. CASE revisions'[q.episode] = Append(revisions[q.episode], Written(q))
  <2>1. Written(q) \in Snapshots
    BY <1>1, WrittenSnapshot
  <2>2. revisions'[q.episode][Len(revisions'[q.episode])] = Written(q)
    BY <1>1, <1>4, <2>1
  <2>3. CASE q.action = "dispatch"
    BY <2>3 DEF Store, Admits
  <2>4. CASE q.action = "interrupt"
    <3>1. Written(q).phase = "interrupted"
      BY <1>2, <2>4 DEF Written, Snapshots
    <3> QED
      BY <2>2, <3>1
  <2>5. CASE q.action = "observe"
    <3>1. now.phase \in {"interrupted", "settled"}
      BY <2>5
    <3>2. Written(q).phase = "settled" \/ Written(q).phase = now.phase
      BY <1>2, <2>5 DEF Written, Snapshots
    <3> QED
      BY <2>2, <3>1, <3>2
  <2> QED
    BY <1>1, <1>2, <2>3, <2>4, <2>5 DEF Actions
<1> QED
  BY <1>1, <1>3, <1>4, StoreRows

\* Stored requests keep it true that used keys of interruptions stopped something.
LEMMA StoreInterrupts ==
  ASSUME Sound, InterruptedByKey, NEW q \in Sensible, Store(q)
  PROVE  InterruptedByKey'
<1> SUFFICES ASSUME NEW a \in Attempts, NEW e \in Episodes,
                    operations'[InterruptKey[a]] # None,
                    operations'[InterruptKey[a]].revision > 0,
                    operations'[InterruptKey[a]].episode = e
             PROVE  /\ claim'[e] = a /\ e \notin forgotten' /\ Len(revisions'[e]) > 0
                    /\ revisions'[e][Len(revisions'[e])].phase \in {"interrupted", "settled"}
  BY DEF InterruptedByKey, Held, Current
<1> DEFINE k == InterruptKey[a]
<1>1. /\ TypeOK /\ SentKnown /\ q.episode \in Episodes /\ q.episode \notin forgotten
      /\ q.attempt # None /\ k \in Keys
      /\ claim \in [Episodes -> Attempts \cup {None}]
  BY SensibleParts DEF Sound, Store, TypeOK, Keys
<1>2. /\ claim' = [claim EXCEPT ![q.episode] = q.attempt] /\ forgotten' = forgotten
      /\ \A f \in Episodes : f # q.episode => revisions'[f] = revisions[f]
  BY <1>1, StoreRows
<1>3. Len(revisions'[q.episode]) > 0
  BY <1>1, StoreGrows
<1>4. CASE q.key = k
  <2>1. q.action = "interrupt" /\ q.attempt = a
    BY <1>4 DEF Sensible
  <2>2. operations'[k] = [episode |-> q.episode, request |-> q,
                          revision |-> Len(revisions'[q.episode])]
    BY <1>1, <1>4, StoreRows
  <2>3. e = q.episode
    BY <2>2
  <2> QED
    BY <1>1, <1>2, <1>3, <2>1, <2>3, StoreStops
<1>5. CASE q.key # k
  <2>1. operations'[k] = operations[k]
    BY <1>1, <1>5, StoreRows
  <2>2. /\ claim[e] = a /\ e \notin forgotten /\ Held(e) > 0
        /\ Current(e).phase \in {"interrupted", "settled"}
    BY <2>1 DEF InterruptedByKey
  <2>3. CASE e = q.episode
    <3>1. q.attempt = a
      BY <2>2, <2>3 DEF Store, Matches
    <3> QED
      BY <1>1, <1>2, <1>3, <2>2, <2>3, <3>1, StoreStops
  <2>4. CASE e # q.episode
    BY <1>1, <1>2, <2>2, <2>4 DEF Held, Current
  <2> QED
    BY <2>3, <2>4
<1> QED
  BY <1>4, <1>5

\* So does deletion: it fences the keys of what it deletes.
LEMMA ForgetInterrupts ==
  ASSUME Sound, InterruptedByKey, NEW f \in Episodes, Forget(f)
  PROVE  InterruptedByKey'
<1> SUFFICES ASSUME NEW a \in Attempts, NEW e \in Episodes,
                    operations'[InterruptKey[a]] # None,
                    operations'[InterruptKey[a]].revision > 0,
                    operations'[InterruptKey[a]].episode = e
             PROVE  /\ claim'[e] = a /\ e \notin forgotten' /\ Len(revisions'[e]) > 0
                    /\ revisions'[e][Len(revisions'[e])].phase \in {"interrupted", "settled"}
  BY DEF InterruptedByKey, Held, Current
<1> DEFINE k == InterruptKey[a]
<1>1. /\ claim' = claim /\ forgotten' = forgotten \cup {f}
      /\ \A g \in Episodes : g # f => revisions'[g] = revisions[g]
  BY DEF Forget, Sound, TypeOK
<1>2. k \in Keys /\ operations'[k] = IF operations[k] # None /\ operations[k].episode = f
                                     THEN Fence(f) ELSE operations[k]
  BY DEF Forget, Keys
<1>3. ~(operations[k] # None /\ operations[k].episode = f)
  <2>1. Fence(f).revision = 0
    BY DEF Fence
  <2> QED
    BY <1>2, <2>1
<1>4. operations'[k] = operations[k] /\ e # f
  BY <1>2, <1>3
<1>5. /\ claim[e] = a /\ e \notin forgotten /\ Held(e) > 0
      /\ Current(e).phase \in {"interrupted", "settled"}
  BY <1>4 DEF InterruptedByKey
<1> QED
  BY <1>1, <1>4, <1>5 DEF Held, Current

\* A change of one episode leaves nothing missed: recovery sees it touched.
LEMMA TouchMisses ==
  ASSUME Sound, NothingMissed, NEW f \in Episodes, Touch(f),
         \A e \in Episodes : e # f => claim'[e] = claim[e] /\ revisions'[e] = revisions[e]
  PROVE  NothingMissed'
<1>1. recovery \in RecoveryRows
  BY DEF Sound, TypeOK, RecoveryRows, ListedRows
<1>2. CASE recovery.stage = "off"
  <2>1. recovery' = recovery /\ recovery.cursor = 0
    BY <1>2 DEF Touch, NothingMissed
  <2> QED
    BY <2>1 DEF NothingMissed
<1>3. CASE recovery.stage # "off"
  <2>1. recovery' = [recovery EXCEPT !.touched = @ \cup {f}]
    BY <1>3 DEF Touch
  <2>2. /\ recovery'.stage = recovery.stage /\ recovery'.cursor = recovery.cursor
        /\ recovery'.listed = recovery.listed /\ recovery'.before = recovery.before
        /\ recovery'.touched = recovery.touched \cup {f}
    BY <1>1, <2>1 DEF RecoveryRows
  <2>3. 1..recovery.cursor \subseteq Episodes
    BY <1>1, EpisodesAssumption DEF RecoveryRows, Episodes
  <2>4. ASSUME NEW e \in 1..recovery.cursor, Open(e)'
        PROVE  \E i \in 1..Len(recovery.listed) : recovery.listed[i] = Found(e)'
    <3>1. e # f /\ e \in Episodes
      BY <2>2, <2>3, <2>4 DEF Open
    <3>2. claim'[e] = claim[e] /\ revisions'[e] = revisions[e]
      BY <3>1
    <3>3. Open(e) /\ Found(e)' = Found(e)
      BY <2>2, <2>4, <3>2 DEF Open, Unsettled, Found, Held, Current
    <3> QED
      BY <3>3 DEF NothingMissed
  <2> QED
    BY <1>3, <2>2, <2>4 DEF NothingMissed
<1> QED
  BY <1>2, <1>3

\* Recovery that looked at nothing missed nothing.
LEMMA NothingSeen ==
  ASSUME recovery'.cursor = 0
  PROVE  NothingMissed'
BY DEF NothingMissed

\* A listing step adds the row it looked at if it has to be marked.
LEMMA ListMisses ==
  ASSUME Sound, NothingMissed, ListNext
  PROVE  NothingMissed'
<1> DEFINE f == recovery.cursor + 1
<1>1. /\ recovery \in RecoveryRows /\ recovery.listed \in Seq(ListedRows)
      /\ recovery.stage = "listing" /\ recovery.cursor \in Nat
      /\ UNCHANGED store
  BY DEF Sound, TypeOK, RecoveryRows, ListedRows, ListNext
<1>2. recovery' = [recovery EXCEPT !.cursor = f,
                     !.listed = IF Unsettled(f) THEN Append(@, Found(f)) ELSE @]
  BY DEF ListNext, Found
<1>3. /\ recovery'.stage = "listing" /\ recovery'.cursor = f
      /\ recovery'.before = recovery.before /\ recovery'.touched = recovery.touched
      /\ recovery'.listed = IF Unsettled(f) THEN Append(recovery.listed, Found(f))
                                            ELSE recovery.listed
  BY <1>1, <1>2 DEF RecoveryRows
<1>4. f \in Episodes
  BY <1>1, EpisodesAssumption DEF ListNext, Episodes
<1>5. ASSUME NEW e \in 1..f, Open(e)'
      PROVE  \E i \in 1..Len(recovery'.listed) : recovery'.listed[i] = Found(e)'
  <2>1. Open(e) /\ Found(e)' = Found(e)
    BY <1>1, <1>3, <1>5 DEF Open, Unsettled, Found, Held, Current, store
  <2>2. CASE e = f
    <3>1. Unsettled(f)
      BY <2>1, <2>2 DEF Open
    <3>2. recovery'.listed = Append(recovery.listed, Found(f))
      BY <1>3, <3>1
    <3>3. Found(f) \in ListedRows
      BY <1>4, <3>1, FoundListed
    <3>4. /\ Len(recovery'.listed) = Len(recovery.listed) + 1
          /\ recovery'.listed[Len(recovery.listed) + 1] = Found(f)
          /\ Len(recovery.listed) \in Nat
      BY <1>1, <3>2, <3>3
    <3> QED
      BY <2>1, <2>2, <3>4
  <2>3. CASE e # f
    <3>1. e \in 1..recovery.cursor
      BY <1>1, <2>3
    <3>2. PICK i \in 1..Len(recovery.listed) : recovery.listed[i] = Found(e)
      BY <2>1, <3>1 DEF NothingMissed
    <3>3. i \in 1..Len(recovery'.listed) /\ recovery'.listed[i] = recovery.listed[i]
      BY <1>1, <1>3, <3>2
    <3> QED
      BY <2>1, <3>2, <3>3
  <2> QED
    BY <2>2, <2>3
<1> QED
  BY <1>3, <1>5 DEF NothingMissed

\* A row that stands as it was listed, of recovery's capability, is marked: the key
\* is free, the compare-and-swap holds, and the phase admits it.
LEMMA MarkedAsFound ==
  ASSUME Sound, InterruptedByKey, NEW e \in Episodes, Open(e),
         NEW q, q = MarkRequest(Found(e))
  PROVE  /\ q.attempt \in Recoverable
         /\ ~(operations[q.key] # None /\ operations[q.key].revision > 0)
         /\ Matches(q) /\ Admits(q)
<1> DEFINE a == claim[e]
<1>1. /\ Found(e) \in ListedRows /\ a \in Attempts /\ Held(e) > 0
      /\ Current(e).phase \in {"prepared", "dispatched"} /\ a \in Recoverable
  BY FoundListed DEF Open, Unsettled, Found, ListedRows
<1>2. /\ q.attempt = a /\ q.episode = e /\ q.expected = Held(e)
      /\ q.key = InterruptKey[a] /\ q.action = "interrupt"
  BY DEF MarkRequest, Found
<1>3. \A f \in Episodes : claim[f] = a => f = e
  BY <1>1, KeysAssumption DEF Sound, OneClaimEach
<1>4. ~(operations[q.key] # None /\ operations[q.key].revision > 0)
  <2>1. SUFFICES ASSUME operations[q.key] # None, operations[q.key].revision > 0
                 PROVE  FALSE
    OBVIOUS
  <2>2. operations[q.key] \in OperationRows
    BY <1>1, <1>2, <2>1 DEF Sound, TypeOK, Keys
  <2>3. operations[q.key].episode \in Episodes
    BY <2>2 DEF OperationRows
  <2>4. /\ claim[operations[q.key].episode] = a
        /\ Current(operations[q.key].episode).phase \in {"interrupted", "settled"}
    BY <1>1, <1>2, <2>1, <2>3 DEF InterruptedByKey
  <2>5. operations[q.key].episode = e
    BY <1>3, <2>3, <2>4
  <2> QED
    BY <1>1, <2>4, <2>5
<1>5. Matches(q)
  BY <1>2, <1>3 DEF Matches
<1>6. Admits(q)
  BY <1>1, <1>2 DEF Admits
<1> QED
  BY <1>1, <1>2, <1>4, <1>5, <1>6

\* Marking takes an entry from the list only when its row need not be marked now.
LEMMA MarkMisses ==
  ASSUME Sound, Covered, MarkNext
  PROVE  NothingMissed'
<1> DEFINE q == MarkRequest(Head(recovery.listed))
           rest == Tail(recovery.listed)
<1>1. /\ recovery \in RecoveryRows /\ recovery.listed \in Seq(ListedRows)
      /\ recovery.listed # <<>> /\ recovery.stage = "marking"
      /\ recovery' = [recovery EXCEPT !.listed = rest]
      /\ TypeOK /\ SentKnown /\ InterruptedByKey /\ NothingMissed
  BY DEF Sound, TypeOK, RecoveryRows, ListedRows, MarkNext, Covered
<1>2. /\ recovery'.stage = "marking" /\ recovery'.cursor = recovery.cursor
      /\ recovery'.before = recovery.before /\ recovery'.touched = recovery.touched
      /\ recovery'.listed = rest
  BY <1>1 DEF RecoveryRows
<1>3. 1..recovery.cursor \subseteq Episodes
  BY <1>1, EpisodesAssumption DEF RecoveryRows, Episodes
<1>4. ASSUME NEW e \in 1..recovery.cursor, NEW i \in 1..Len(recovery.listed), i # 1,
             recovery.listed[i] = Found(e)
      PROVE  \E j \in 1..Len(rest) : rest[j] = Found(e)
  <2>1. i - 1 \in 1..Len(rest) /\ rest[i - 1] = recovery.listed[i]
    BY <1>1, <1>4
  <2> QED
    BY <1>4, <2>1
<1>5. recovery.listed[1] = Head(recovery.listed)
  BY <1>1
<1>6. ASSUME NEW e \in 1..recovery.cursor, Open(e)'
      PROVE  \E j \in 1..Len(rest) : rest[j] = Found(e)'
  <2>1. CASE UNCHANGED store
    <3>1. Open(e) /\ Found(e)' = Found(e) /\ e \in Episodes
      BY <1>2, <1>3, <1>6, <2>1 DEF Open, Unsettled, Found, Held, Current, store
    <3>2. PICK i \in 1..Len(recovery.listed) : recovery.listed[i] = Found(e)
      BY <1>1, <3>1 DEF NothingMissed
    <3>3. ASSUME i = 1 PROVE FALSE
      <4>1. q = MarkRequest(Found(e))
        BY <1>5, <3>2, <3>3
      <4>2. /\ q.attempt \in Recoverable /\ Matches(q) /\ Admits(q)
            /\ ~(operations[q.key] # None /\ operations[q.key].revision > 0)
        BY <1>1, <3>1, <4>1, MarkedAsFound
      <4>3. Store(q)
        BY <4>2 DEF MarkNext
      <4>4. q \in Sensible
        BY <1>1, ListedSensible
      <4>5. operations[q.key] = None /\ operations'[q.key] # None
        BY <1>1, <4>3, <4>4, StoreRows DEF Store
      <4> QED
        BY <2>1, <4>5 DEF store
    <3> QED
      BY <1>4, <3>1, <3>2, <3>3
  <2>2. CASE Store(q)
    <3>1. q \in Sensible /\ q.action = "interrupt" /\ q.episode = Head(recovery.listed).episode
      BY <1>1, ListedSensible DEF MarkRequest
    <3>2. /\ claim' = [claim EXCEPT ![q.episode] = q.attempt]
          /\ \A f \in Episodes : f # q.episode => revisions'[f] = revisions[f]
          /\ claim \in [Episodes -> Attempts \cup {None}]
      BY <1>1, <2>2, <3>1, StoreRows DEF TypeOK
    <3>3. revisions'[q.episode][Len(revisions'[q.episode])].phase
             \in {"interrupted", "settled"}
      BY <2>2, <3>1, StoreStops
    <3>4. e # q.episode /\ e \in Episodes
      BY <1>3, <1>6, <3>3 DEF Open, Unsettled, Held, Current
    <3>5. claim'[e] = claim[e] /\ revisions'[e] = revisions[e]
      BY <3>2, <3>4
    <3>6. Open(e) /\ Found(e)' = Found(e)
      BY <1>2, <1>6, <3>5 DEF Open, Unsettled, Found, Held, Current
    <3>7. PICK i \in 1..Len(recovery.listed) : recovery.listed[i] = Found(e)
      BY <1>1, <3>6 DEF NothingMissed
    <3>8. i # 1
      <4>1. Found(e).episode = e
        BY DEF Found
      <4> QED
        BY <1>5, <3>1, <3>4, <3>7, <4>1
    <3> QED
      BY <1>4, <3>6, <3>7, <3>8
  <2> QED
    BY <2>1, <2>2 DEF MarkNext
<1> QED
  BY <1>2, <1>6 DEF NothingMissed

\* The inductive invariant of recovery holds at the start.
LEMMA CoveredInitially == Init => Covered
<1> SUFFICES ASSUME Init PROVE Covered
  OBVIOUS
<1>1. \A a \in Attempts : operations[InterruptKey[a]] = None
  BY DEF Init, Keys
<1>2. recovery.cursor = 0
  BY DEF Init, Off
<1> QED
  BY <1>1, <1>2 DEF Covered, InterruptedByKey, NothingMissed

\* Every step keeps it.
LEMMA CoveredKept == Sound /\ Covered /\ [Next]_vars => Covered'
<1> SUFFICES ASSUME Sound, Covered, [Next]_vars PROVE Covered'
  OBVIOUS
<1>0. /\ InterruptedByKey /\ NothingMissed /\ TypeOK /\ SentKnown
      /\ recovery \in RecoveryRows /\ claim \in [Episodes -> Attempts \cup {None}]
  BY DEF Covered, Sound, TypeOK, RecoveryRows, ListedRows
<1>1. ASSUME UNCHANGED store PROVE InterruptedByKey'
  BY <1>0, <1>1 DEF InterruptedByKey, Held, Current, store
<1>2. ASSUME UNCHANGED <<store, recovery>> PROVE Covered'
  <2>1. NothingMissed'
    BY <1>0, <1>2 DEF NothingMissed, Open, Unsettled, Found, Held, Current, store
  <2> QED
    BY <1>1, <1>2, <2>1 DEF Covered
<1>3. ASSUME NEW q \in Requests, Call(q) PROVE Covered'
  <2>1. q \in Sensible /\ Store(q) /\ Touch(q.episode) /\ q.episode \in Episodes
    BY <1>3, RequestsSensible, SensibleParts DEF Call
  <2>2. \A e \in Episodes : e # q.episode => claim'[e] = claim[e] /\ revisions'[e] = revisions[e]
    BY <1>0, <2>1, StoreRows
  <2> QED
    BY <1>0, <2>1, <2>2, StoreInterrupts, TouchMisses DEF Covered
<1>4. ASSUME NEW f \in Episodes, Forget(f) PROVE Covered'
  <2>1. \A e \in Episodes : e # f => claim'[e] = claim[e] /\ revisions'[e] = revisions[e]
    BY <1>0, <1>4 DEF Forget, TypeOK
  <2>2. Touch(f)
    BY <1>4 DEF Forget
  <2> QED
    BY <1>0, <1>4, <2>1, <2>2, ForgetInterrupts, TouchMisses DEF Covered
<1>5. CASE Restart
  <2>1. recovery'.cursor = 0 /\ UNCHANGED store
    BY <1>5 DEF Restart, Off
  <2> QED
    BY <1>1, <2>1, NothingSeen DEF Covered
<1>6. CASE ListNext
  BY <1>0, <1>1, <1>6, ListMisses DEF ListNext, Covered
<1>7. CASE ListDone
  <2>1. /\ recovery'.stage = "marking" /\ recovery'.cursor = recovery.cursor
        /\ recovery'.before = recovery.before /\ recovery'.touched = recovery.touched
        /\ recovery'.listed = recovery.listed /\ UNCHANGED store
    BY <1>0, <1>7 DEF ListDone, RecoveryRows
  <2>2. NothingMissed'
    BY <1>0, <2>1 DEF NothingMissed, Open, Unsettled, Found, Held, Current, store
  <2> QED
    BY <1>1, <2>1, <2>2 DEF Covered
<1>8. ASSUME recovery.listed # <<>>, Store(MarkRequest(Head(recovery.listed)))
      PROVE  InterruptedByKey'
  BY <1>0, <1>8, ListedSensible, StoreInterrupts
<1>9. CASE MarkNext
  BY <1>1, <1>8, <1>9, MarkMisses DEF MarkNext, Covered
<1>10. CASE RecoveryFails
  <2>1. recovery'.cursor = 0
    BY <1>10 DEF RecoveryFails, Off
  <2>2. InterruptedByKey'
    BY <1>1, <1>8, <1>10 DEF RecoveryFails
  <2> QED
    BY <2>1, <2>2, NothingSeen DEF Covered
<1>11. CASE RecoveryEnds
  <2>1. recovery'.cursor = 0 /\ UNCHANGED store
    BY <1>11 DEF RecoveryEnds, Off
  <2> QED
    BY <1>1, <2>1, NothingSeen DEF Covered
<1> QED
  BY <1>2, <1>3, <1>4, <1>5, <1>6, <1>7, <1>9, <1>10, <1>11
  DEF Next, Repeat, ClockMoves, vars

\* What RecoveryComplete asks of a step.
EndsComplete ==
    RecoveryEnds /\ recovery.cursor = LastEpisode =>
      \A e \in Episodes :
        /\ Held(e) > 0 /\ claim[e] \in Recoverable
        /\ Current(e).phase \in {"prepared", "dispatched"}
        /\ Current(e).begun < recovery.before
        => e \in recovery.touched

\* A recovery that covered the rows it looked at misses none at its end.
LEMMA EndMissesNothing == Sound /\ Covered => EndsComplete
<1> SUFFICES ASSUME Sound, Covered, RecoveryEnds, recovery.cursor = LastEpisode,
                    NEW e \in Episodes, Unsettled(e), claim[e] \in Recoverable
             PROVE  e \in recovery.touched
  BY DEF EndsComplete, Unsettled
<1>1. e \in 1..recovery.cursor /\ recovery.listed = <<>> /\ NothingMissed
  BY DEF Episodes, RecoveryEnds, Covered
<1>2. ~Open(e)
  BY <1>1 DEF NothingMissed
<1> QED
  BY <1>2 DEF Open

\* A recovery that looked at every row and met no error leaves nothing of its
\* capability prepared or dispatched from before the start, except what somebody
\* changed meanwhile (RecoverUnsettled, journal.go:316-347).
THEOREM RecoveryMissesNothing == Spec => RecoveryComplete
<1>1. Spec => [](Sound /\ Covered)
  <2>1. Init => Sound /\ Covered
    BY SoundInitially, CoveredInitially
  <2>2. (Sound /\ Covered) /\ [Next]_vars => (Sound /\ Covered)'
    BY SoundKept, CoveredKept
  <2> QED
    BY <2>1, <2>2, PTL DEF Spec
<1>2. Sound /\ Covered => [EndsComplete]_vars
  BY EndMissesNothing
<1>3. Spec => [][EndsComplete]_vars
  BY <1>1, <1>2, PTL
<1> QED
  BY <1>3 DEF RecoveryComplete, EndsComplete
=============================================================================
