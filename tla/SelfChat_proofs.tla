---------------------------- MODULE SelfChat_proofs ----------------------------
(***************************************************************************)
(* Proofs about the phone and the desktop that share one archive, for any  *)
(* numbers of conversations, phone goroutines and messages.                *)
(*                                                                         *)
(* The inductive invariant Sound says who holds the lock, and that every   *)
(* version of a conversation that anyone remembers, in the list, for the   *)
(* deletion or while answering, is either out of date by its revision or   *)
(* what the archive still holds.                                           *)
(***************************************************************************)
EXTENDS SelfChat, FiniteSetTheorems, SequenceTheorems, TLAPS

\* The conversations of a list are each in it once.
Once(seq) == \A i, j \in 1 .. Len(seq) : seq[i] = seq[j] => i = j

\* The archive's list names a conversation once.
ListedOnce == Once(order)

\* What was created has a version, and no more turns than the bound.
Versioned ==
    \A id \in created : conv[id].revision # 0 /\ Len(conv[id].sends) <= MaxTurns

\* What the archive holds is well formed.
Archived ==
    /\ order \in Seq(created) /\ created \subseteq Conversation
    /\ conv \in [Conversation -> Record]
    /\ ListedOnce /\ Versioned

\* The kinds of what the phone's goroutines are at.
Answering ==
    /\ lock \in Phone \cup {None}
    /\ pc \in [Phone -> {"idle", "chosen", "ready", "renaming"}]
    /\ message \in [Phone -> Message \cup {None}]

\* Whoever is in a section of the phone holds the lock, and has what it needs.
Locked ==
    \A p \in Phone :
        /\ pc[p] # "idle" => lock = p
        /\ pc[p] \in {"chosen", "ready"} => message[p] # None
        /\ pc[p] \in {"ready", "renaming"} => held[p] # None

\* A version that was read is the current one, or has a smaller revision.
Recalled(seen) ==
    /\ seen.revision <= conv[seen.id].revision
    /\ seen.revision = conv[seen.id].revision => seen = Seen(seen.id)

\* So is every version that is remembered while answering, in the list that was
\* shown, and for the deletion that was asked about.
HeldRecalled ==
    /\ held \in [Phone -> SeenRecord \cup {None}]
    /\ \A p \in Phone : held[p] # None => Recalled(held[p])
ListedRecalled ==
    /\ listed \in Seq(SeenRecord)
    /\ \A i \in 1 .. Len(listed) : Recalled(listed[i])
PendingRecalled ==
    /\ pending \in SeenRecord \cup {None}
    /\ pending # None => Recalled(pending)

\* Since a message found no conversation, only the desktop started any.
NoneContinued ==
    \A p \in Phone : pc[p] = "chosen" /\ held[p] = None =>
        \A id \in Kept : conv[id].by = "desktop"

\* The inductive invariant.
Sound ==
    /\ Archived /\ Answering /\ Locked
    /\ HeldRecalled /\ ListedRecalled /\ PendingRecalled
    /\ NoneContinued
--------------------------------------------------------------------------------
(* The archive's statements.                                                   *)

\* Without gives a list of the others, each of them once.
LEMMA WithoutOne ==
    ASSUME NEW S, NEW seq \in Seq(S), NEW k \in 1 .. Len(seq), Once(seq)
    PROVE  /\ Without(seq, seq[k]) \in Seq(S)
           /\ Once(Without(seq, seq[k]))
           /\ \A i \in 1 .. Len(Without(seq, seq[k])) :
                \E j \in 1 .. Len(seq) : j # k /\ Without(seq, seq[k])[i] = seq[j]
<1>1. PICK at : at = CHOOSE i \in DOMAIN seq : seq[i] = seq[k]
  OBVIOUS
<1>2. at = k
  BY <1>1 DEF Once
<1>3. Without(seq, seq[k]) = SubSeq(seq, 1, k - 1) \o SubSeq(seq, k + 1, Len(seq))
  BY <1>1, <1>2 DEF Without
<1>4. /\ SubSeq(seq, 1, k - 1) \in Seq(S) /\ Len(SubSeq(seq, 1, k - 1)) = k - 1
      /\ \A i \in 1 .. (k - 1) : SubSeq(seq, 1, k - 1)[i] = seq[i]
  OBVIOUS
<1>5. /\ SubSeq(seq, k + 1, Len(seq)) \in Seq(S) /\ Len(SubSeq(seq, k + 1, Len(seq))) = Len(seq) - k
      /\ \A i \in 1 .. (Len(seq) - k) : SubSeq(seq, k + 1, Len(seq))[i] = seq[i + k]
  OBVIOUS
<1>a. PICK a : a = SubSeq(seq, 1, k - 1)
  OBVIOUS
<1>b. PICK b : b = SubSeq(seq, k + 1, Len(seq))
  OBVIOUS
<1>c. a \in Seq(S) /\ Len(a) = k - 1 /\ \A i \in 1 .. (k - 1) : a[i] = seq[i]
  BY <1>4, <1>a, Zenon
<1>d. b \in Seq(S) /\ Len(b) = Len(seq) - k /\ \A i \in 1 .. (Len(seq) - k) : b[i] = seq[i + k]
  BY <1>5, <1>b, Zenon
<1>6. PICK w : w = a \o b
  OBVIOUS
<1>7. /\ w \in Seq(S) /\ Len(w) = Len(seq) - 1
      /\ \A i \in 1 .. Len(w) : w[i] = IF i <= k - 1 THEN a[i] ELSE b[i - (k - 1)]
  <2>1. /\ a \o b \in Seq(S) /\ Len(a \o b) = Len(a) + Len(b)
        /\ \A i \in 1 .. Len(a) + Len(b) : (a \o b)[i] = IF i <= Len(a) THEN a[i] ELSE b[i - Len(a)]
    BY <1>c, <1>d, ConcatProperties
  <2>2. Len(a) + Len(b) = Len(seq) - 1
    BY <1>c, <1>d
  <2> QED
    BY <2>1, <2>2, <1>6, <1>c
<1>8. ASSUME NEW i \in 1 .. Len(w)
      PROVE  w[i] = seq[IF i < k THEN i ELSE i + 1]
  <2>1. CASE i < k
    BY <2>1, <1>c, <1>7
  <2>2. CASE i >= k
    <3>1. w[i] = b[i - (k - 1)]
      BY <2>2, <1>7
    <3>2. i - (k - 1) \in 1 .. (Len(seq) - k)
      BY <2>2, <1>7
    <3> QED
      BY <3>1, <3>2, <2>2, <1>d
  <2> QED
    BY <2>1, <2>2
<1>9. Once(w)
  BY <1>7, <1>8 DEF Once
<1>10. ASSUME NEW i \in 1 .. Len(w)
       PROVE  \E j \in 1 .. Len(seq) : j # k /\ w[i] = seq[j]
  <2>1. /\ (IF i < k THEN i ELSE i + 1) \in 1 .. Len(seq)
        /\ (IF i < k THEN i ELSE i + 1) # k
    BY <1>7
  <2> QED
    BY <2>1, <1>8, Zenon
<1>11. Without(seq, seq[k]) = w
  BY <1>3, <1>a, <1>b, <1>6, Zenon
<1> QED
  BY <1>7, <1>9, <1>10, <1>11, Zenon

\* A conversation put in front of a list it is not in.
LEMMA FrontedOnce ==
    ASSUME NEW S, NEW seq \in Seq(S), Once(seq), NEW x \in S,
           \A i \in 1 .. Len(seq) : seq[i] # x
    PROVE  /\ <<x>> \o seq \in Seq(S)
           /\ Once(<<x>> \o seq)
           /\ \A i \in 1 .. Len(<<x>> \o seq) :
                \/ (<<x>> \o seq)[i] = x
                \/ \E j \in 1 .. Len(seq) : (<<x>> \o seq)[i] = seq[j]
<1>1. PICK w : w = <<x>> \o seq
  OBVIOUS
<1>2. w \in Seq(S) /\ Len(w) = Len(seq) + 1 /\ w[1] = x
  BY <1>1
<1>3. ASSUME NEW i \in 1 .. Len(w), i # 1
      PROVE  i - 1 \in 1 .. Len(seq) /\ w[i] = seq[i - 1]
  BY <1>1, <1>2, <1>3
<1>4. Once(w)
  <2> SUFFICES ASSUME NEW i \in 1 .. Len(w), NEW j \in 1 .. Len(w), w[i] = w[j]
               PROVE  i = j
    BY DEF Once
  <2>1. CASE i = 1 \/ j = 1
    BY <2>1, <1>2, <1>3
  <2>2. CASE i # 1 /\ j # 1
    <3>1. i - 1 \in 1 .. Len(seq) /\ j - 1 \in 1 .. Len(seq) /\ seq[i - 1] = seq[j - 1]
      BY <2>2, <1>3
    <3>2. i - 1 = j - 1
      BY <3>1, Zenon DEF Once
    <3> QED
      BY <3>2
  <2> QED
    BY <2>1, <2>2
<1>5. \A i \in 1 .. Len(w) : w[i] = x \/ \E j \in 1 .. Len(seq) : w[i] = seq[j]
  BY <1>2, <1>3
<1> QED
  BY <1>1, <1>2, <1>4, <1>5, Zenon

--------------------------------------------------------------------------------
(* What every change of the archive keeps, whoever makes it.                   *)

\* The archive stays well formed, forgets nothing that was created, and a
\* conversation that changes gets a larger revision.
Goes ==
    /\ order' \in Seq(created')
    /\ created \subseteq created' /\ created' \subseteq Conversation
    /\ conv' \in [Conversation -> Record]
    /\ ListedOnce' /\ Versioned'
    /\ \A id \in created : conv'[id] = conv[id] \/ conv'[id].revision > conv[id].revision

\* It starts nothing, or what it starts is the desktop's.
Desktops ==
    \A id \in Kept' : (id \in Kept /\ conv'[id].by = conv[id].by) \/ conv'[id].by = "desktop"

\* A conversation of the list was created.
LEMMA KeptCreated ==
    ASSUME Archived, NEW id \in Kept
    PROVE  id \in created /\ id \in Conversation /\ \E k \in 1 .. Len(order) : order[k] = id
  BY DEF Archived, Kept

\* So it is when the archive stays as it is.
LEMMA StillGoes ==
    ASSUME Archived, UNCHANGED archive
    PROVE  Goes /\ Desktops
<1>1. order' = order /\ created' = created /\ conv' = conv
  BY DEF archive
<1>2. Goes
  BY <1>1 DEF Goes, Archived, ListedOnce, Versioned
<1>3. Desktops
  BY <1>1 DEF Desktops, Kept
<1> QED
  BY <1>2, <1>3

\* Create starts one conversation and leaves the others as they are.
LEMMA CreateGoes ==
    ASSUME Archived, NEW id \in Conversation, NEW titled \in BOOLEAN,
           NEW by \in {"phone", "desktop"}, Create(id, titled, by)
    PROVE  /\ Goes
           /\ by = "desktop" => Desktops
           /\ id \in created' /\ conv'[id].sends = <<>> /\ conv'[id].revision = 1
           /\ conv'[id].titled = titled
<1> DEFINE new == [titled |-> titled, by |-> by, revision |-> 1, sends |-> <<>>]
<1>2. 1 \in 0 .. MaxRevision /\ MaxTurns \in Nat
  BY SizesAssumption
<1>4. new.sends = <<>> /\ new.revision = 1 /\ new.titled = titled /\ new.by = by
  OBVIOUS
<1>3. new \in Record
  <2>1. <<>> \in Seq(Message \cup {DesktopSend})
    OBVIOUS
  <2> QED
    BY <1>2, <2>1, Zenon DEF Record
<1> HIDE DEF new
<1>5. /\ id \notin created /\ created' = created \cup {id}
      /\ conv' = [conv EXCEPT ![id] = new]
      /\ order' = <<id>> \o order
  BY DEF Create, new
<1>6. conv' \in [Conversation -> Record] /\ conv'[id] = new
      /\ \A other \in Conversation : other # id => conv'[other] = conv[other]
  BY <1>3, <1>5 DEF Archived
<1>7. order \in Seq(created')
  BY <1>5 DEF Archived
<1>8. \A i \in 1 .. Len(order) : order[i] # id
  BY <1>5 DEF Archived
<1>9. /\ order' \in Seq(created') /\ Once(order')
      /\ \A i \in 1 .. Len(order') : order'[i] = id \/ \E j \in 1 .. Len(order) : order'[i] = order[j]
  BY <1>5, <1>7, <1>8, FrontedOnce DEF Archived, ListedOnce
<1>10. Versioned'
  BY <1>2, <1>4, <1>5, <1>6 DEF Archived, Versioned
<1>11. Goes
  BY <1>5, <1>6, <1>9, <1>10 DEF Goes, Archived, ListedOnce
<1>12. ASSUME by = "desktop" PROVE Desktops
  BY <1>12, <1>4, <1>5, <1>6, <1>9 DEF Desktops, Kept, Archived
<1> QED
  BY <1>4, <1>5, <1>6, <1>11, <1>12

\* Change gives one conversation its next revision and puts it first.
LEMMA ChangeGoes ==
    ASSUME Archived, NEW id \in Kept, NEW changed \in Record, Len(changed.sends) <= MaxTurns,
           changed.by = conv[id].by, changed.revision = conv[id].revision, Change(id, changed)
    PROVE  Goes /\ Desktops
<1> DEFINE new == [changed EXCEPT !.revision = @ + 1]
<1>1. id \in created /\ id \in Conversation
  BY KeptCreated
<1>2. PICK k \in 1 .. Len(order) : order[k] = id
  BY KeptCreated
<1>3. conv[id] \in Record /\ conv[id].revision \in 0 .. MaxRevision
  BY <1>1 DEF Archived, Record
<1>4. conv[id].revision < MaxRevision
  BY DEF Change
<1>5. changed.revision + 1 \in 0 .. MaxRevision /\ changed.revision + 1 # 0
  BY <1>3, <1>4, SizesAssumption
<1>6. /\ new \in Record /\ new.revision = changed.revision + 1
      /\ new.by = changed.by /\ new.sends = changed.sends
  BY <1>5 DEF Record
<1> HIDE DEF new
<1>7. conv' = [conv EXCEPT ![id] = new] /\ order' = <<id>> \o Without(order, id) /\ created' = created
  BY DEF Change, new
<1>8. conv' \in [Conversation -> Record] /\ conv'[id] = new
      /\ \A other \in Conversation : other # id => conv'[other] = conv[other]
  BY <1>1, <1>6, <1>7 DEF Archived
<1>9. PICK rest : rest = Without(order, id)
  OBVIOUS
<1>10. /\ rest \in Seq(created) /\ Once(rest)
       /\ \A i \in 1 .. Len(rest) : \E j \in 1 .. Len(order) : j # k /\ rest[i] = order[j]
  <2>1. order \in Seq(created) /\ Once(order) /\ rest = Without(order, order[k])
    BY <1>2, <1>9, Zenon DEF Archived, ListedOnce
  <2>2. /\ Without(order, order[k]) \in Seq(created) /\ Once(Without(order, order[k]))
        /\ \A i \in 1 .. Len(Without(order, order[k])) :
             \E j \in 1 .. Len(order) : j # k /\ Without(order, order[k])[i] = order[j]
    <3>1. order \in Seq(created)
      BY <2>1
    <3>2. Once(order)
      BY <2>1, Zenon
    <3>3. k \in 1 .. Len(order)
      BY <1>2
    <3> QED
      BY <3>1, <3>2, <3>3, WithoutOne
  <2> QED
    BY <2>1, <2>2, Zenon
<1>11. \A i \in 1 .. Len(rest) : rest[i] # id
  BY <1>2, <1>10 DEF Archived, ListedOnce, Once
<1>12. /\ order' \in Seq(created) /\ Once(order')
       /\ \A i \in 1 .. Len(order') : order'[i] = id \/ \E j \in 1 .. Len(rest) : order'[i] = rest[j]
  <2>1. order' = <<id>> \o rest
    BY <1>7, <1>9, Zenon
  <2>2. /\ <<id>> \o rest \in Seq(created) /\ Once(<<id>> \o rest)
        /\ \A i \in 1 .. Len(<<id>> \o rest) :
             (<<id>> \o rest)[i] = id \/ \E j \in 1 .. Len(rest) : (<<id>> \o rest)[i] = rest[j]
    <3>1. rest \in Seq(created)
      BY <1>10
    <3>2. Once(rest)
      BY <1>10, Zenon
    <3>3. \A i \in 1 .. Len(rest) : rest[i] # id
      BY <1>11
    <3>4. id \in created
      BY <1>1
    <3> QED
      BY <3>1, <3>2, <3>3, <3>4, FrontedOnce
  <2> QED
    BY <2>1, <2>2, Zenon
<1>13. Versioned'
  BY <1>1, <1>5, <1>6, <1>7, <1>8 DEF Archived, Versioned
<1>14. conv'[id].revision > conv[id].revision
  BY <1>3, <1>6, <1>8
<1>15. Goes
  BY <1>7, <1>8, <1>12, <1>13, <1>14 DEF Goes, Archived, ListedOnce
<1>16. \A other \in Kept' : other \in Kept
  <2>1. \A i \in 1 .. Len(order') : order'[i] = id \/ \E j \in 1 .. Len(order) : order'[i] = order[j]
    BY <1>10, <1>12
  <2>2. \A i \in 1 .. Len(order') : order'[i] \in Kept
    BY <2>1 DEF Kept, Archived
  <2> QED
    BY <2>2, <1>12 DEF Kept
<1>17. Desktops
  BY <1>6, <1>8, <1>16, KeptCreated DEF Desktops
<1> QED
  BY <1>15, <1>17

\* Rename and Touch.
LEMMA EditGoes ==
    ASSUME Archived, NEW seen, NEW titled \in BOOLEAN, Edit(seen, titled)
    PROVE  Goes /\ Desktops
<1>1. CASE Current(seen)
  <2> DEFINE changed == [conv[seen.id] EXCEPT !.titled = titled]
  <2>1. seen.id \in Kept /\ seen.id \in created /\ conv[seen.id] \in Record
    BY <1>1, KeptCreated DEF Current, Archived
  <2>2. /\ changed \in Record /\ changed.by = conv[seen.id].by
        /\ changed.revision = conv[seen.id].revision /\ changed.sends = conv[seen.id].sends
    BY <2>1 DEF Record
  <2>3. Len(changed.sends) <= MaxTurns
    BY <2>1, <2>2 DEF Archived, Versioned
  <2>4. Change(seen.id, changed)
    BY <1>1 DEF Edit
  <2> HIDE DEF changed
  <2> QED
    BY <2>1, <2>2, <2>3, <2>4, ChangeGoes
<1>2. CASE ~Current(seen)
  BY <1>2, StillGoes DEF Edit
<1> QED
  BY <1>1, <1>2

\* Delete takes the conversation out of the list, or leaves it there.
LEMMA DeleteGoes ==
    ASSUME Archived, NEW seen, Delete(seen)
    PROVE  Goes /\ Desktops
<1>1. created' = created /\ conv' = conv
  BY DEF Delete
<1>2. CASE Current(seen)
  <2>1. PICK k \in 1 .. Len(order) : order[k] = seen.id
    BY <1>2, KeptCreated DEF Current
  <2>2. order' = Without(order, order[k])
    BY <1>2, <2>1 DEF Delete
  <2>3. /\ Without(order, order[k]) \in Seq(created) /\ Once(Without(order, order[k]))
        /\ \A i \in 1 .. Len(Without(order, order[k])) :
             \E j \in 1 .. Len(order) : j # k /\ Without(order, order[k])[i] = order[j]
    <3>1. order \in Seq(created)
      BY DEF Archived
    <3>2. Once(order)
      BY DEF Archived, ListedOnce
    <3>3. k \in 1 .. Len(order)
      BY <2>1
    <3> QED
      BY <3>1, <3>2, <3>3, WithoutOne
  <2>4. /\ order' \in Seq(created) /\ Once(order')
        /\ \A i \in 1 .. Len(order') : \E j \in 1 .. Len(order) : j # k /\ order'[i] = order[j]
    BY <2>2, <2>3, Zenon
  <2>5. Goes
    BY <1>1, <2>4 DEF Goes, Archived, ListedOnce, Versioned
  <2>6. \A i \in 1 .. Len(order') : order'[i] \in Kept
    BY <2>4 DEF Kept, Archived
  <2>7. Desktops
    BY <1>1, <2>4, <2>6 DEF Desktops, Kept
  <2> QED
    BY <2>5, <2>7
<1>3. CASE ~Current(seen)
  <2>1. UNCHANGED archive
    BY <1>1, <1>3 DEF Delete, archive
  <2> QED
    BY <2>1, StillGoes
<1> QED
  BY <1>2, <1>3

\* BeginTurn adds a turn, within the bound.
LEMMA BeginGoes ==
    ASSUME Archived, NEW id \in Kept, NEW send \in Message \cup {DesktopSend}, Begin(id, send)
    PROVE  Goes /\ Desktops
<1> DEFINE changed == [conv[id] EXCEPT !.sends = Append(@, send)]
<1>1. id \in created /\ conv[id] \in Record
  BY KeptCreated DEF Archived
<1>2. /\ changed \in Record /\ changed.by = conv[id].by /\ changed.revision = conv[id].revision
      /\ Len(changed.sends) = Len(conv[id].sends) + 1
  <2>1. PICK longer : longer = Append(conv[id].sends, send)
    OBVIOUS
  <2>2. conv[id].sends \in Seq(Message \cup {DesktopSend})
    BY <1>1 DEF Record
  <2>3. longer \in Seq(Message \cup {DesktopSend}) /\ Len(longer) = Len(conv[id].sends) + 1
    BY <2>1, <2>2
  <2>4. changed = [conv[id] EXCEPT !.sends = longer]
    BY <2>1
  <2> HIDE DEF changed
  <2> QED
    BY <1>1, <2>3, <2>4 DEF Record
<1>3. Len(conv[id].sends) < MaxTurns /\ Len(conv[id].sends) \in Nat /\ Change(id, changed)
  BY <1>1 DEF Begin, Record
<1> HIDE DEF changed
<1>4. Len(changed.sends) <= MaxTurns
  BY <1>2, <1>3, SizesAssumption
<1> QED
  BY <1>2, <1>3, <1>4, ChangeGoes
--------------------------------------------------------------------------------
(* What is remembered of the archive.                                          *)

\* A version that was read stays a version of its conversation: the current
\* one, or one with a smaller revision.
LEMMA RecalledStays ==
    ASSUME Archived, Goes, NEW seen \in SeenRecord, Recalled(seen)
    PROVE  seen \in SeenRecord' /\ Recalled(seen)'
<1>1. seen.id \in created /\ seen.revision \in Nat /\ created \subseteq created'
  BY DEF SeenRecord, Goes
<1>2. seen \in SeenRecord'
  BY <1>1, Zenon DEF SeenRecord
<1>3. /\ conv[seen.id].revision \in Nat /\ conv'[seen.id].revision \in Nat
  BY <1>1 DEF Archived, Goes, Record
<1>4. Recalled(seen)'
  <2>1. CASE conv'[seen.id] = conv[seen.id]
    BY <2>1 DEF Recalled, Seen
  <2>2. CASE conv'[seen.id].revision > conv[seen.id].revision
    BY <1>1, <1>3, <2>2 DEF Recalled
  <2> QED
    BY <1>1, <2>1, <2>2 DEF Goes
<1> QED
  BY <1>2, <1>4

\* A version is one when it is read.
LEMMA SeenRecalled ==
    ASSUME Archived, NEW id \in created
    PROVE  /\ Seen(id) \in SeenRecord /\ Recalled(Seen(id)) /\ Seen(id) # None
           /\ Seen(id).id = id
<1>1. /\ conv[id] \in Record /\ conv[id].revision # 0 /\ Len(conv[id].sends) <= MaxTurns
      /\ id \in Conversation
  BY DEF Archived, Versioned
<1>2. /\ conv[id].titled \in BOOLEAN /\ conv[id].revision \in 1 .. MaxRevision
      /\ Len(conv[id].sends) \in 0 .. MaxTurns
  BY <1>1, SizesAssumption DEF Record
<1>3. Seen(id) \in SeenRecord
  BY <1>2, Zenon DEF Seen, SeenRecord
<1>4. Seen(id) \in [id : Conversation, titled : BOOLEAN, revision : 1 .. MaxRevision,
                    turns : 0 .. MaxTurns]
  BY <1>1, <1>2, Zenon DEF Seen
<1>5. Seen(id).id = id /\ Seen(id).revision = conv[id].revision
  BY DEF Seen
<1>6. Recalled(Seen(id))
  BY <1>2, <1>5 DEF Recalled
<1> QED
  BY <1>3, <1>4, <1>5, <1>6, NoneAssumption

\* What starts a conversation reads it as it was started.
LEMMA NewRecalled ==
    ASSUME Archived, Goes, NEW id \in Conversation, id \in created',
           conv'[id].sends = <<>>, conv'[id].revision = 1
    PROVE  Seen(id)' \in SeenRecord' /\ Recalled(Seen(id))' /\ Seen(id)' # None
<1>1. /\ conv'[id].titled \in BOOLEAN /\ conv'[id].revision \in 1 .. MaxRevision
      /\ Len(conv'[id].sends) \in 0 .. MaxTurns
  <2>1. conv'[id].titled \in BOOLEAN /\ Len(conv'[id].sends) = 0
    BY DEF Goes, Record
  <2> QED
    BY <2>1, SizesAssumption
<1>2. Seen(id)' \in SeenRecord'
  BY <1>1, Zenon DEF Seen, SeenRecord
<1>3. Seen(id)' \in [id : Conversation, titled : BOOLEAN, revision : 1 .. MaxRevision,
                     turns : 0 .. MaxTurns]
  BY <1>1, Zenon DEF Seen
<1>4. Recalled(Seen(id))'
  BY <1>1 DEF Recalled, Seen
<1> QED
  BY <1>2, <1>3, <1>4, NoneAssumption

\* The versions remembered while answering outlive a change of the archive.
LEMMA HeldStays ==
    ASSUME Archived, Goes, HeldRecalled, held' = held
    PROVE  HeldRecalled'
<1>1. ASSUME NEW p \in Phone, held[p] # None
      PROVE  held'[p] \in SeenRecord' /\ Recalled(held[p])'
  <2>1. PICK seen \in SeenRecord : seen = held[p] /\ seen = held'[p]
    BY <1>1 DEF HeldRecalled
  <2>2. Recalled(seen)
    BY <1>1, <2>1 DEF HeldRecalled
  <2>3. seen \in SeenRecord' /\ Recalled(seen)'
    BY <2>2, RecalledStays
  <2> QED
    BY <2>1, <2>3 DEF Recalled, Seen
<1> QED
  BY <1>1 DEF HeldRecalled

\* A goroutine that reads one, or forgets it, leaves the others' as they are.
LEMMA HeldSet ==
    ASSUME Archived, Goes, HeldRecalled, NEW q \in Phone, NEW new,
           new # None => new \in SeenRecord' /\ Recalled(new)',
           held' = [held EXCEPT ![q] = new]
    PROVE  HeldRecalled'
<1>1. ASSUME NEW p \in Phone, held'[p] # None
      PROVE  held'[p] \in SeenRecord' /\ Recalled(held[p])'
  <2>1. CASE p = q
    <3>1. held'[p] = new
      BY <2>1 DEF HeldRecalled
    <3> QED
      BY <1>1, <3>1 DEF Recalled, Seen
  <2>2. CASE p # q
    <3>1. PICK seen \in SeenRecord : seen = held[p] /\ seen = held'[p]
      BY <1>1, <2>2 DEF HeldRecalled
    <3>2. Recalled(seen)
      BY <1>1, <2>2, <3>1 DEF HeldRecalled
    <3>3. seen \in SeenRecord' /\ Recalled(seen)'
      BY <3>2, RecalledStays
    <3> QED
      BY <3>1, <3>3 DEF Recalled, Seen
  <2> QED
    BY <2>1, <2>2
<1> QED
  BY <1>1 DEF HeldRecalled

\* So does the list that was shown, until it is used up.
LEMMA ListedStays ==
    ASSUME Archived, Goes, ListedRecalled, listed' = listed \/ listed' = <<>>
    PROVE  ListedRecalled'
<1>1. CASE listed' = <<>>
  BY <1>1 DEF ListedRecalled
<1>2. CASE listed' = listed
  <2>1. ASSUME NEW i \in 1 .. Len(listed)
        PROVE  listed'[i] \in SeenRecord' /\ Recalled(listed[i])'
    <3>1. PICK seen \in SeenRecord : seen = listed[i] /\ seen = listed'[i]
      BY <1>2 DEF ListedRecalled
    <3>2. Recalled(seen)
      BY <3>1 DEF ListedRecalled
    <3>3. seen \in SeenRecord' /\ Recalled(seen)'
      BY <3>2, RecalledStays
    <3> QED
      BY <3>1, <3>3 DEF Recalled, Seen
  <2> QED
    BY <1>2, <2>1 DEF ListedRecalled
<1> QED
  BY <1>1, <1>2

\* And the version /sim would delete, until it is answered or out of date.
LEMMA PendingStays ==
    ASSUME Archived, Goes, PendingRecalled, pending' = pending \/ pending' = None
    PROVE  PendingRecalled'
<1>1. CASE pending' = None
  BY <1>1 DEF PendingRecalled
<1>2. CASE pending' = pending /\ pending # None
  <2>1. PICK seen \in SeenRecord : seen = pending /\ seen = pending'
    BY <1>2 DEF PendingRecalled
  <2>2. Recalled(seen)
    BY <1>2, <2>1 DEF PendingRecalled
  <2>3. seen \in SeenRecord' /\ Recalled(seen)'
    BY <2>2, RecalledStays
  <2> QED
    BY <2>1, <2>3 DEF PendingRecalled, Recalled, Seen
<1> QED
  BY <1>1, <1>2

\* With the desktop's changes only, what a message found none of stays so.
LEMMA DesktopsContinue ==
    ASSUME NoneContinued, Desktops,
           \A p \in Phone : pc'[p] = "chosen" /\ held'[p] = None
                            => pc[p] = "chosen" /\ held[p] = None
    PROVE  NoneContinued'
  BY DEF NoneContinued, Desktops

\* Changes of the archive that leave the phone's goroutines as they are.
LEMMA ArchiveSound ==
    ASSUME Sound, Goes, UNCHANGED phone,
           Desktops \/ lock = None,
           listed' = listed \/ listed' = <<>>, pending' = pending \/ pending' = None
    PROVE  Sound'
<1>1. lock' = lock /\ pc' = pc /\ message' = message /\ held' = held
  BY DEF phone
<1>2. Archived' /\ Answering' /\ Locked'
  BY <1>1 DEF Sound, Goes, Archived, Answering, Locked
<1>3. HeldRecalled' /\ ListedRecalled' /\ PendingRecalled'
  BY <1>1, HeldStays, ListedStays, PendingStays DEF Sound
<1>4. NoneContinued'
  <2>1. CASE Desktops
    BY <1>1, <2>1, DesktopsContinue DEF Sound
  <2>2. CASE lock = None
    <3>1. \A p \in Phone : pc[p] = "idle"
      BY <2>2, NoneAssumption DEF Sound, Locked
    <3> QED
      BY <1>1, <3>1 DEF NoneContinued
  <2> QED
    BY <2>1, <2>2
<1> QED
  BY <1>2, <1>3, <1>4 DEF Sound

\* A goroutine of the phone that has the lock, and changes the archive or not.
LEMMA PhoneSound ==
    ASSUME Sound, Goes, NEW q \in Phone, NEW new, NEW text \in Message \cup {None},
           NEW at \in {"idle", "chosen", "ready", "renaming"},
           lock = None \/ lock = q,
           lock' = IF at = "idle" THEN None ELSE q,
           pc' = [pc EXCEPT ![q] = at],
           message' = [message EXCEPT ![q] = text],
           held' = [held EXCEPT ![q] = new],
           new # None => new \in SeenRecord' /\ Recalled(new)',
           at \in {"chosen", "ready"} => text # None,
           at \in {"ready", "renaming"} => new # None,
           at = "chosen" /\ new = None => Kept' = {},
           listed' = listed \/ listed' = <<>>, pending' = pending
    PROVE  Sound'
<1>1. \A p \in Phone : p # q => pc[p] = "idle"
  BY NoneAssumption DEF Sound, Locked
<1>2. /\ pc'[q] = at /\ message'[q] = text /\ held'[q] = new
      /\ \A p \in Phone : p # q => pc'[p] = "idle"
  BY <1>1 DEF Sound, Answering, HeldRecalled
<1>3. Archived' /\ Answering'
  BY DEF Sound, Goes, Archived, Answering
<1>4. Locked'
  BY <1>2 DEF Locked
<1>5. HeldRecalled' /\ ListedRecalled' /\ PendingRecalled'
  BY HeldSet, ListedStays, PendingStays DEF Sound
<1>6. NoneContinued'
  BY <1>2 DEF NoneContinued
<1> QED
  BY <1>3, <1>4, <1>5, <1>6 DEF Sound
--------------------------------------------------------------------------------
(* The steps of the phone.                                                     *)

\* Continued is a conversation as it is, or none is kept.
LEMMA ContinuedRecalled ==
    ASSUME Archived
    PROVE  \/ Continued = None /\ Kept = {}
           \/ /\ Continued # None /\ Continued \in SeenRecord /\ Recalled(Continued)
<1>1. CASE order = <<>>
  BY <1>1 DEF Continued, Kept
<1>2. CASE order # <<>>
  <2>1. order[1] \in created
    BY <1>2 DEF Archived
  <2>2. Continued = Seen(order[1])
    BY <1>2 DEF Continued
  <2>3. /\ Seen(order[1]) \in SeenRecord /\ Recalled(Seen(order[1])) /\ Seen(order[1]) # None
    BY <2>1, SeenRecalled
  <2> QED
    BY <2>2, <2>3
<1> QED
  BY <1>1, <1>2

\* Reading the conversation continued, in a step that leaves the archive.
LEMMA ReadContinued ==
    ASSUME Archived, UNCHANGED archive, NEW new, new = Continued
    PROVE  /\ new # None => new \in SeenRecord' /\ Recalled(new)'
           /\ new = None => Kept' = {}
<1>1. order' = order /\ created' = created /\ conv' = conv
  BY DEF archive
<1>2. CASE new = None
  BY <1>1, <1>2, ContinuedRecalled DEF Kept
<1>3. CASE new # None
  <2>1. new \in SeenRecord /\ Recalled(new)
    BY <1>3, ContinuedRecalled
  <2>2. Goes
    BY StillGoes
  <2> QED
    BY <1>3, <2>1, <2>2, RecalledStays
<1> QED
  BY <1>2, <1>3

\* A message takes the lock and reads the conversation it continues.
LEMMA ChooseSound ==
    ASSUME Sound, NEW p \in Phone, NEW m \in Message, Choose(p, m)
    PROVE  Sound'
<1>1. PICK new : new = Continued
  OBVIOUS
<1>2. /\ pc[p] = "idle" /\ lock = None /\ lock' = p
      /\ message' = [message EXCEPT ![p] = m]
      /\ held' = [held EXCEPT ![p] = new]
      /\ pc' = [pc EXCEPT ![p] = "chosen"]
      /\ UNCHANGED archive /\ listed' = listed /\ pending' = pending
  BY <1>1 DEF Choose, memory
<1>3. /\ new # None => new \in SeenRecord' /\ Recalled(new)'
      /\ new = None => Kept' = {}
  BY <1>1, <1>2, ReadContinued DEF Sound
<1>4. Goes
  BY <1>2, StillGoes DEF Sound
<1>5. m # None
  BY NoneAssumption
<1> QED
  BY <1>2, <1>3, <1>4, <1>5, PhoneSound

\* With none to continue, it starts one, and reads it.
LEMMA StartForMessageSound ==
    ASSUME Sound, NEW p \in Phone, StartForMessage(p)
    PROVE  Sound'
<1>1. PICK id \in Conversation :
         Create(id, TRUE, "phone") /\ held' = [held EXCEPT ![p] = Seen(id)']
  BY DEF StartForMessage
<1>2. /\ Goes /\ id \in created' /\ conv'[id].sends = <<>> /\ conv'[id].revision = 1
  BY <1>1, CreateGoes DEF Sound
<1>3. PICK new : new = Seen(id)'
  OBVIOUS
<1>4. new # None /\ new \in SeenRecord' /\ Recalled(new)'
  BY <1>2, <1>3, NewRecalled DEF Sound
<1>5. /\ pc[p] = "chosen" /\ pc' = [pc EXCEPT ![p] = "ready"]
      /\ lock' = lock /\ message' = message /\ listed' = listed /\ pending' = pending
      /\ held' = [held EXCEPT ![p] = new]
  BY <1>1, <1>3 DEF StartForMessage, memory
<1>6. lock = p /\ message[p] # None /\ message' = [message EXCEPT ![p] = message[p]]
      /\ message[p] \in Message \cup {None}
  BY <1>5 DEF Sound, Locked, Answering
<1> QED
  BY <1>2, <1>4, <1>5, <1>6, PhoneSound

\* It names a conversation started empty.
LEMMA NameChosenSound ==
    ASSUME Sound, NEW p \in Phone, NameChosen(p)
    PROVE  Sound'
<1>1. /\ pc[p] = "chosen" /\ held[p] # None /\ pc' = [pc EXCEPT ![p] = "ready"]
      /\ lock' = lock /\ message' = message /\ held' = held
      /\ listed' = listed /\ pending' = pending
  BY DEF NameChosen, memory
<1>2. Goes
  BY EditGoes, StillGoes DEF NameChosen, Sound
<1>3. lock = p /\ message[p] # None /\ message' = [message EXCEPT ![p] = message[p]]
      /\ message[p] \in Message \cup {None}
  BY <1>1 DEF Sound, Locked, Answering
<1>4. PICK new \in SeenRecord : new = held[p]
  BY <1>1 DEF Sound, HeldRecalled
<1>5. new # None /\ held' = [held EXCEPT ![p] = new] /\ Recalled(new)
  BY <1>1, <1>4 DEF Sound, HeldRecalled
<1>6. new \in SeenRecord' /\ Recalled(new)'
  BY <1>2, <1>5, RecalledStays DEF Sound
<1> QED
  BY <1>1, <1>2, <1>3, <1>5, <1>6, PhoneSound

\* It records its message and gives up the lock.
LEMMA RecordMessageSound ==
    ASSUME Sound, NEW p \in Phone, RecordMessage(p)
    PROVE  Sound'
<1>1. /\ pc[p] = "ready" /\ lock' = None
      /\ message' = [message EXCEPT ![p] = None]
      /\ held' = [held EXCEPT ![p] = None]
      /\ pc' = [pc EXCEPT ![p] = "idle"]
      /\ listed' = listed /\ pending' = pending
  BY DEF RecordMessage, memory
<1>2. lock = p /\ message[p] \in Message
  BY <1>1 DEF Sound, Locked, Answering
<1>3. Goes
  <2>1. CASE held[p].id \in Kept /\ Recorded(held[p].id, message[p]) = {}
    BY <2>1, <1>2, BeginGoes DEF RecordMessage, Sound
  <2>2. CASE ~(held[p].id \in Kept /\ Recorded(held[p].id, message[p]) = {})
    BY <2>2, StillGoes DEF RecordMessage, Sound
  <2> QED
    BY <2>1, <2>2
<1> QED
  BY <1>1, <1>2, <1>3, PhoneSound

\* It gives up, and with it the lock.
LEMMA GiveUpSound ==
    ASSUME Sound, NEW p \in Phone, GiveUp(p)
    PROVE  Sound'
<1>1. /\ pc[p] # "idle" /\ lock' = None
      /\ message' = [message EXCEPT ![p] = None]
      /\ held' = [held EXCEPT ![p] = None]
      /\ pc' = [pc EXCEPT ![p] = "idle"]
      /\ UNCHANGED archive /\ listed' = listed /\ pending' = pending
  BY DEF GiveUp, memory
<1>2. lock = p
  BY <1>1 DEF Sound, Locked
<1>3. Goes
  BY <1>1, StillGoes DEF Sound
<1> QED
  BY <1>1, <1>2, <1>3, PhoneSound

\* /renomear takes the lock and reads the conversation continued,
LEMMA CommandRenameSound ==
    ASSUME Sound, NEW p \in Phone, CommandRename(p)
    PROVE  Sound'
<1>1. PICK new : new = Continued
  OBVIOUS
<1>2. /\ pc[p] = "idle" /\ lock = None /\ lock' = p /\ new # None
      /\ message' = message
      /\ held' = [held EXCEPT ![p] = new]
      /\ pc' = [pc EXCEPT ![p] = "renaming"]
      /\ UNCHANGED archive /\ listed' = listed /\ pending' = pending
  BY <1>1 DEF CommandRename, memory
<1>3. new \in SeenRecord' /\ Recalled(new)'
  BY <1>1, <1>2, ReadContinued DEF Sound
<1>4. Goes
  BY <1>2, StillGoes DEF Sound
<1>5. message' = [message EXCEPT ![p] = message[p]] /\ message[p] \in Message \cup {None}
  BY <1>2 DEF Sound, Answering
<1> QED
  BY <1>2, <1>3, <1>4, <1>5, PhoneSound

\* and renames it and gives up the lock.
LEMMA RenameContinuedSound ==
    ASSUME Sound, NEW p \in Phone, RenameContinued(p)
    PROVE  Sound'
<1>1. /\ pc[p] = "renaming" /\ lock' = None
      /\ message' = message
      /\ held' = [held EXCEPT ![p] = None]
      /\ pc' = [pc EXCEPT ![p] = "idle"]
      /\ listed' = <<>> /\ pending' = pending
  BY DEF RenameContinued
<1>2. lock = p /\ message' = [message EXCEPT ![p] = message[p]]
      /\ message[p] \in Message \cup {None}
  BY <1>1 DEF Sound, Locked, Answering
<1>3. Goes
  BY EditGoes DEF RenameContinued, Sound
<1> QED
  BY <1>1, <1>2, <1>3, PhoneSound


\* /nova starts a conversation while no message is being answered.
LEMMA CommandNewSound ==
    ASSUME Sound, CommandNew
    PROVE  Sound'
<1>1. PICK id \in Conversation : Create(id, FALSE, "phone")
  BY DEF CommandNew
<1>2. Goes
  BY <1>1, CreateGoes DEF Sound
<1>3. lock = None /\ UNCHANGED phone /\ listed' = listed /\ pending' = pending
  BY DEF CommandNew, memory
<1> QED
  BY <1>2, <1>3, ArchiveSound

\* /conversas reads the conversations it shows.
LEMMA CommandListSound ==
    ASSUME Sound, CommandList
    PROVE  Sound'
<1> DEFINE shown == IF Len(order) < ListSize THEN Len(order) ELSE ListSize
<1>1. /\ lock' = lock /\ pc' = pc /\ message' = message /\ held' = held /\ pending' = pending
      /\ order' = order /\ created' = created /\ conv' = conv
      /\ listed' = [i \in 1 .. shown |-> Seen(order[i])]
  BY DEF CommandList, phone, archive
<1>2. Goes /\ Desktops
  BY <1>1, StillGoes DEF archive, Sound
<1>3. Archived' /\ Answering' /\ Locked' /\ HeldRecalled' /\ PendingRecalled' /\ NoneContinued'
  BY <1>1, <1>2, HeldStays, PendingStays, DesktopsContinue
     DEF Sound, Goes, Archived, Answering, Locked
<1>4. shown \in Nat /\ shown <= Len(order)
  BY SizesAssumption DEF Sound, Archived
<1> HIDE DEF shown
<1>5. ASSUME NEW i \in 1 .. shown
      PROVE  Seen(order[i]) \in SeenRecord' /\ Recalled(Seen(order[i]))'
  <2>1. order[i] \in created
    BY <1>4 DEF Sound, Archived
  <2>2. PICK id \in created : id = order[i] /\ id = order'[i]
    BY <1>1, <2>1
  <2>3. PICK seen : seen = Seen(id) /\ seen = Seen(id)'
    BY <1>1 DEF Seen
  <2>4. seen \in SeenRecord /\ Recalled(seen)
    BY <2>3, SeenRecalled DEF Sound
  <2>5. seen \in SeenRecord' /\ Recalled(seen)'
    BY <1>2, <2>4, RecalledStays DEF Sound
  <2>6. seen = Seen(order[i]) /\ seen = Seen(order[i])'
    BY <2>2, <2>3 DEF Seen
  <2>7. Recalled(seen)' <=> Recalled(Seen(order[i]))'
    BY <2>6 DEF Recalled
  <2> QED
    BY <2>5, <2>6, <2>7
<1>6. listed' \in Seq(SeenRecord') /\ Len(listed') = shown
      /\ \A i \in 1 .. shown : listed'[i] = Seen(order[i])
  BY <1>1, <1>4, <1>5
<1>7. ListedRecalled'
  BY <1>1, <1>5, <1>6 DEF ListedRecalled, Recalled, Seen
<1> QED
  BY <1>3, <1>7 DEF Sound

\* /abrir touches the conversation it names.
LEMMA CommandOpenSound ==
    ASSUME Sound, NEW n \in DOMAIN listed, CommandOpen(n)
    PROVE  Sound'
<1>1. conv[listed[n].id].titled \in BOOLEAN
  <2>1. PICK seen \in SeenRecord : seen = listed[n]
    BY DEF Sound, ListedRecalled
  <2>2. seen.id \in Conversation
    BY DEF Sound, SeenRecord, Archived
  <2> QED
    BY <2>1, <2>2 DEF Sound, Archived, Record
<1>2. Goes /\ Desktops
  BY <1>1, EditGoes DEF CommandOpen, Sound
<1>3. UNCHANGED phone /\ listed' = <<>> /\ pending' = pending
  BY DEF CommandOpen
<1> QED
  BY <1>2, <1>3, ArchiveSound

\* /apagar remembers what the list showed.
LEMMA CommandDeleteSound ==
    ASSUME Sound, NEW n \in DOMAIN listed, CommandDelete(n)
    PROVE  Sound'
<1>1. /\ lock' = lock /\ pc' = pc /\ message' = message /\ held' = held
      /\ order' = order /\ created' = created /\ conv' = conv /\ listed' = listed
  BY DEF CommandDelete, phone, archive
<1>2. Goes /\ Desktops
  BY <1>1, StillGoes DEF archive, Sound
<1>3. Archived' /\ Answering' /\ Locked' /\ HeldRecalled' /\ ListedRecalled' /\ NoneContinued'
  BY <1>1, <1>2, HeldStays, ListedStays, DesktopsContinue
     DEF Sound, Goes, Archived, Answering, Locked
<1>4. PICK seen \in SeenRecord : seen = listed[n] /\ seen = pending'
  BY DEF Sound, ListedRecalled, CommandDelete
<1>5. seen \in SeenRecord' /\ Recalled(seen)'
  <2>1. n \in 1 .. Len(listed) /\ Recalled(listed[n])
    BY DEF Sound, ListedRecalled
  <2>2. Recalled(seen)
    BY <1>4, <2>1, Zenon
  <2> QED
    BY <1>2, <2>2, RecalledStays DEF Sound
<1>6. PendingRecalled'
  BY <1>4, <1>5 DEF PendingRecalled, Recalled, Seen
<1> QED
  BY <1>3, <1>6 DEF Sound

\* /sim deletes it, at the version that was shown.
LEMMA CommandYesSound ==
    ASSUME Sound, CommandYes
    PROVE  Sound'
<1>1. Goes /\ Desktops
  BY DeleteGoes DEF CommandYes, Sound
<1>2. UNCHANGED phone /\ listed' = <<>> /\ pending' = None
  BY DEF CommandYes
<1> QED
  BY <1>1, <1>2, ArchiveSound

\* What was shown or asked is forgotten with time.
LEMMA ExpireSound ==
    ASSUME Sound, ListExpires \/ ConfirmExpires
    PROVE  Sound'
<1>1. UNCHANGED archive /\ UNCHANGED phone
      /\ (listed' = listed \/ listed' = <<>>) /\ (pending' = pending \/ pending' = None)
  BY DEF ListExpires, ConfirmExpires
<1>2. Goes /\ Desktops
  BY <1>1, StillGoes DEF Sound
<1> QED
  BY <1>1, <1>2, ArchiveSound
--------------------------------------------------------------------------------
(* The steps of the desktop, the restart, and the theorems.                    *)

\* Whatever the desktop does, to a conversation of its choice.
LEMMA DesktopSound ==
    ASSUME Sound, NEW id \in Conversation,
           \/ DesktopStart(id) \/ DesktopRename(id) \/ DesktopDelete(id)
           \/ DesktopWrites(id) \/ Retry(id)
    PROVE  Sound'
<1>1. UNCHANGED phone /\ listed' = listed /\ pending' = pending
  BY DEF DesktopStart, DesktopRename, DesktopDelete, DesktopWrites, Retry, memory
<1>2. CASE DesktopStart(id)
  <2>1. PICK titled \in BOOLEAN : Create(id, titled, "desktop")
    BY <1>2 DEF DesktopStart
  <2>2. Goes /\ Desktops
    BY <2>1, CreateGoes DEF Sound
  <2> QED
    BY <1>1, <2>2, ArchiveSound
<1>3. CASE DesktopRename(id)
  <2>1. PICK titled \in BOOLEAN : Change(id, [conv[id] EXCEPT !.titled = titled])
    BY <1>3 DEF DesktopRename
  <2> DEFINE changed == [conv[id] EXCEPT !.titled = titled]
  <2>2. id \in Kept /\ id \in created /\ conv[id] \in Record
    BY <1>3, KeptCreated DEF DesktopRename, Sound, Archived
  <2>3. /\ changed \in Record /\ changed.by = conv[id].by
        /\ changed.revision = conv[id].revision /\ changed.sends = conv[id].sends
    BY <2>2 DEF Record
  <2>4. Change(id, changed)
    BY <2>1
  <2> HIDE DEF changed
  <2>5. Len(changed.sends) <= MaxTurns
    BY <2>2, <2>3 DEF Sound, Archived, Versioned
  <2>6. Goes /\ Desktops
    BY <2>2, <2>3, <2>4, <2>5, ChangeGoes DEF Sound
  <2> QED
    BY <1>1, <2>6, ArchiveSound
<1>4. CASE DesktopDelete(id)
  <2>1. Goes /\ Desktops
    BY <1>4, DeleteGoes DEF DesktopDelete, Sound
  <2> QED
    BY <1>1, <2>1, ArchiveSound
<1>5. CASE DesktopWrites(id)
  <2>1. Goes /\ Desktops
    BY <1>5, BeginGoes DEF DesktopWrites, Sound
  <2> QED
    BY <1>1, <2>1, ArchiveSound
<1>6. CASE Retry(id)
  <2>1. id \in Kept /\ id \in created /\ conv[id] \in Record /\ Change(id, conv[id])
    BY <1>6, KeptCreated DEF Retry, Sound, Archived
  <2>2. Len(conv[id].sends) <= MaxTurns
    BY <2>1 DEF Sound, Archived, Versioned
  <2>3. Goes /\ Desktops
    BY <2>1, <2>2, ChangeGoes DEF Sound
  <2> QED
    BY <1>1, <2>3, ArchiveSound
<1> QED
  BY <1>2, <1>3, <1>4, <1>5, <1>6

\* A start of the orchestrator has nothing remembered and nobody answering.
LEMMA RestartSound ==
    ASSUME Sound, Restart
    PROVE  Sound'
<1>1. /\ lock' = None
      /\ pc' = [p \in Phone |-> "idle"]
      /\ message' = [p \in Phone |-> None]
      /\ held' = [p \in Phone |-> None]
      /\ listed' = <<>> /\ pending' = None
      /\ order' = order /\ created' = created /\ conv' = conv
  BY DEF Restart, archive
<1>2. Goes
  BY <1>1, StillGoes DEF archive, Sound
<1>3. Archived' /\ Answering' /\ Locked' /\ NoneContinued'
  BY <1>1, <1>2 DEF Goes, Archived, Answering, Locked, NoneContinued
<1>4. HeldRecalled' /\ ListedRecalled' /\ PendingRecalled'
  BY <1>1 DEF HeldRecalled, ListedRecalled, PendingRecalled
<1> QED
  BY <1>3, <1>4 DEF Sound

\* Nothing is kept, remembered or being answered at first.
LEMMA InitSound == Init => Sound
<1> SUFFICES ASSUME Init PROVE Sound
  OBVIOUS
<1>1. Blank \in Record
  <2>1. <<>> \in Seq(Message \cup {DesktopSend}) /\ 0 \in 0 .. MaxRevision
    BY SizesAssumption
  <2> QED
    BY <2>1, Zenon DEF Blank, Record
<1>2. conv \in [Conversation -> Record]
  BY <1>1 DEF Init
<1>3. Archived
  BY <1>2 DEF Init, Archived, ListedOnce, Once, Versioned
<1>4. Answering /\ Locked /\ HeldRecalled /\ ListedRecalled /\ PendingRecalled /\ NoneContinued
  BY DEF Init, Answering, Locked, HeldRecalled, ListedRecalled, PendingRecalled, NoneContinued
<1> QED
  BY <1>3, <1>4 DEF Sound

\* Every step, or a stutter, keeps it.
LEMMA NextSound == Sound /\ [Next]_vars => Sound'
<1> SUFFICES ASSUME Sound, [Next]_vars PROVE Sound'
  OBVIOUS
<1>1. CASE UNCHANGED vars
  <2>1. UNCHANGED archive /\ UNCHANGED phone /\ listed' = listed /\ pending' = pending
    BY <1>1 DEF vars, archive, phone
  <2>2. Goes /\ Desktops
    BY <2>1, StillGoes DEF Sound
  <2> QED
    BY <2>1, <2>2, ArchiveSound
<1>2. ASSUME NEW p \in Phone, NEW m \in Message, Choose(p, m) PROVE Sound'
  BY <1>2, ChooseSound
<1>3. ASSUME NEW p \in Phone,
             \/ StartForMessage(p) \/ NameChosen(p) \/ RecordMessage(p)
             \/ GiveUp(p) \/ CommandRename(p) \/ RenameContinued(p)
      PROVE  Sound'
  BY <1>3, StartForMessageSound, NameChosenSound, RecordMessageSound, GiveUpSound,
     CommandRenameSound, RenameContinuedSound
<1>4. CASE CommandNew \/ CommandList \/ CommandYes
  BY <1>4, CommandNewSound, CommandListSound, CommandYesSound
<1>5. ASSUME NEW n \in DOMAIN listed, CommandOpen(n) \/ CommandDelete(n) PROVE Sound'
  BY <1>5, CommandOpenSound, CommandDeleteSound
<1>6. CASE ListExpires \/ ConfirmExpires
  BY <1>6, ExpireSound
<1>7. ASSUME NEW id \in Conversation,
             \/ DesktopStart(id) \/ DesktopRename(id) \/ DesktopDelete(id)
             \/ DesktopWrites(id) \/ Retry(id)
      PROVE  Sound'
  BY <1>7, DesktopSound
<1>8. CASE Restart
  BY <1>8, RestartSound
<1> QED
  BY <1>1, <1>2, <1>3, <1>4, <1>5, <1>6, <1>7, <1>8 DEF Next

\* The inductive invariant holds throughout.
THEOREM SoundAlways == Spec => []Sound
<1> QED
  BY InitSound, NextSound, PTL DEF Spec


\* A list that names a conversation once is as long as the set it names.
LEMMA OnceCounts ==
    ASSUME NEW S, NEW seq \in Seq(S), Once(seq)
    PROVE  Cardinality({seq[i] : i \in DOMAIN seq}) = Len(seq)
<1> DEFINE named == {seq[i] : i \in 1 .. Len(seq)}
<1>1. Len(seq) \in Nat /\ DOMAIN seq = 1 .. Len(seq)
  OBVIOUS
<1>2. IsFiniteSet(1 .. Len(seq)) /\ Cardinality(1 .. Len(seq)) = Len(seq)
  <2>1. IF 1 > Len(seq) THEN Cardinality(1 .. Len(seq)) = 0
                        ELSE Cardinality(1 .. Len(seq)) = Len(seq) - 1 + 1
    BY <1>1, FS_Interval
  <2>2. IsFiniteSet(1 .. Len(seq))
    BY <1>1, FS_Interval
  <2> QED
    BY <1>1, <2>1, <2>2
<1>3. seq \in Bijection(1 .. Len(seq), named)
  <2>1. seq \in [1 .. Len(seq) -> named]
    BY <1>1
  <2>2. seq \in Injection(1 .. Len(seq), named)
    BY <2>1 DEF Injection, IsInjective, Once
  <2>3. seq \in Surjection(1 .. Len(seq), named)
    BY <2>1 DEF Surjection
  <2> QED
    BY <2>2, <2>3 DEF Bijection
<1>4. Cardinality(named) = Len(seq)
  <2>1. ExistsBijection(1 .. Len(seq), named)
    BY <1>3, Zenon DEF ExistsBijection
  <2> HIDE DEF named
  <2> QED
    BY <1>2, <2>1, FS_Bijection
<1> QED
  BY <1>1, <1>4

\* Every variable holds a value of its kind, and the list names each kept
\* conversation once.
THEOREM TypeCorrect == Spec => []TypeOK
<1>1. Sound => TypeOK
  <2> SUFFICES ASSUME Sound PROVE TypeOK
    OBVIOUS
  <2>1. Cardinality(Kept) = Len(order)
    BY OnceCounts DEF Sound, Archived, ListedOnce, Kept
  <2> QED
    BY <2>1 DEF Sound, Archived, Answering, HeldRecalled, ListedRecalled, PendingRecalled, TypeOK
<1> QED
  BY <1>1, SoundAlways, PTL

\* Only StartForMessage makes a message that found no conversation ready, and
\* whatever is kept then was started on the desktop.
THEOREM StartsOnceAlways == Spec => StartsOnce
<1>1. ASSUME Sound, [Next]_vars
      PROVE  [\A p \in Phone :
                pc[p] = "chosen" /\ held[p] = None /\ pc'[p] = "ready"
                => \A id \in Kept : conv[id].by = "desktop"]_vars
  BY <1>1 DEF Sound, NoneContinued
<1> QED
  BY <1>1, SoundAlways, PTL DEF Spec, StartsOnce


\* A version current by its revision is what the conversation still holds.
LEMMA CurrentIsSeen ==
    ASSUME NEW seen, Recalled(seen), Current(seen)
    PROVE  Seen(seen.id) = seen
  BY DEF Recalled, Current

\* A message that names the conversation it chose finds it untitled and empty:
\* NameChosen is the only step that can, at the version the message read.
THEOREM NamesOnlyUntitledAlways == Spec => NamesOnlyUntitled
<1>1. ASSUME Sound, [Next]_vars, NEW p \in Phone,
             pc[p] = "chosen", held[p] # None, pc'[p] = "ready", conv' # conv
      PROVE  ~conv[held[p].id].titled /\ conv[held[p].id].sends = <<>>
  <2>1. NameChosen(p)
    <3>1. ASSUME NEW q \in Phone, q # p
          PROVE  /\ \A m \in Message : ~Choose(q, m)
                 /\ ~StartForMessage(q) /\ ~NameChosen(q) /\ ~RecordMessage(q)
                 /\ ~GiveUp(q) /\ ~CommandRename(q) /\ ~RenameContinued(q)
      BY <1>1, <3>1 DEF Sound, Answering, Choose, StartForMessage, NameChosen, RecordMessage,
                        GiveUp, CommandRename, RenameContinued
    <3>2. /\ \A m \in Message : ~Choose(p, m)
          /\ ~StartForMessage(p) /\ ~RecordMessage(p) /\ ~GiveUp(p)
          /\ ~CommandRename(p) /\ ~RenameContinued(p)
      BY <1>1 DEF Choose, StartForMessage, RecordMessage, GiveUp, CommandRename, RenameContinued
    <3>3. ~UNCHANGED phone
      BY <1>1 DEF phone
    <3>4. ~Restart
      BY <1>1 DEF Restart
    <3> QED
      BY <1>1, <3>1, <3>2, <3>3, <3>4
         DEF Next, vars, CommandNew, CommandList, CommandYes, CommandOpen, CommandDelete,
             ListExpires, ConfirmExpires, DesktopStart, DesktopRename, DesktopDelete,
             DesktopWrites, Retry, phone
  <2>2. held[p].turns = 0 /\ ~held[p].titled /\ Edit(held[p], TRUE)
    BY <1>1, <2>1 DEF NameChosen, archive
  <2>3. Current(held[p])
    BY <1>1, <2>2 DEF Edit, archive
  <2>4. PICK seen \in SeenRecord : seen = held[p]
    BY <1>1 DEF Sound, HeldRecalled
  <2>5. Seen(seen.id) = seen
    BY <1>1, <2>3, <2>4, CurrentIsSeen DEF Sound, HeldRecalled
  <2>6. Seen(seen.id).titled = conv[seen.id].titled /\ Seen(seen.id).turns = Len(conv[seen.id].sends)
    BY DEF Seen
  <2>7. ~conv[seen.id].titled /\ Len(conv[seen.id].sends) = 0
    BY <2>2, <2>4, <2>5, <2>6
  <2>8. conv[seen.id].sends \in Seq(Message \cup {DesktopSend})
    BY <2>3, <2>4, KeptCreated, <1>1 DEF Current, Sound, Archived, Record
  <2> QED
    BY <2>4, <2>7, <2>8
<1>2. Sound /\ [Next]_vars =>
        [\A p \in Phone :
            /\ pc[p] = "chosen" /\ held[p] # None /\ pc'[p] = "ready"
            /\ conv' # conv
            => ~conv[held[p].id].titled /\ conv[held[p].id].sends = <<>>]_vars
  BY <1>1
<1> QED
  BY <1>2, SoundAlways, PTL DEF Spec, NamesOnlyUntitled

\* /sim is the only step that ends the question and takes the conversation out
\* of the archive, and it deletes it at the version that was shown.
THEOREM DeletesAsSeenAlways == Spec => DeletesAsSeen
<1>1. ASSUME Sound, [Next]_vars, NEW seen \in {pending} \ {None},
             pending' = None, seen.id \in Kept, seen.id \notin Kept'
      PROVE  Seen(seen.id) = seen
  <2>1. ~UNCHANGED archive
    BY <1>1 DEF archive, Kept
  <2>2. pending' # pending
    BY <1>1
  <2>3. CommandYes
    BY <1>1, <2>1, <2>2
       DEF Next, vars, archive, memory, Choose, StartForMessage, NameChosen, RecordMessage,
           GiveUp, CommandRename, RenameContinued, CommandNew, CommandList, CommandOpen, CommandDelete,
           ListExpires, ConfirmExpires, DesktopStart, DesktopRename, DesktopDelete,
           DesktopWrites, Retry, Restart
  <2>4. Delete(seen)
    BY <1>1, <2>3 DEF CommandYes
  <2>5. Current(seen)
    BY <2>1, <2>4 DEF Delete, archive
  <2>6. Recalled(seen)
    BY <1>1 DEF Sound, PendingRecalled
  <2> QED
    BY <2>5, <2>6, CurrentIsSeen
<1>2. Sound /\ [Next]_vars =>
        [\A seen \in {pending} \ {None} :
            pending' = None /\ seen.id \in Kept /\ seen.id \notin Kept'
            => Seen(seen.id) = seen]_vars
  BY <1>1
<1> QED
  BY <1>2, SoundAlways, PTL DEF Spec, DeletesAsSeen


================================================================================
