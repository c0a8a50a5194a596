------------------------------ MODULE Music_proofs ------------------------------
(***************************************************************************)
(* Proofs about the music of one server, for any sizes of the queue and    *)
(* any number of processes, changes, replies and reports.                  *)
(*                                                                         *)
(* The inductive invariant has a part for the queue (its tracks start in   *)
(* the order of their numbers, and a play that left it is below what       *)
(* plays), one for what is known of it outside (nobody holds a version the *)
(* queue never had), one for the player, and one for an adapter that was   *)
(* never disturbed: the newest state is taken or on its way, and what the  *)
(* player does not do for it, a report on its way tells the desk.          *)
(***************************************************************************)
EXTENDS Music, TLAPS

Desks == [epoch : Epochs, now : 0..MaxEntries, waiting : Seq(Entries), paused : BOOLEAN,
          volume : Volumes, entries : 0..MaxEntries, version : Nat, commented : 0..MaxEntries]

\* The bounds are numbers.
LEMMA Bounds ==
    /\ MaxWaiting \in Nat /\ MaxEpochs \in Nat /\ MaxEntries \in Nat
    /\ MaxReplies \in Nat /\ MaxReports \in Nat /\ Loudest \in Volumes
    /\ 1 \in Epochs
  BY BoundsAssumption DEF Epochs
--------------------------------------------------------------------------------
(* The queue.                                                                  *)

\* The tracks of a queue play in the order they were added.
Ordered(q) ==
    /\ q.now <= q.entries /\ q.commented <= q.entries
    /\ q.now = Nothing => q.waiting = <<>>
    /\ \A i \in 1..Len(q.waiting) : q.now < q.waiting[i] /\ q.waiting[i] <= q.entries
    /\ \A i, j \in 1..Len(q.waiting) : i < j => q.waiting[i] < q.waiting[j]

Wellformed(q) == q \in Desks /\ Len(q.waiting) <= MaxWaiting /\ Ordered(q)

\* Whether the queue has come to an entry: it plays, or it left the queue.
Reached(q, n) == IF q.now # Nothing THEN n <= q.now ELSE n <= q.entries

\* A change of the queue goes on: what plays next was not reached before.
GoesOn(q, r) ==
    /\ Wellformed(r)
    /\ r.epoch = q.epoch /\ r.version = q.version + 1 /\ r.commented = q.commented
    /\ \A n \in 0..MaxEntries : Reached(q, n) => Reached(r, n)
    /\ r.now \in {q.now, Nothing} \/ ~Reached(q, r.now)

\* Ending what plays goes on with the next track.
LEMMA AdvancedGoesOn ==
    ASSUME NEW q, Wellformed(q), q.now # Nothing
    PROVE  GoesOn(q, Advanced(q)) /\ Advanced(q).now # q.now
<1>0. PICK r : r = Advanced(q)
  OBVIOUS
<1>1. /\ q.version \in Nat /\ q.entries \in 0..MaxEntries /\ q.now \in 0..MaxEntries
      /\ q.waiting \in Seq(Entries) /\ q.epoch \in Epochs /\ q.volume \in Volumes
      /\ q.commented \in 0..MaxEntries /\ MaxEntries \in Nat /\ MaxWaiting \in Nat
      /\ Len(q.waiting) <= MaxWaiting
  BY Bounds DEF Wellformed, Desks
<1>2. Bumped(q) = [q EXCEPT !.version = q.version + 1]
  BY DEF Bumped
<1>3. Bumped(q) \in Desks /\ Bumped(q).version = q.version + 1
      /\ Bumped(q).waiting = q.waiting /\ Bumped(q).entries = q.entries
      /\ Bumped(q).epoch = q.epoch /\ Bumped(q).commented = q.commented
  BY <1>1, <1>2 DEF Wellformed, Desks
<1>4. CASE q.waiting = <<>>
  <2>1. r = [Bumped(q) EXCEPT !.paused = FALSE, !.now = Nothing]
    BY <1>0, <1>4 DEF Advanced
  <2>2. 0 \in 0..MaxEntries /\ Nothing = 0 /\ FALSE \in BOOLEAN
    BY <1>1 DEF Nothing
  <2>3. r \in Desks
    BY <1>3, <2>1, <2>2, Zenon DEF Desks
  <2>4. /\ r.now = 0 /\ r.version = q.version + 1 /\ r.waiting = <<>> /\ r.entries = q.entries
        /\ r.epoch = q.epoch /\ r.commented = q.commented
    BY <1>3, <1>4, <2>1 DEF Desks, Nothing
  <2>5. Wellformed(r)
    BY <1>1, <2>3, <2>4 DEF Wellformed, Ordered, Nothing
  <2> QED
    BY <1>0, <1>1, <2>4, <2>5 DEF GoesOn, Reached, Wellformed, Ordered, Nothing
<1>5. CASE q.waiting # <<>>
  <2>1. r = [Bumped(q) EXCEPT !.paused = FALSE, !.now = Head(q.waiting), !.waiting = Tail(q.waiting)]
    BY <1>0, <1>5 DEF Advanced
  <2>2. PICK head, tail : head = Head(q.waiting) /\ tail = Tail(q.waiting)
    OBVIOUS
  <2>3. /\ head = q.waiting[1] /\ head \in Entries /\ tail \in Seq(Entries)
        /\ Len(q.waiting) \in Nat /\ Len(q.waiting) > 0 /\ Len(tail) = Len(q.waiting) - 1
        /\ \A i \in 1..Len(tail) : tail[i] = q.waiting[i + 1]
    BY <1>1, <1>5, <2>2
  <2>4. head \in 0..MaxEntries /\ FALSE \in BOOLEAN
    BY <1>1, <2>3 DEF Entries
  <2>5. r \in Desks
    BY <1>3, <2>1, <2>2, <2>3, <2>4, Zenon DEF Desks
  <2>6. /\ r.now = head /\ r.version = q.version + 1 /\ r.waiting = tail /\ r.entries = q.entries
        /\ r.epoch = q.epoch /\ r.commented = q.commented
    BY <1>3, <2>1, <2>2 DEF Desks
  <2>7. q.now < head /\ head <= q.entries
    BY <2>3 DEF Wellformed, Ordered
  <2>8. Ordered(r)
    <3>1. r.now <= r.entries /\ r.commented <= r.entries /\ r.now # Nothing
      BY <1>1, <2>3, <2>6, <2>7 DEF Wellformed, Ordered, Nothing, Entries
    <3>2. ASSUME NEW i \in 1..Len(tail)
          PROVE  head < tail[i] /\ tail[i] <= q.entries
      BY <2>3 DEF Wellformed, Ordered
    <3>3. ASSUME NEW i \in 1..Len(tail), NEW j \in 1..Len(tail), i < j
          PROVE  tail[i] < tail[j]
      BY <2>3, <3>3 DEF Wellformed, Ordered
    <3> QED
      BY <2>6, <3>1, <3>2, <3>3 DEF Ordered
  <2>9. Wellformed(r)
    BY <1>1, <2>3, <2>5, <2>6, <2>8 DEF Wellformed
  <2>10. \A n \in 0..MaxEntries : Reached(q, n) => Reached(r, n)
    BY <1>1, <2>3, <2>4, <2>6, <2>7 DEF Reached, Nothing, Entries
  <2>11. ~Reached(q, r.now) /\ r.now # q.now
    BY <1>1, <2>4, <2>6, <2>7 DEF Reached
  <2> QED
    BY <1>0, <2>6, <2>9, <2>10, <2>11 DEF GoesOn
<1> QED
  BY <1>4, <1>5

\* An addition plays at once in an empty queue, or waits behind the others.
LEMMA AddedGoesOn ==
    ASSUME NEW q, Wellformed(q), ~Full(q), q.entries < MaxEntries
    PROVE  GoesOn(q, Added(q)) /\ (q.now # Nothing => Added(q).now = q.now)
<1>0. PICK r : r = Added(q)
  OBVIOUS
<1>1. /\ q.version \in Nat /\ q.entries \in 0..MaxEntries /\ q.now \in 0..MaxEntries
      /\ q.waiting \in Seq(Entries) /\ q.epoch \in Epochs /\ q.volume \in Volumes
      /\ q.commented \in 0..MaxEntries /\ MaxEntries \in Nat /\ MaxWaiting \in Nat
      /\ Len(q.waiting) <= MaxWaiting /\ Len(q.waiting) \in Nat
  BY Bounds DEF Wellformed, Desks
<1>2. PICK new : new = [Bumped(q) EXCEPT !.entries = @ + 1]
  OBVIOUS
<1>3. Bumped(q) \in Desks /\ Bumped(q).version = q.version + 1 /\ Bumped(q).now = q.now
      /\ Bumped(q).waiting = q.waiting /\ Bumped(q).entries = q.entries
      /\ Bumped(q).epoch = q.epoch /\ Bumped(q).commented = q.commented
  BY <1>1 DEF Bumped, Wellformed, Desks
<1>4. PICK count \in Entries : count = q.entries + 1
  BY <1>1 DEF Entries
<1>5. count \in 0..MaxEntries
  BY <1>1, <1>4
<1>6. new = [Bumped(q) EXCEPT !.entries = count]
  BY <1>2, <1>3, <1>4
<1>7. new \in Desks /\ new.version = q.version + 1 /\ new.now = q.now
      /\ new.waiting = q.waiting /\ new.entries = count
      /\ new.epoch = q.epoch /\ new.commented = q.commented
  BY <1>3, <1>5, <1>6 DEF Desks
<1>8. CASE q.now = Nothing
  <2>1. r = [new EXCEPT !.now = count, !.paused = FALSE]
    BY <1>0, <1>2, <1>7, <1>8 DEF Added
  <2>2. r \in Desks
    <3>1. FALSE \in BOOLEAN
      OBVIOUS
    <3> QED
      BY <1>5, <1>7, <2>1, <3>1, Zenon DEF Desks
  <2>3. /\ r.now = count /\ r.version = q.version + 1 /\ r.waiting = <<>> /\ r.entries = count
        /\ r.epoch = q.epoch /\ r.commented = q.commented
    BY <1>7, <1>8, <2>1 DEF Wellformed, Ordered, Desks
  <2>4. Wellformed(r)
    BY <1>1, <1>4, <1>5, <2>2, <2>3 DEF Wellformed, Ordered, Nothing
  <2>5. \A n \in 0..MaxEntries : Reached(q, n) => Reached(r, n)
    BY <1>1, <1>4, <1>5, <1>8, <2>3 DEF Reached, Nothing
  <2>6. ~Reached(q, r.now)
    BY <1>1, <1>4, <1>8, <2>3 DEF Reached
  <2> QED
    BY <1>0, <1>8, <2>3, <2>4, <2>5, <2>6 DEF GoesOn
<1>9. CASE q.now # Nothing
  <2>1. PICK longer : longer = Append(q.waiting, count)
    OBVIOUS
  <2>2. /\ longer \in Seq(Entries) /\ Len(longer) = Len(q.waiting) + 1
        /\ longer[Len(q.waiting) + 1] = count
        /\ \A i \in 1..Len(q.waiting) : longer[i] = q.waiting[i]
    BY <1>1, <2>1
  <2>3. r = [new EXCEPT !.waiting = longer]
    BY <1>0, <1>2, <1>7, <1>9, <2>1 DEF Added
  <2>4. r \in Desks /\ r.now = q.now /\ r.version = q.version + 1 /\ r.waiting = longer
        /\ r.entries = count /\ r.epoch = q.epoch /\ r.commented = q.commented
    BY <1>7, <2>2, <2>3 DEF Desks
  <2>5. Len(longer) <= MaxWaiting
    BY <1>1, <1>9, <2>2 DEF Full
  <2>6. Ordered(r)
    <3>1. r.now <= r.entries /\ r.commented <= r.entries /\ r.now # Nothing
      BY <1>1, <1>4, <1>9, <2>4 DEF Wellformed, Ordered
    <3>2. ASSUME NEW i \in 1..Len(longer)
          PROVE  q.now < longer[i] /\ longer[i] <= count
      <4>1. CASE i = Len(q.waiting) + 1
        BY <1>1, <1>4, <2>2, <4>1 DEF Wellformed, Ordered
      <4>2. CASE i # Len(q.waiting) + 1
        <5>1. i \in 1..Len(q.waiting)
          BY <1>1, <2>2, <4>2
        <5>2. q.now < q.waiting[i] /\ q.waiting[i] <= q.entries /\ q.waiting[i] \in Entries
          BY <1>1, <5>1 DEF Wellformed, Ordered
        <5>3. longer[i] = q.waiting[i]
          BY <2>2, <5>1
        <5>4. q.entries \in Nat /\ q.now \in Nat /\ q.waiting[i] \in Nat /\ count = q.entries + 1
          BY <1>1, <1>4, <5>2 DEF Entries
        <5> QED
          BY <5>2, <5>3, <5>4
      <4> QED
        BY <4>1, <4>2
    <3>3. ASSUME NEW i \in 1..Len(longer), NEW j \in 1..Len(longer), i < j
          PROVE  longer[i] < longer[j]
      <4>1. i \in 1..Len(q.waiting)
        BY <1>1, <2>2, <3>3
      <4>2. CASE j = Len(q.waiting) + 1
        <5>1. q.waiting[i] <= q.entries /\ q.waiting[i] \in Entries
          BY <1>1, <4>1 DEF Wellformed, Ordered
        <5>2. longer[i] = q.waiting[i] /\ longer[j] = count
          BY <2>2, <4>1, <4>2
        <5>3. q.entries \in Nat /\ q.waiting[i] \in Nat /\ count = q.entries + 1
          BY <1>1, <1>4, <5>1 DEF Entries
        <5> QED
          BY <5>1, <5>2, <5>3
      <4>3. CASE j # Len(q.waiting) + 1
        <5>1. j \in 1..Len(q.waiting)
          BY <1>1, <2>2, <4>3
        <5> QED
          BY <2>2, <3>3, <4>1, <5>1 DEF Wellformed, Ordered
      <4> QED
        BY <4>2, <4>3
    <3> QED
      BY <2>4, <3>1, <3>2, <3>3 DEF Ordered
  <2>7. Wellformed(r)
    BY <2>4, <2>5, <2>6 DEF Wellformed
  <2> QED
    BY <1>0, <1>9, <2>4, <2>7 DEF GoesOn, Reached
<1> QED
  BY <1>8, <1>9

\* A stop leaves no track, and every entry added so far behind.
LEMMA StoppedGoesOn ==
    ASSUME NEW q, Wellformed(q)
    PROVE  GoesOn(q, Stopped(q)) /\ Stopped(q).now = Nothing
<1>0. PICK r : r = Stopped(q)
  OBVIOUS
<1>1. /\ q.version \in Nat /\ q.entries \in 0..MaxEntries /\ q.now \in 0..MaxEntries
      /\ MaxEntries \in Nat /\ MaxWaiting \in Nat
  BY Bounds DEF Wellformed, Desks
<1>2. Bumped(q) \in Desks /\ Bumped(q).version = q.version + 1
      /\ Bumped(q).entries = q.entries
      /\ Bumped(q).epoch = q.epoch /\ Bumped(q).commented = q.commented
  BY <1>1 DEF Bumped, Wellformed, Desks
<1>3. r = [Bumped(q) EXCEPT !.now = Nothing, !.waiting = <<>>, !.paused = FALSE]
  BY <1>0 DEF Stopped
<1>4. Nothing \in 0..MaxEntries /\ <<>> \in Seq(Entries) /\ FALSE \in BOOLEAN
  BY <1>1 DEF Nothing
<1>5. r \in Desks
  BY <1>2, <1>3, <1>4, Zenon DEF Desks
<1>6. /\ r.now = Nothing /\ r.version = q.version + 1 /\ r.waiting = <<>> /\ r.entries = q.entries
      /\ r.epoch = q.epoch /\ r.commented = q.commented
  BY <1>2, <1>3 DEF Desks
<1>7. Wellformed(r)
  BY <1>1, <1>5, <1>6 DEF Wellformed, Ordered, Nothing
<1>8. \A n \in 0..MaxEntries : Reached(q, n) => Reached(r, n)
  BY <1>1, <1>6 DEF Reached, Wellformed, Ordered
<1> QED
  BY <1>0, <1>6, <1>7, <1>8 DEF GoesOn

\* A pause or a volume changes nothing of what plays.
LEMMA SetGoesOn ==
    ASSUME NEW q, Wellformed(q), NEW r, NEW paused \in BOOLEAN, NEW v \in Volumes,
           \/ r = [Bumped(q) EXCEPT !.paused = paused]
           \/ r = [Bumped(q) EXCEPT !.volume = v]
    PROVE  GoesOn(q, r) /\ r.now = q.now
<1>1. Bumped(q) \in Desks /\ Bumped(q).version = q.version + 1 /\ Bumped(q).now = q.now
      /\ Bumped(q).waiting = q.waiting /\ Bumped(q).entries = q.entries
      /\ Bumped(q).epoch = q.epoch /\ Bumped(q).commented = q.commented
  BY DEF Bumped, Wellformed, Desks
<1>2. /\ r \in Desks /\ r.now = q.now /\ r.version = q.version + 1 /\ r.waiting = q.waiting
      /\ r.entries = q.entries /\ r.epoch = q.epoch /\ r.commented = q.commented
  <2>1. CASE r = [Bumped(q) EXCEPT !.paused = paused]
    BY <1>1, <2>1 DEF Desks
  <2>2. CASE r = [Bumped(q) EXCEPT !.volume = v]
    BY <1>1, <2>2 DEF Desks
  <2> QED
    BY <2>1, <2>2
<1>3. Wellformed(r)
  BY <1>2 DEF Wellformed, Ordered
<1> QED
  BY <1>2, <1>3 DEF GoesOn, Reached


--------------------------------------------------------------------------------
(* Each play is noted and remarked on once.                                    *)

Histories == [noted : [Entries -> Nat], remarked : [Entries -> Nat], misled : BOOLEAN,
              disturbed : BOOLEAN, overtaken : BOOLEAN]

\* What was noted left the queue; what was remarked on plays still, and the
\* queue knows, or left it; and no report misled the queue.
Counted(q, h) ==
    /\ h \in Histories /\ ~h.misled
    /\ \A e \in Entries :
         /\ h.noted[e] <= 1 /\ (h.noted[e] # 0 => Reached(q, e) /\ e # q.now)
         /\ h.remarked[e] <= 1
         /\ h.remarked[e] # 0 => Reached(q, e) /\ (e = q.now => q.commented = e)

\* Noted counts the play, if any, once more.
LEMMA NotedCounts ==
    ASSUME NEW h \in Histories, desk.now \in 0..MaxEntries
    PROVE  /\ Noted(h) \in Histories
           /\ Noted(h).remarked = h.remarked /\ Noted(h).misled = h.misled
           /\ Noted(h).disturbed = h.disturbed /\ Noted(h).overtaken = h.overtaken
           /\ \A e \in Entries :
                Noted(h).noted[e] = IF e = desk.now THEN h.noted[e] + 1 ELSE h.noted[e]
<1>1. CASE desk.now = Nothing
  BY <1>1 DEF Noted, Nothing, Entries
<1>2. CASE desk.now # Nothing
  <2>1. desk.now \in Entries
    BY <1>2, Bounds DEF Nothing, Entries
  <2>2. PICK more : more = [h.noted EXCEPT ![desk.now] = h.noted[desk.now] + 1]
    OBVIOUS
  <2>3. more \in [Entries -> Nat]
        /\ \A e \in Entries : more[e] = IF e = desk.now THEN h.noted[e] + 1 ELSE h.noted[e]
    BY <2>1, <2>2 DEF Histories
  <2>4. Noted(h) = [h EXCEPT !.noted = more]
    BY <1>2, <2>2 DEF Noted
  <2> QED
    BY <2>3, <2>4 DEF Histories
<1> QED
  BY <1>1, <1>2

\* The counts stay within one when the queue goes on and notes what left it.
LEMMA CountsGoOn ==
    ASSUME NEW q, Wellformed(q), NEW r, GoesOn(q, r), NEW h, Counted(q, h),
           NEW g \in Histories, g.remarked = h.remarked, ~g.misled,
           \/ g.noted = h.noted /\ (q.now # Nothing => r.now = q.now)
           \/ /\ r.now # q.now \/ q.now = Nothing
              /\ \A e \in Entries : g.noted[e] = IF e = q.now THEN h.noted[e] + 1 ELSE h.noted[e]
    PROVE  Counted(r, g)
<1>1. \A e \in Entries : e \in 0..MaxEntries /\ e # Nothing
  BY Bounds DEF Entries, Nothing
<1>2. ASSUME NEW e \in Entries
      PROVE  g.noted[e] <= 1 /\ (g.noted[e] # 0 => Reached(r, e) /\ e # r.now)
  <2>1. h.noted[e] \in Nat /\ h.noted[e] <= 1 /\ (h.noted[e] # 0 => Reached(q, e) /\ e # q.now)
    BY DEF Counted, Histories
  <2>2. Reached(q, e) => Reached(r, e)
    BY <1>1 DEF GoesOn
  <2>3. r.now \in {q.now, Nothing} \/ ~Reached(q, r.now)
    BY DEF GoesOn
  <2>4. CASE g.noted[e] = h.noted[e]
    <3>1. CASE h.noted[e] # 0
      BY <1>1, <2>1, <2>2, <2>3, <2>4, <3>1
    <3>2. CASE h.noted[e] = 0
      BY <2>4, <3>2
    <3> QED
      BY <3>1, <3>2
  <2>5. CASE g.noted[e] = h.noted[e] + 1 /\ e = q.now /\ (r.now # q.now \/ q.now = Nothing)
    <3>1. h.noted[e] = 0 /\ e # r.now
      BY <1>1, <2>1, <2>5
    <3>2. Reached(q, e)
      BY <1>1, <2>5 DEF Reached, Wellformed, Desks
    <3> QED
      BY <2>2, <2>5, <3>1, <3>2
  <2> QED
    BY <2>4, <2>5
<1>3. ASSUME NEW e \in Entries
      PROVE  /\ g.remarked[e] <= 1
             /\ g.remarked[e] # 0 => Reached(r, e) /\ (e = r.now => r.commented = e)
  <2>1. /\ h.remarked[e] <= 1
        /\ h.remarked[e] # 0 => Reached(q, e) /\ (e = q.now => q.commented = e)
    BY DEF Counted
  <2>2. Reached(q, e) => Reached(r, e)
    BY <1>1 DEF GoesOn
  <2>3. (r.now \in {q.now, Nothing} \/ ~Reached(q, r.now)) /\ r.commented = q.commented
    BY DEF GoesOn
  <2> QED
    BY <1>1, <2>1, <2>2, <2>3
<1> QED
  BY <1>2, <1>3 DEF Counted
--------------------------------------------------------------------------------
(* What is known of the queue outside the desk.                                *)

\* A state that was sent: the queue as it is, or at an older version, or of an
\* older process; and the queue came to the track it plays.
Known(q, s) ==
    /\ s \in QueueStates /\ s.epoch <= q.epoch
    /\ s.epoch = q.epoch =>
         /\ s.version <= q.version /\ (s.version = q.version => s = State(q))
         /\ Reached(q, s.now)

\* The states on their way, waiting for a connection, and taken last.
Sent == replies \cup awaiting \cup ({taken} \ {None})

\* What is sent is known, and stays so when the queue goes on.
LEMMA StateKnown ==
    ASSUME NEW q, Wellformed(q)
    PROVE  Known(q, State(q)) /\ State(q).epoch = q.epoch /\ State(q).version = q.version
           /\ State(q).now = q.now /\ State(q).paused = q.paused
<1>1. /\ q.epoch \in Epochs /\ q.version \in Nat /\ q.now \in 0..MaxEntries
      /\ q.paused \in BOOLEAN /\ q.volume \in Volumes /\ q.epoch \in Nat
  BY Bounds DEF Wellformed, Desks, Epochs
<1>2. State(q) \in QueueStates
  BY <1>1, Zenon DEF State, QueueStates
<1>3. /\ State(q).epoch = q.epoch /\ State(q).version = q.version /\ State(q).now = q.now
      /\ State(q).paused = q.paused
  BY DEF State
<1>4. Reached(q, q.now)
  BY <1>1, Bounds DEF Reached, Wellformed, Ordered
<1> QED
  BY <1>1, <1>2, <1>3, <1>4 DEF Known

\* A state known before is older than what the queue became.
LEMMA KnownGoesOn ==
    ASSUME NEW q, Wellformed(q), NEW r, GoesOn(q, r), NEW s, Known(q, s)
    PROVE  Known(r, s) /\ s # State(r)
<1>1. s.version \in Nat /\ s.now \in 0..MaxEntries
  BY DEF Known, QueueStates
<1>2. q.version \in Nat /\ r.version = q.version + 1 /\ r.epoch = q.epoch
  BY DEF Wellformed, Desks, GoesOn
<1>3. s.epoch = q.epoch => s.version < r.version /\ Reached(r, s.now)
  BY <1>1, <1>2 DEF Known, GoesOn
<1>4. State(r).epoch = r.epoch /\ State(r).version = r.version
  BY DEF State
<1> QED
  BY <1>1, <1>2, <1>3, <1>4 DEF Known

\* The next process has sent nothing yet, and everything known is older.
LEMMA KnownOfOlder ==
    ASSUME NEW q, Wellformed(q), q.epoch < MaxEpochs, NEW s, Known(q, s)
    PROVE  Known(NewQueue(q.epoch + 1), s) /\ s.epoch < NewQueue(q.epoch + 1).epoch
<1>1. q.epoch \in Nat /\ s.epoch \in Nat /\ NewQueue(q.epoch + 1).epoch = q.epoch + 1
  BY Bounds DEF Wellformed, Desks, Epochs, Known, QueueStates, NewQueue
<1> QED
  BY <1>1 DEF Known


--------------------------------------------------------------------------------
(* The player.                                                                 *)

LocalStates == [epoch : 0..MaxEpochs, version : Nat, now : 0..MaxEntries, paused : BOOLEAN,
                volume : Volumes]

Players == [local : LocalStates, playing : 0..MaxEntries, userPaused : BOOLEAN,
            volume : Volumes, away : BOOLEAN, speaking : BOOLEAN,
            status : {"idle", "playing", "paused"}]

\* What sounds is a track of its number; it is paused when a person paused it,
\* and only by a person, by speech or for want of company.
Sounds(m) ==
    /\ m \in Players
    /\ m.playing = Nothing => m.status = "idle"
    /\ m.playing # Nothing =>
         m.status # "idle" /\ (m.userPaused => m.status = "paused")
    /\ m.status = "paused" => m.userPaused \/ m.away \/ m.speaking

\* It sounds as the state the player followed, if at all.
Plays(m) ==
    /\ Sounds(m)
    /\ m.playing \in {Nothing, m.local.now}
    /\ m.local.now # Nothing => m.userPaused = m.local.paused

\* What a helper leaves of the player.
Alike(m, k) == k.local = m.local /\ k.playing = m.playing /\ k.away = m.away
               /\ k.speaking = m.speaking /\ k.volume = m.volume

\* A player, and a state, is something.
LEMMA SomethingIsNotNone ==
    /\ \A m \in Players : m # None
    /\ \A s \in QueueStates : s # None
  BY DEF Players, QueueStates, None

\* Pausing and going on change the status only.
LEMMA PausedAlike ==
    ASSUME NEW m \in Players
    PROVE  /\ PlayerPaused(m) \in Players /\ Alike(m, PlayerPaused(m))
           /\ PlayerPaused(m).userPaused = m.userPaused
           /\ PlayerPaused(m).status = IF m.status = "playing" THEN "paused" ELSE m.status
           /\ Unpaused(m) \in Players /\ Alike(m, Unpaused(m))
           /\ Unpaused(m).userPaused = m.userPaused
           /\ Unpaused(m).status = IF m.status = "paused" THEN "playing" ELSE m.status
  BY DEF PlayerPaused, Unpaused, Players, Alike

\* A person pauses.
LEMMA UserPausedSounds ==
    ASSUME NEW m \in Players, Sounds(m) \/ (m.playing # Nothing /\ m.status = "playing")
    PROVE  /\ Sounds(UserPaused(m)) /\ Alike(m, UserPaused(m)) /\ UserPaused(m).userPaused
<1>1. PICK k : k = [m EXCEPT !.userPaused = TRUE]
  OBVIOUS
<1>2. k \in Players /\ Alike(m, k) /\ k.userPaused /\ k.status = m.status
  BY <1>1 DEF Players, Alike
<1>3. UserPaused(m) = PlayerPaused(k)
  BY <1>1 DEF UserPaused
<1>4. PICK l : l = PlayerPaused(k)
  OBVIOUS
<1>5. /\ l \in Players /\ Alike(k, l) /\ l.userPaused = k.userPaused
      /\ l.status = IF k.status = "playing" THEN "paused" ELSE k.status
  BY <1>2, <1>4, PausedAlike
<1>6. Alike(m, l)
  BY <1>2, <1>5 DEF Alike
<1>7. m.status \in {"idle", "playing", "paused"}
  BY DEF Players
<1>8. Sounds(l)
  BY <1>2, <1>5, <1>7 DEF Sounds, Alike
<1> QED
  BY <1>2, <1>3, <1>4, <1>5, <1>6, <1>8

\* A person goes on.
LEMMA UserResumedSounds ==
    ASSUME NEW m, Sounds(m)
    PROVE  /\ Sounds(UserResumed(m)) /\ Alike(m, UserResumed(m)) /\ ~UserResumed(m).userPaused
<1>1. PICK k : k = [m EXCEPT !.userPaused = FALSE]
  OBVIOUS
<1>2. k \in Players /\ Alike(m, k) /\ ~k.userPaused /\ k.status = m.status
  BY <1>1 DEF Players, Alike, Sounds
<1>3. PICK l : l = UserResumed(m)
  OBVIOUS
<1>4. m \in Players /\ m.status \in {"idle", "playing", "paused"}
  BY DEF Players, Sounds
<1>5. CASE m.speaking \/ m.away
  <2>1. l = k
    BY <1>1, <1>3, <1>5 DEF UserResumed
  <2> QED
    BY <1>2, <1>3, <1>4, <1>5, <2>1 DEF Sounds, Alike
<1>6. CASE ~(m.speaking \/ m.away)
  <2>1. l = Unpaused(k)
    BY <1>1, <1>3, <1>6 DEF UserResumed
  <2>2. /\ l \in Players /\ Alike(k, l) /\ l.userPaused = k.userPaused
        /\ l.status = IF k.status = "paused" THEN "playing" ELSE k.status
    BY <1>2, <2>1, PausedAlike
  <2>3. Alike(m, l)
    BY <1>2, <2>2 DEF Alike
  <2>4. Sounds(l)
    BY <1>2, <1>4, <2>2 DEF Sounds, Alike
  <2> QED
    BY <1>2, <1>3, <2>2, <2>3, <2>4
<1> QED
  BY <1>5, <1>6

\* Silence.
LEMMA SilencedSounds ==
    ASSUME NEW m, Sounds(m)
    PROVE  /\ Sounds(Silenced(m)) /\ Silenced(m).playing = Nothing
           /\ Silenced(m).local = m.local /\ Silenced(m).userPaused = m.userPaused
<1>1. PICK k : k = Silenced(m)
  OBVIOUS
<1>2. Nothing \in 0..MaxEntries /\ "idle" \in {"idle", "playing", "paused"}
  BY Bounds DEF Nothing
<1>3. k = [m EXCEPT !.playing = Nothing, !.status = "idle"] /\ m \in Players
  BY <1>1 DEF Silenced, Sounds
<1>4. k \in Players
  BY <1>2, <1>3, Zenon DEF Players
<1>5. /\ k.playing = Nothing /\ k.status = "idle" /\ k.local = m.local
      /\ k.userPaused = m.userPaused
  BY <1>3 DEF Players
<1> QED
  BY <1>1, <1>4, <1>5 DEF Sounds

\* The state followed, with its own pause or none.
LEMMA FollowedLocal ==
    ASSUME NEW s \in QueueStates
    PROVE  /\ Followed(s) \in LocalStates
           /\ Followed(s).epoch = s.epoch /\ Followed(s).version = s.version
           /\ Followed(s).now = s.now
           /\ s.now # Nothing => Followed(s).paused = s.paused
<1>1. PICK b \in BOOLEAN : b <=> (s.now # Nothing /\ s.paused)
  OBVIOUS
<1>2. b = (s.now # Nothing /\ s.paused)
  BY <1>1
<1>3. Followed(s) = [s EXCEPT !.paused = b]
  BY <1>2, Zenon DEF Followed
<1>4. s.epoch \in 0..MaxEpochs
  BY Bounds DEF QueueStates, Epochs
<1>5. s.paused \in BOOLEAN
  BY DEF QueueStates
<1> QED
  BY <1>1, <1>3, <1>4, <1>5 DEF QueueStates, LocalStates


\* A state that plays nothing, or the track that plays, adjusts the player.
LEMMA AdjustedPlays ==
    ASSUME NEW m, Plays(m), NEW s \in QueueStates,
           s.now = Nothing \/ SameTrack(m.local, s)
    PROVE  LET k == [Adjusted(m, s) EXCEPT !.local = Followed(s)]
           IN  /\ Plays(k) /\ k.local = Followed(s)
               /\ s.now # Nothing => k.playing = m.playing
<1>1. PICK a : a = Adjusted(m, s)
  OBVIOUS
<1>2. m \in Players /\ Sounds(m)
  BY DEF Plays, Sounds
<1>3. PICK f \in LocalStates : /\ f = Followed(s) /\ f.now = s.now
                               /\ s.now # Nothing => f.paused = s.paused
  BY FollowedLocal
<1>4. PICK k : k = [a EXCEPT !.local = f]
  OBVIOUS
<1>5. ASSUME Sounds(a)
      PROVE  /\ Sounds(k) /\ k.local = f /\ k.playing = a.playing /\ k.userPaused = a.userPaused
  <2>1. k \in Players /\ k.local = f /\ k.playing = a.playing /\ k.userPaused = a.userPaused
        /\ k.status = a.status /\ k.away = a.away /\ k.speaking = a.speaking
    BY <1>4, <1>5 DEF Sounds, Players
  <2> QED
    BY <1>5, <2>1 DEF Sounds
<1>6. CASE s.now = Nothing
  <2>1. CASE m.local.now # Nothing
    <3>1. a = Silenced(m)
      BY <1>1, <1>6, <2>1 DEF Adjusted
    <3>2. Sounds(a) /\ a.playing = Nothing
      BY <1>2, <3>1, SilencedSounds
    <3> QED
      BY <1>1, <1>3, <1>4, <1>5, <1>6, <3>2 DEF Plays
  <2>2. CASE m.local.now = Nothing
    <3>1. a = m
      BY <1>1, <1>6, <2>2 DEF Adjusted
    <3>2. a.playing = Nothing
      BY <2>2, <3>1 DEF Plays
    <3> QED
      BY <1>1, <1>2, <1>3, <1>4, <1>5, <1>6, <3>1, <3>2 DEF Plays
  <2> QED
    BY <2>1, <2>2
<1>7. CASE s.now # Nothing
  <2>1. m.local.now = s.now /\ m.userPaused = m.local.paused
    BY <1>7 DEF SameTrack, Plays
  <2>2. PICK louder : louder = IF s.volume # m.local.volume THEN [m EXCEPT !.volume = s.volume] ELSE m
    OBVIOUS
  <2>3. /\ louder \in Players /\ Sounds(louder) /\ louder.local = m.local
        /\ louder.playing = m.playing /\ louder.userPaused = m.userPaused
    <3>1. CASE s.volume # m.local.volume
      <4>1. louder = [m EXCEPT !.volume = s.volume] /\ s.volume \in Volumes
        BY <2>2, <3>1 DEF QueueStates
      <4>2. louder \in Players /\ louder.local = m.local /\ louder.playing = m.playing
            /\ louder.userPaused = m.userPaused /\ louder.status = m.status
            /\ louder.away = m.away /\ louder.speaking = m.speaking
        BY <1>2, <4>1 DEF Players
      <4> QED
        BY <1>2, <4>2 DEF Sounds
    <3>2. CASE ~(s.volume # m.local.volume)
      BY <1>2, <2>2, <3>2
    <3> QED
      BY <3>1, <3>2
  <2>4. a = CASE s.paused /\ ~m.local.paused -> UserPaused(louder)
              [] ~s.paused /\ m.local.paused -> UserResumed(louder)
              [] OTHER -> louder
    BY <1>1, <1>7, <2>2 DEF Adjusted
  <2>5. s.paused \in BOOLEAN /\ m.local.paused \in BOOLEAN /\ m.userPaused \in BOOLEAN
    BY <1>2 DEF QueueStates, Players, LocalStates
  <2>6. Sounds(a) /\ a.playing = m.playing /\ a.userPaused = s.paused
    <3>1. CASE s.paused /\ ~m.local.paused
      <4>1. a = UserPaused(louder)
        BY <2>4, <3>1
      <4>2. Sounds(a) /\ Alike(louder, a) /\ a.userPaused
        BY <2>3, <4>1, UserPausedSounds
      <4>3. a.userPaused \in BOOLEAN
        BY <4>2 DEF Sounds, Players
      <4> QED
        BY <2>3, <2>5, <3>1, <4>2, <4>3 DEF Alike
    <3>2. CASE ~s.paused /\ m.local.paused
      <4>1. a = UserResumed(louder)
        BY <2>4, <3>2
      <4>2. Sounds(a) /\ Alike(louder, a) /\ ~a.userPaused
        BY <2>3, <4>1, UserResumedSounds
      <4>3. a.userPaused \in BOOLEAN
        BY <4>2 DEF Sounds, Players
      <4> QED
        BY <2>3, <2>5, <3>2, <4>2, <4>3 DEF Alike
    <3>3. CASE s.paused = m.local.paused
      <4>1. a = louder
        BY <2>4, <2>5, <3>3
      <4> QED
        BY <2>1, <2>3, <3>3, <4>1
    <3> QED
      BY <2>5, <3>1, <3>2, <3>3
  <2>7. Sounds(k) /\ k.local = f /\ k.playing = m.playing /\ k.userPaused = f.paused
    BY <1>3, <1>5, <1>7, <2>6
  <2>8. m.playing \in {Nothing, f.now}
    BY <1>3, <2>1 DEF Plays
  <2> QED
    BY <1>1, <1>3, <1>4, <2>7, <2>8 DEF Plays
<1> QED
  BY <1>6, <1>7

\* A state that plays another track starts it.
LEMMA StartedPlays ==
    ASSUME NEW m \in Players, NEW s \in QueueStates, s.now # Nothing
    PROVE  LET k == [Started(m, s) EXCEPT !.local = Followed(s)]
           IN  Plays(k) /\ k.local = Followed(s) /\ k.playing = s.now
<1>1. PICK f \in LocalStates : f = Followed(s) /\ f.now = s.now /\ f.paused = s.paused
  BY FollowedLocal
<1>2. PICK v \in Volumes : v = IF s.volume # Loudest THEN s.volume ELSE m.volume
  BY DEF QueueStates, Players
<1>3. PICK play : play = [m EXCEPT !.playing = s.now, !.userPaused = FALSE, !.status = "playing",
                                   !.volume = IF s.volume # Loudest THEN s.volume ELSE @]
  OBVIOUS
<1>4. play = [m EXCEPT !.playing = s.now, !.userPaused = FALSE, !.status = "playing", !.volume = v]
  BY <1>2, <1>3
<1>5. s.now \in 0..MaxEntries /\ FALSE \in BOOLEAN /\ "playing" \in {"idle", "playing", "paused"}
      /\ s.paused \in BOOLEAN
  BY DEF QueueStates
<1>6. play \in Players
  BY <1>4, <1>5, Zenon DEF Players
<1>7. play.playing = s.now /\ ~play.userPaused /\ play.status = "playing"
  BY <1>4 DEF Players
<1>8. PICK a : a = Started(m, s)
  OBVIOUS
<1>9. Sounds(a) /\ a.playing = s.now /\ a.userPaused = s.paused
  <2>1. CASE s.paused
    <3>1. a = UserPaused(play)
      BY <1>3, <1>8, <2>1 DEF Started
    <3>2. Sounds(a) /\ Alike(play, a) /\ a.userPaused
      BY <1>6, <1>7, <3>1, UserPausedSounds
    <3>3. a.userPaused \in BOOLEAN
      BY <3>2 DEF Sounds, Players
    <3> QED
      BY <1>5, <1>7, <2>1, <3>2, <3>3 DEF Alike
  <2>2. CASE ~s.paused
    <3>1. a = play
      BY <1>3, <1>8, <2>2 DEF Started
    <3>2. Sounds(a)
      BY <1>6, <1>7, <3>1 DEF Sounds
    <3>3. a.userPaused \in BOOLEAN
      BY <3>2 DEF Sounds, Players
    <3> QED
      BY <1>5, <1>7, <2>2, <3>1, <3>2, <3>3
  <2> QED
    BY <2>1, <2>2
<1>10. PICK k : k = [a EXCEPT !.local = f]
  OBVIOUS
<1>11. k \in Players /\ k.local = f /\ k.playing = a.playing /\ k.userPaused = a.userPaused
       /\ k.status = a.status /\ k.away = a.away /\ k.speaking = a.speaking
  BY <1>9, <1>10 DEF Sounds, Players
<1>12. Sounds(k)
  BY <1>9, <1>11 DEF Sounds
<1>13. Plays(k)
  BY <1>1, <1>9, <1>11, <1>12 DEF Plays
<1> QED
  BY <1>1, <1>8, <1>9, <1>10, <1>11, <1>13


--------------------------------------------------------------------------------
(* The inductive invariant.                                                    *)

\* What was sent is known; a state that waits for a connection plays a track.
Outside ==
    /\ \A s \in Sent : Known(desk, s)
    /\ \A s \in awaiting : s.now # Nothing

\* The player plays as a state the queue came to.
PlayerKnown ==
    music # None =>
        /\ Plays(music)
        /\ music.local.epoch <= desk.epoch
        /\ music.local.epoch = desk.epoch => Reached(desk, music.local.now)

\* A state is not newer than another.
NotNewer(s, than) == s.epoch < than.epoch \/ (s.epoch = than.epoch /\ s.version <= than.version)

\* The newest state is on its way or taken, or this process sent none yet.
Newest ==
    \/ State(desk) \in replies
    \/ taken = State(desk)
    \/ \A s \in Sent : s.epoch < desk.epoch

\* What waits or plays is no newer than what was taken last.
Behind ==
    /\ \A s \in awaiting : taken # None /\ NotNewer(s, taken)
    /\ music # None => taken # None /\ NotNewer(music.local, taken)

\* What was taken last waits for the connection, or the player followed it,
\* unless a play undid it; then the player's state plays a track.
Follows ==
    taken # None =>
        \/ taken \in awaiting \/ music = None \/ music.local = Followed(taken)
        \/ history.overtaken /\ music.local.now # Nothing

\* A player gone with the newest state is reported.
GoneKnown ==
    /\ taken # None /\ taken = State(desk) /\ taken.now # Nothing
    /\ taken \notin awaiting /\ music = None
    => \E x \in reports : x.kind = "gone"

\* The end of the track that the queue plays is reported.
EndKnown ==
    /\ music # None /\ music.local.epoch = desk.epoch
    /\ desk.now # Nothing /\ music.local.now = desk.now /\ music.playing = Nothing
    => \E x \in reports : x.kind = "ended" /\ x.entry = desk.now

\* What is so of an adapter that was never disturbed.
Undisturbed == ~history.disturbed => Newest /\ Behind /\ Follows /\ GoneKnown /\ EndKnown

\* The inductive invariant.
Sound == Wellformed(desk) /\ Counted(desk, history) /\ Outside /\ PlayerKnown /\ Undisturbed
--------------------------------------------------------------------------------
(* The steps of the desk.                                                      *)

\* Reports stay on their way, or the queue becomes what they ask for: what
\* ended does not play, and a player gone is followed by a change.
ReportsHeeded(r) ==
    \A x \in reports :
        \/ x \in reports'
        \/ x.kind = "gone" /\ GoesOn(desk, r)
        \/ x.kind = "ended" /\ (desk.now = Nothing \/ x.entry # desk.now \/ r.now # desk.now)

\* A desk that answers with the queue, changed or not, after a report or none.
LEMMA DeskSound ==
    ASSUME Sound, NEW r, r = desk \/ GoesOn(desk, r), desk' = r,
           replies' = replies \cup {State(r)}, UNCHANGED adapterVars,
           Counted(r, history'), history'.disturbed = history.disturbed,
           history'.overtaken = history.overtaken, ReportsHeeded(r)
    PROVE  Sound'
<1>1. taken' = taken /\ awaiting' = awaiting /\ music' = music
  BY DEF adapterVars
<1>2. Wellformed(desk) /\ Wellformed(r) /\ r.epoch = desk.epoch
  BY DEF Sound, GoesOn
<1>3. /\ Known(r, State(r))
      /\ \A s : Known(desk, s) => Known(r, s) /\ (GoesOn(desk, r) => s # State(r))
  BY <1>2, StateKnown, KnownGoesOn
<1>4. \A s \in Sent' : s = State(r) \/ s \in Sent
  BY <1>1 DEF Sent
<1>5. Outside'
  BY <1>1, <1>3, <1>4 DEF Sound, Outside
<1>6. music # None => music.local.now \in 0..MaxEntries
  BY DEF Sound, PlayerKnown, Plays, Sounds, Players, LocalStates
<1>7. PlayerKnown'
  BY <1>1, <1>2, <1>6 DEF Sound, PlayerKnown, GoesOn
<1>8. ASSUME ~history'.disturbed
      PROVE  Newest' /\ Behind' /\ Follows' /\ GoneKnown' /\ EndKnown'
  <2>1. Newest /\ Behind /\ Follows /\ GoneKnown /\ EndKnown
    BY <1>8 DEF Sound, Undisturbed
  <2>2. Newest'
    BY DEF Newest
  <2>3. Behind' /\ Follows'
    BY <1>1, <2>1 DEF Behind, Follows
  <2>4. GoneKnown'
    <3> SUFFICES ASSUME taken # None, taken = State(r), taken.now # Nothing,
                        taken \notin awaiting, music = None
                 PROVE  \E x \in reports' : x.kind = "gone"
      BY <1>1 DEF GoneKnown
    <3>1. Known(desk, taken)
      BY DEF Sound, Outside, Sent
    <3>2. ~GoesOn(desk, r) /\ r = desk
      BY <1>3, <3>1
    <3>3. PICK x \in reports : x.kind = "gone"
      BY <2>1, <3>2 DEF GoneKnown
    <3> QED
      BY <3>2, <3>3 DEF ReportsHeeded
  <2>5. EndKnown'
    <3> SUFFICES ASSUME music # None, music.local.epoch = r.epoch, r.now # Nothing,
                        music.local.now = r.now, music.playing = Nothing
                 PROVE  \E x \in reports' : x.kind = "ended" /\ x.entry = r.now
      BY <1>1 DEF EndKnown
    <3>1. Reached(desk, r.now)
      BY <1>2 DEF Sound, PlayerKnown
    <3>2. r.now = desk.now
      BY <3>1 DEF GoesOn
    <3>3. PICK x \in reports : x.kind = "ended" /\ x.entry = desk.now
      BY <1>2, <2>1, <3>2 DEF EndKnown
    <3> QED
      BY <3>2, <3>3 DEF ReportsHeeded
  <2> QED
    BY <2>2, <2>3, <2>4, <2>5
<1> QED
  BY <1>2, <1>5, <1>7, <1>8 DEF Sound, Undisturbed

\* The counts, when nothing left the queue.
LEMMA StillCounted ==
    ASSUME NEW q, Wellformed(q), NEW r, GoesOn(q, r), NEW h, Counted(q, h),
           q.now # Nothing => r.now = q.now
    PROVE  Counted(r, h)
  BY CountsGoOn DEF Counted

\* The counts, when what played left the queue.
LEMMA NotedCounted ==
    ASSUME Sound, NEW r, GoesOn(desk, r), r.now # desk.now \/ desk.now = Nothing
    PROVE  /\ Counted(r, Noted(history)) /\ Noted(history).disturbed = history.disturbed
           /\ Noted(history).overtaken = history.overtaken
<1>1. desk.now \in 0..MaxEntries /\ history \in Histories /\ ~history.misled
      /\ Wellformed(desk) /\ Counted(desk, history)
  BY DEF Sound, Wellformed, Desks, Counted
<1>2. PICK h : h = Noted(history)
  OBVIOUS
<1>3. /\ h \in Histories /\ h.remarked = history.remarked /\ h.misled = history.misled
      /\ h.disturbed = history.disturbed /\ h.overtaken = history.overtaken
      /\ \A e \in Entries :
           h.noted[e] = IF e = desk.now THEN history.noted[e] + 1 ELSE history.noted[e]
  BY <1>1, <1>2, NotedCounts
<1>4. Counted(r, h)
  BY <1>1, <1>3, CountsGoOn
<1> QED
  BY <1>2, <1>3, <1>4

\* Play, pause, resume, volume and show.
LEMMA AskSound ==
    ASSUME Sound, Add \/ PauseOrResume \/ SetVolume \/ Show
    PROVE  Sound'
<1>1. PICK r : r = desk'
  OBVIOUS
<1>2. /\ desk' = r /\ replies' = replies \cup {State(r)} /\ reports' = reports
      /\ UNCHANGED adapterVars /\ history' = history
  BY <1>1 DEF Add, PauseOrResume, SetVolume, Show, Answer
<1>3. Wellformed(desk) /\ Counted(desk, history)
  BY DEF Sound
<1>4. r = desk \/ (GoesOn(desk, r) /\ (desk.now # Nothing => r.now = desk.now))
  <2>1. CASE Add
    BY <1>1, <1>3, <2>1, AddedGoesOn DEF Add, Answer
  <2>2. CASE PauseOrResume
    <3>1. PICK paused \in BOOLEAN : r = [Bumped(desk) EXCEPT !.paused = paused]
      BY <1>1, <2>2 DEF PauseOrResume, Answer
    <3> QED
      BY <1>3, <3>1, SetGoesOn, Bounds
  <2>3. CASE SetVolume
    <3>1. PICK v \in Volumes : r = [Bumped(desk) EXCEPT !.volume = v]
      BY <1>1, <2>3 DEF SetVolume, Answer
    <3> QED
      BY <1>3, <3>1, SetGoesOn
  <2>4. CASE Show
    BY <1>1, <2>4 DEF Show, Answer
  <2> QED
    BY <2>1, <2>2, <2>3, <2>4
<1>5. Counted(r, history')
  BY <1>2, <1>3, <1>4, StillCounted
<1> QED
  BY <1>2, <1>4, <1>5, DeskSound DEF ReportsHeeded

\* Skip and stop.
LEMMA EndSound ==
    ASSUME Sound, Skip \/ Stop
    PROVE  Sound'
<1>1. PICK r : r = desk'
  OBVIOUS
<1>2. /\ desk' = r /\ replies' = replies \cup {State(r)} /\ reports' = reports
      /\ UNCHANGED adapterVars /\ history' = Noted(history)
  BY <1>1 DEF Skip, Stop, Answer
<1>3. GoesOn(desk, r) /\ (r.now # desk.now \/ desk.now = Nothing)
  <2>1. CASE Skip
    BY <1>1, <2>1, AdvancedGoesOn DEF Skip, Answer, Sound
  <2>2. CASE Stop
    BY <1>1, <2>2, StoppedGoesOn DEF Stop, Answer, Sound
  <2> QED
    BY <2>1, <2>2
<1>4. /\ Counted(r, history') /\ history'.disturbed = history.disturbed
      /\ history'.overtaken = history.overtaken
  BY <1>2, <1>3, NotedCounted
<1> QED
  BY <1>2, <1>3, <1>4, DeskSound DEF ReportsHeeded


\* A report that a track ended.
LEMMA TrackReportedSound ==
    ASSUME Sound, TrackReported
    PROVE  Sound'
<1>1. PICK x \in reports :
        /\ x.kind = "ended"
        /\ reports' = reports \ {x}
        /\ \/ /\ IsPlaying(desk, x.entry)
              /\ Answer(Advanced(desk))
              /\ history' = [Noted(history) EXCEPT
                               !.misled = @ \/ (x.epoch = desk.epoch /\ x.entry # desk.now)]
           \/ /\ ~IsPlaying(desk, x.entry)
              /\ Answer(desk)
              /\ history' = history
        /\ UNCHANGED adapterVars
  BY DEF TrackReported
<1>2. PICK r : r = desk'
  OBVIOUS
<1>3. x.kind = "ended" /\ (\A y \in reports : y \in reports' \/ y = x) /\ UNCHANGED adapterVars
  BY <1>1
<1>4. Wellformed(desk) /\ Counted(desk, history)
  BY DEF Sound
<1>5. CASE IsPlaying(desk, x.entry)
  <2>1. desk.now # Nothing /\ desk.now = x.entry
    BY <1>5 DEF IsPlaying
  <2>2. r = Advanced(desk) /\ replies' = replies \cup {State(r)}
    BY <1>1, <1>2, <1>5 DEF Answer
  <2>3. GoesOn(desk, r) /\ r.now # desk.now
    BY <1>4, <2>1, <2>2, AdvancedGoesOn
  <2>4. /\ Counted(r, Noted(history)) /\ Noted(history).disturbed = history.disturbed
        /\ Noted(history).overtaken = history.overtaken
    BY <2>3, NotedCounted
  <2>5. PICK h \in Histories : h = Noted(history) /\ ~h.misled
    BY <2>4 DEF Counted
  <2>6. (h.misled \/ (x.epoch = desk.epoch /\ x.entry # desk.now)) = FALSE
    BY <2>1, <2>5
  <2>7. history' = [h EXCEPT !.misled = FALSE]
    BY <1>1, <1>5, <2>5, <2>6, Zenon
  <2>8. history' = h
    BY <2>5, <2>7 DEF Histories
  <2> QED
    <3>1. /\ Counted(r, history') /\ history'.disturbed = history.disturbed
          /\ history'.overtaken = history.overtaken
      BY <2>4, <2>5, <2>8
    <3>2. ReportsHeeded(r)
      BY <1>3, <2>3 DEF ReportsHeeded
    <3>3. UNCHANGED adapterVars /\ desk' = r /\ replies' = replies \cup {State(r)} /\ GoesOn(desk, r)
      BY <1>2, <1>3, <2>2, <2>3
    <3> QED
      BY <3>1, <3>2, <3>3, DeskSound
<1>6. CASE ~IsPlaying(desk, x.entry)
  <2>1. r = desk /\ replies' = replies \cup {State(r)} /\ history' = history
    BY <1>1, <1>2, <1>6 DEF Answer
  <2>2. x.entry # desk.now \/ desk.now = Nothing
    BY <1>6 DEF IsPlaying
  <2> QED
    <3>1. ReportsHeeded(r)
      BY <1>3, <2>2 DEF ReportsHeeded
    <3>2. UNCHANGED adapterVars /\ desk' = r /\ replies' = replies \cup {State(r)} /\ r = desk
      BY <1>2, <1>3, <2>1
    <3> QED
      BY <1>4, <2>1, <3>1, <3>2, DeskSound
<1> QED
  BY <1>5, <1>6

\* A report that the voice connection is gone.
LEMMA GoneReportedSound ==
    ASSUME Sound, GoneReported
    PROVE  Sound'
<1>1. PICK x \in reports :
        /\ x.kind = "gone"
        /\ reports' = reports \ {x}
        /\ Answer(Stopped(desk))
        /\ history' = Noted(history)
        /\ UNCHANGED adapterVars
  BY DEF GoneReported
<1>2. PICK r : r = Stopped(desk)
  OBVIOUS
<1>3. desk' = r /\ replies' = replies \cup {State(r)}
  BY <1>1, <1>2 DEF Answer
<1>4. GoesOn(desk, r) /\ r.now = Nothing
  BY <1>2, StoppedGoesOn DEF Sound
<1>5. /\ Counted(r, history') /\ history'.disturbed = history.disturbed
      /\ history'.overtaken = history.overtaken
  BY <1>1, <1>4, NotedCounted
<1> QED
  BY <1>1, <1>3, <1>4, <1>5, DeskSound DEF ReportsHeeded

\* A remark on the play that the queue did not know of.
LEMMA RemarkSound ==
    ASSUME Sound, Remark
    PROVE  Sound'
<1>1. PICK e \in Entries :
        /\ e = desk.now /\ desk.commented # e
        /\ desk' = [desk EXCEPT !.commented = e]
        /\ history' = [history EXCEPT !.remarked[e] = @ + 1]
        /\ UNCHANGED <<replies, reports, adapterVars>>
  BY DEF Remark
<1>2. PICK r : r = desk'
  OBVIOUS
<1>3. desk \in Desks /\ Wellformed(desk) /\ history \in Histories /\ e \in 0..MaxEntries
  BY Bounds DEF Sound, Wellformed, Counted, Entries
<1>4. /\ r \in Desks /\ r.commented = e /\ r.epoch = desk.epoch /\ r.version = desk.version
      /\ r.now = desk.now /\ r.waiting = desk.waiting /\ r.entries = desk.entries
      /\ r.paused = desk.paused /\ r.volume = desk.volume
  BY <1>1, <1>2, <1>3 DEF Desks
<1>5. Wellformed(r) /\ State(r) = State(desk) /\ \A n : Reached(r, n) <=> Reached(desk, n)
  BY <1>1, <1>3, <1>4 DEF Wellformed, Ordered, State, Reached
<1>6. PICK more : more = [history.remarked EXCEPT ![e] = history.remarked[e] + 1]
  OBVIOUS
<1>7. /\ more \in [Entries -> Nat] /\ more[e] = history.remarked[e] + 1
      /\ \A other \in Entries : other # e => more[other] = history.remarked[other]
  BY <1>3, <1>6 DEF Histories
<1>8. history' = [history EXCEPT !.remarked = more]
  BY <1>1, <1>6
<1>9. /\ history' \in Histories /\ history'.remarked = more /\ history'.noted = history.noted
      /\ history'.misled = history.misled /\ history'.disturbed = history.disturbed
      /\ history'.overtaken = history.overtaken
  BY <1>3, <1>7, <1>8 DEF Histories
<1>10. history.remarked[e] = 0
  BY <1>1, <1>3 DEF Sound, Counted, Histories
<1>11. Reached(desk, e)
  BY <1>1, <1>3, Bounds DEF Reached, Wellformed, Ordered, Desks
<1>12. Counted(r, history')
  <2>1. \A other \in Entries :
          /\ history'.noted[other] <= 1
          /\ history'.noted[other] # 0 => Reached(r, other) /\ other # r.now
    BY <1>4, <1>5, <1>9 DEF Sound, Counted
  <2>2. \A other \in Entries :
          /\ history'.remarked[other] <= 1
          /\ history'.remarked[other] # 0 => Reached(r, other) /\ (other = r.now => r.commented = other)
    BY <1>1, <1>4, <1>5, <1>7, <1>9, <1>10, <1>11 DEF Sound, Counted
  <2> QED
    BY <1>9, <2>1, <2>2 DEF Sound, Counted
<1>13. \A s : Known(desk, s) => Known(r, s)
  BY <1>4, <1>5 DEF Known
<1>14. replies' = replies /\ reports' = reports /\ taken' = taken /\ awaiting' = awaiting
       /\ music' = music
  BY <1>1 DEF adapterVars
<1>15. Outside'
  BY <1>2, <1>13, <1>14 DEF Sound, Outside, Sent
<1>16. PlayerKnown'
  BY <1>2, <1>4, <1>5, <1>14 DEF Sound, PlayerKnown
<1>17. Undisturbed'
  BY <1>2, <1>4, <1>5, <1>9, <1>14
     DEF Sound, Undisturbed, Newest, Behind, Follows, GoneKnown, EndKnown, Sent
<1> QED
  BY <1>2, <1>5, <1>12, <1>15, <1>16, <1>17 DEF Sound

\* A new process: what is known outside is of older ones.
LEMMA RestartSound ==
    ASSUME Sound, Restart
    PROVE  Sound'
<1>1. PICK r : r = NewQueue(desk.epoch + 1)
  OBVIOUS
<1>2. desk' = r /\ desk.epoch < MaxEpochs
      /\ history' = NewHistory(history.disturbed, history.overtaken)
      /\ replies' = replies /\ reports' = reports /\ taken' = taken /\ awaiting' = awaiting
      /\ music' = music
  BY <1>1 DEF Restart, adapterVars
<1>3. desk.epoch \in Nat /\ desk.epoch + 1 \in Epochs /\ Wellformed(desk)
      /\ history.disturbed \in BOOLEAN /\ history.overtaken \in BOOLEAN
  BY <1>2, Bounds DEF Sound, Wellformed, Desks, Epochs, Counted, Histories
<1>4. /\ r.now = Nothing /\ r.waiting = <<>> /\ r.entries = 0 /\ r.commented = 0
      /\ r.epoch = desk.epoch + 1
  BY <1>1 DEF NewQueue
<1>5. r \in Desks
  <2>1. <<>> \in Seq(Entries) /\ 0 \in 0..MaxEntries /\ Loudest \in Volumes /\ FALSE \in BOOLEAN
        /\ 0 \in Nat /\ Nothing \in 0..MaxEntries
    BY Bounds DEF Nothing
  <2> QED
    BY <1>1, <1>3, <2>1, Zenon DEF NewQueue, Desks
<1>6. Wellformed(r)
  BY <1>4, <1>5, Bounds DEF Wellformed, Ordered, Nothing
<1>7. /\ history' \in Histories /\ ~history'.misled
      /\ history'.disturbed = history.disturbed /\ history'.overtaken = history.overtaken
      /\ \A e \in Entries : history'.noted[e] = 0 /\ history'.remarked[e] = 0
  BY <1>2, <1>3 DEF NewHistory, Histories
<1>8. Counted(r, history')
  BY <1>7 DEF Counted
<1>9. \A s \in Sent : Known(r, s) /\ s.epoch < r.epoch
  BY <1>1, <1>2, <1>3, KnownOfOlder DEF Sound, Outside
<1>10. Outside' /\ Sent' = Sent
  BY <1>2, <1>9 DEF Sound, Outside, Sent
<1>11. music # None => music.local.epoch \in Nat /\ music.local.epoch < r.epoch
  BY <1>3, <1>4, Bounds DEF Sound, PlayerKnown, Plays, Sounds, Players, LocalStates
<1>12. PlayerKnown'
  BY <1>2, <1>3, <1>4, <1>11 DEF Sound, PlayerKnown
<1>13. ASSUME ~history'.disturbed
       PROVE  Newest' /\ Behind' /\ Follows' /\ GoneKnown' /\ EndKnown'
  <2>1. Behind /\ Follows
    BY <1>7, <1>13 DEF Sound, Undisturbed
  <2>2. Newest'
    BY <1>2, <1>9, <1>10 DEF Newest
  <2>3. Behind' /\ Follows'
    BY <1>2, <1>7, <2>1 DEF Behind, Follows
  <2>4. GoneKnown'
    <3>1. taken # None => taken \in Sent
      BY DEF Sent
    <3>2. State(r).epoch = r.epoch
      BY DEF State
    <3>3. taken # None => taken.epoch \in Nat /\ taken.epoch < r.epoch
      BY <1>3, <1>4, <1>9, <3>1, Bounds DEF Known, QueueStates, Epochs
    <3>4. r.epoch \in Nat
      BY <1>3, <1>4
    <3> QED
      BY <1>2, <3>2, <3>3, <3>4 DEF GoneKnown
  <2>5. EndKnown'
    BY <1>2, <1>4 DEF EndKnown
  <2> QED
    BY <2>2, <2>3, <2>4, <2>5
<1> QED
  BY <1>2, <1>6, <1>8, <1>10, <1>12, <1>13 DEF Sound, Undisturbed

\* The counts look at nothing of the adapter.
LEMMA AdapterCounted ==
    ASSUME NEW q, NEW h, Counted(q, h), NEW g \in Histories,
           g.noted = h.noted, g.remarked = h.remarked, g.misled = h.misled
    PROVE  Counted(q, g)
  BY DEF Counted

\* A disturbed adapter's history counts the same.
LEMMA DisturbedCounted ==
    ASSUME NEW q, NEW h, Counted(q, h)
    PROVE  Counted(q, Disturbed(h)) /\ Disturbed(h).disturbed
<1>1. PICK g : g = Disturbed(h)
  OBVIOUS
<1>2. h \in Histories
  BY DEF Counted
<1>3. g \in Histories /\ g.noted = h.noted /\ g.remarked = h.remarked /\ g.misled = h.misled
      /\ g.disturbed
  BY <1>1, <1>2 DEF Disturbed, Histories
<1> QED
  BY <1>1, <1>3, AdapterCounted

\* A loss disturbs the adapter.
LEMMA LoseSound ==
    ASSUME Sound, Lose
    PROVE  Sound'
<1>1. /\ desk' = desk /\ taken' = taken /\ awaiting' = awaiting /\ music' = music
      /\ replies' \subseteq replies /\ history' = Disturbed(history)
  BY DEF Lose, adapterVars
<1>2. Sent' \subseteq Sent
  BY <1>1 DEF Sent
<1>3. Outside' /\ PlayerKnown'
  BY <1>1, <1>2 DEF Sound, Outside, PlayerKnown
<1>4. Counted(desk, history') /\ history'.disturbed
  BY <1>1, DisturbedCounted DEF Sound
<1> QED
  BY <1>1, <1>3, <1>4 DEF Sound, Undisturbed


--------------------------------------------------------------------------------
(* The steps of the adapter.                                                   *)

\* A state that is late is dropped: it is not the newest, or that was taken.
LEMMA DeliverLateSound ==
    ASSUME Sound, DeliverLate
    PROVE  Sound'
<1>1. PICK s \in replies :
        /\ Late(s)
        /\ replies' = replies \ {s}
        /\ desk' = desk /\ reports' = reports /\ history' = history
        /\ taken' = taken /\ awaiting' = awaiting /\ music' = music
  BY DEF DeliverLate, adapterVars
<1>2. Sent' \subseteq Sent /\ s \in Sent
  BY <1>1 DEF Sent
<1>3. Outside' /\ PlayerKnown'
  BY <1>1, <1>2 DEF Sound, Outside, PlayerKnown
<1>4. ASSUME Newest PROVE Newest'
  <2>1. taken # None /\ s.epoch = taken.epoch /\ s.version <= taken.version
    BY <1>1 DEF Late, Older
  <2>2. Known(desk, s) /\ Known(desk, taken)
    BY <1>2, <2>1 DEF Sound, Outside, Sent
  <2>3. /\ State(desk).epoch = desk.epoch /\ State(desk).version = desk.version
        /\ taken.version \in Nat /\ desk.version \in Nat
    BY <2>2 DEF State, Known, QueueStates, Sound, Wellformed, Desks
  <2>4. ASSUME s = State(desk) PROVE taken = State(desk)
    BY <2>1, <2>2, <2>3, <2>4 DEF Known
  <2> QED
    BY <1>1, <1>2, <1>4, <2>4 DEF Newest
<1>5. Undisturbed'
  BY <1>1, <1>4 DEF Sound, Undisturbed, Behind, Follows, GoneKnown, EndKnown
<1> QED
  BY <1>1, <1>3, <1>5 DEF Sound

\* An older state than one that was taken is older than what is taken next.
LEMMA NotNewerThan ==
    ASSUME NEW x, NEW s, NEW t,
           x.epoch \in Nat, x.version \in Nat, s.epoch \in Nat, s.version \in Nat,
           t.epoch \in Nat, t.version \in Nat,
           NotNewer(x, t), ~Older(s, t), ~(s.epoch < t.epoch)
    PROVE  NotNewer(x, s) /\ ~Older(s, x)
  BY DEF NotNewer, Older

\* The numbers of a state that is sent, and of the one the player follows.
LEMMA StateNumbers ==
    ASSUME Sound
    PROVE  /\ \A s \in Sent : /\ Known(desk, s) /\ s \in QueueStates
                              /\ s.epoch \in Nat /\ s.epoch > 0 /\ s.version \in Nat
           /\ music # None => music.local \in LocalStates /\ music.local.epoch \in Nat
                              /\ music.local.version \in Nat
  BY Bounds DEF Sound, Outside, Known, QueueStates, Epochs, PlayerKnown, Plays, Sounds, Players,
                LocalStates

\* A newer state is taken.
LEMMA DeliverSound ==
    ASSUME Sound, Deliver
    PROVE  Sound'
<1>1. PICK s \in replies :
        /\ ~Late(s)
        /\ replies' = replies \ {s}
        /\ taken' = s
        /\ LET local == IF music = None THEN Idle ELSE music.local
               stale == Older(s, local)
               plays == ~stale /\ s.now # Nothing /\ ~SameTrack(local, s)
           IN /\ IF plays
                 THEN /\ awaiting' = awaiting \cup {s}
                      /\ Cardinality(awaiting') <= MaxReplies
                      /\ UNCHANGED music
                 ELSE /\ music' = IF music = None \/ stale THEN music
                                  ELSE [Adjusted(music, s) EXCEPT !.local = Followed(s)]
                      /\ UNCHANGED awaiting
        /\ history' = [history EXCEPT !.overtaken = FALSE,
                          !.disturbed = @ \/ (taken # None /\ s.epoch < taken.epoch)]
        /\ desk' = desk /\ reports' = reports
  BY DEF Deliver
<1>2. PICK local : local = IF music = None THEN Idle ELSE music.local
  OBVIOUS
<1>3. /\ Older(s, local) /\ awaiting' = awaiting /\ music' = music
      \/ /\ ~Older(s, local) /\ s.now # Nothing /\ ~SameTrack(local, s)
         /\ awaiting' = awaiting \cup {s} /\ music' = music
      \/ /\ ~Older(s, local) /\ (s.now = Nothing \/ SameTrack(local, s))
         /\ awaiting' = awaiting
         /\ music' = IF music = None THEN music
                     ELSE [Adjusted(music, s) EXCEPT !.local = Followed(s)]
  BY <1>1, <1>2, Zenon
<1>4. s \in Sent /\ Sent' \subseteq Sent
  <2>1. s \in Sent /\ replies' \subseteq replies /\ taken' = s
    BY <1>1 DEF Sent
  <2>2. awaiting' \subseteq awaiting \cup {s}
    BY <1>3, Zenon
  <2> QED
    BY <2>1, <2>2 DEF Sent
<1>5. /\ Known(desk, s) /\ s \in QueueStates /\ s # None
      /\ s.epoch \in Nat /\ s.epoch > 0 /\ s.version \in Nat
  BY <1>4, StateNumbers, SomethingIsNotNone
<1>6. PICK k : k = [Adjusted(music, s) EXCEPT !.local = Followed(s)]
  OBVIOUS
<1>7. \/ music' = music /\ (music # None => Older(s, local) \/ s \in awaiting')
      \/ /\ music # None /\ music' = k /\ local = music.local /\ awaiting' = awaiting
         /\ s.now = Nothing \/ SameTrack(music.local, s)
         /\ Plays(k) /\ k.local = Followed(s) /\ (s.now # Nothing => k.playing = music.playing)
  <2>1. CASE music' = music /\ (Older(s, local) \/ s \in awaiting')
    BY <1>3, <2>1, Zenon
  <2>2. CASE music = None
    BY <1>3, <2>2, Zenon
  <2>3. CASE /\ music # None /\ ~Older(s, local) /\ (s.now = Nothing \/ SameTrack(local, s))
             /\ music' = k /\ awaiting' = awaiting
    <3>1. local = music.local /\ Plays(music)
      BY <1>2, <2>3 DEF Sound, PlayerKnown
    <3>2. Plays(k) /\ k.local = Followed(s) /\ (s.now # Nothing => k.playing = music.playing)
      BY <1>5, <1>6, <2>3, <3>1, AdjustedPlays
    <3> QED
      BY <2>3, <3>1, <3>2
  <2>4. s \in awaiting \cup {s}
    OBVIOUS
  <2> QED
    BY <1>3, <1>6, <2>1, <2>2, <2>3, <2>4, Zenon
<1>8. /\ Followed(s).epoch = s.epoch /\ Followed(s).version = s.version
      /\ Followed(s).now = s.now
  BY <1>5, FollowedLocal
<1>9. \A t \in awaiting' : t \in awaiting \/ (t = s /\ s.now # Nothing)
  BY <1>3, Zenon
<1>10. Outside'
  BY <1>1, <1>4, <1>9 DEF Sound, Outside
<1>11. PlayerKnown'
  <2>1. CASE music' = music
    BY <1>1, <2>1 DEF Sound, PlayerKnown
  <2>2. CASE music' = k /\ Plays(k) /\ k.local = Followed(s)
    BY <1>1, <1>5, <1>8, <2>2 DEF PlayerKnown, Known
  <2> QED
    BY <1>7, <2>1, <2>2
<1>12. /\ Counted(desk, history') /\ ~history'.overtaken
       /\ ~history'.disturbed =>
            ~history.disturbed /\ (taken # None => ~(s.epoch < taken.epoch))
  <2>1. PICK d \in BOOLEAN : d <=> history.disturbed \/ (taken # None /\ s.epoch < taken.epoch)
    OBVIOUS
  <2>2. history \in Histories /\ history.disturbed \in BOOLEAN
    BY DEF Sound, Counted, Histories
  <2>3. d = (history.disturbed \/ (taken # None /\ s.epoch < taken.epoch))
    BY <2>1, <2>2
  <2>4. history' = [history EXCEPT !.overtaken = FALSE, !.disturbed = d]
    BY <1>1, <2>3, Zenon
  <2>5. /\ history' \in Histories /\ history'.noted = history.noted
        /\ history'.remarked = history.remarked /\ history'.misled = history.misled
        /\ history'.disturbed = d /\ history'.overtaken = FALSE
    BY <2>2, <2>4 DEF Histories
  <2> QED
    BY <2>1, <2>5, AdapterCounted DEF Sound
<1>13. ASSUME ~history'.disturbed
       PROVE  Newest' /\ Behind' /\ Follows' /\ GoneKnown' /\ EndKnown'
  <2>1. ~history.disturbed /\ (taken # None => ~(s.epoch < taken.epoch))
    BY <1>12, <1>13
  <2>2. Newest /\ Behind /\ Follows /\ GoneKnown /\ EndKnown
    BY <2>1 DEF Sound, Undisturbed
  <2>3. taken # None => ~Older(s, taken)
    BY <1>1 DEF Late
  <2>4. taken # None => taken \in Sent /\ Known(desk, taken) /\ taken.epoch \in Nat
                        /\ taken.version \in Nat
    BY StateNumbers DEF Sent
  <2>5. \A t \in awaiting : t \in Sent /\ t.epoch \in Nat /\ t.version \in Nat
    BY StateNumbers DEF Sent
  <2>6. \A t \in awaiting : NotNewer(t, s)
    BY <1>5, <2>1, <2>2, <2>3, <2>4, <2>5, NotNewerThan DEF Behind
  <2>7. music # None => NotNewer(music.local, s) /\ ~Older(s, music.local)
    BY <1>5, <2>1, <2>2, <2>3, <2>4, StateNumbers, NotNewerThan DEF Behind
  <2>8. NotNewer(s, s)
    BY <1>5 DEF NotNewer
  <2>9. ~Older(s, local)
    BY <1>2, <1>5, <2>7 DEF Older, Idle
  <2>10. Newest'
    <3>1. /\ State(desk).epoch = desk.epoch /\ State(desk).version = desk.version
          /\ desk.version \in Nat
      BY DEF State, Sound, Wellformed, Desks
    <3>2. taken # State(desk) \/ taken = None
      BY <1>5, <2>1, <2>3, <2>4, <3>1 DEF Known, Older
    <3>3. CASE State(desk) \in replies
      BY <1>1, <3>3 DEF Newest
    <3>4. CASE taken = State(desk)
      <4>1. State(desk) # None
        BY StateKnown, SomethingIsNotNone DEF Sound, Known
      <4> QED
        BY <3>2, <3>4, <4>1
    <3>5. CASE \A t \in Sent : t.epoch < desk.epoch
      BY <1>1, <1>4, <3>5 DEF Newest
    <3> QED
      BY <2>2, <3>3, <3>4, <3>5 DEF Newest
  <2>11. Behind'
    <3>1. \A t \in awaiting' : taken' # None /\ NotNewer(t, taken')
      BY <1>1, <1>5, <1>9, <2>6, <2>8
    <3>2. music' # None => NotNewer(music'.local, taken')
      <4>1. CASE music' = music
        BY <1>1, <2>7, <4>1
      <4>2. CASE music' = k /\ k.local = Followed(s)
        BY <1>1, <1>8, <2>8, <4>2 DEF NotNewer
      <4> QED
        BY <1>7, <4>1, <4>2
    <3> QED
      BY <1>1, <1>5, <3>1, <3>2 DEF Behind
  <2>12. Follows'
    BY <1>1, <1>2, <1>7, <2>9 DEF Follows
  <2>13. GoneKnown'
    <3> SUFFICES ASSUME s.now # Nothing, s \notin awaiting', music' = None
                 PROVE  FALSE
      BY <1>1 DEF GoneKnown
    <3>1. music = None
      BY <1>7, SomethingIsNotNone DEF Plays, Sounds
    <3>2. ~SameTrack(local, s)
      BY <1>2, <3>1 DEF SameTrack, Idle
    <3>3. s \in awaiting \cup {s}
      OBVIOUS
    <3> QED
      BY <1>3, <2>9, <3>2, <3>3, Zenon
  <2>14. EndKnown'
    <3>1. CASE music' = music
      BY <1>1, <2>2, <3>1 DEF EndKnown
    <3>2. CASE /\ music # None /\ music' = k
               /\ s.now = Nothing \/ SameTrack(music.local, s)
               /\ k.local = Followed(s) /\ (s.now # Nothing => k.playing = music.playing)
      BY <1>1, <1>8, <2>2, <3>2 DEF EndKnown, SameTrack
    <3> QED
      BY <1>7, <3>1, <3>2
  <2> QED
    BY <2>10, <2>11, <2>12, <2>13, <2>14
<1> QED
  BY <1>1, <1>10, <1>11, <1>12, <1>13 DEF Sound, Undisturbed



\* The connection is ready, and a state that waited for it plays.
LEMMA PlaySound ==
    ASSUME Sound, Play
    PROVE  Sound'
<1>1. PICK s \in awaiting :
        /\ awaiting' = awaiting \ {s}
        /\ music' = [Started(IF music = None THEN NewPlayer ELSE music, s) EXCEPT !.local = Followed(s)]
        /\ history' = [history EXCEPT !.overtaken = @ \/ taken \notin awaiting]
        /\ desk' = desk /\ replies' = replies /\ reports' = reports /\ taken' = taken
  BY DEF Play
<1>2. s \in Sent /\ Sent' \subseteq Sent /\ s.now # Nothing
  BY <1>1 DEF Sent, Sound, Outside
<1>3. Known(desk, s) /\ s \in QueueStates
  BY <1>2, StateNumbers
<1>4. PICK m : m = IF music = None THEN NewPlayer ELSE music
  OBVIOUS
<1>5. m \in Players
  <2>1. Idle \in LocalStates
    <3>1. 0 \in 0..MaxEpochs /\ 0 \in Nat /\ Nothing \in 0..MaxEntries /\ FALSE \in BOOLEAN
          /\ Loudest \in Volumes
      BY Bounds DEF Nothing
    <3> QED
      BY <3>1, Zenon DEF Idle, LocalStates
  <2>2. Nothing \in 0..MaxEntries /\ FALSE \in BOOLEAN /\ Loudest \in Volumes
        /\ "idle" \in {"idle", "playing", "paused"}
    BY Bounds DEF Nothing
  <2>3. NewPlayer \in Players
    BY <2>1, <2>2, Zenon DEF NewPlayer, Players
  <2> QED
    BY <1>4, <2>3 DEF Sound, PlayerKnown, Plays, Sounds
<1>6. PICK k : k = [Started(m, s) EXCEPT !.local = Followed(s)]
  OBVIOUS
<1>7. Plays(k) /\ k.local = Followed(s) /\ k.playing = s.now
  BY <1>2, <1>3, <1>5, <1>6, StartedPlays
<1>8. music' = k
  BY <1>1, <1>4, <1>6, Zenon
<1>9. /\ awaiting' = awaiting \ {s} /\ desk' = desk /\ replies' = replies /\ reports' = reports
      /\ taken' = taken
  BY <1>1
<1>10. Followed(s).epoch = s.epoch /\ Followed(s).version = s.version /\ Followed(s).now = s.now
  BY <1>3, FollowedLocal
<1>11. Outside'
  BY <1>2, <1>9 DEF Sound, Outside
<1>12. PlayerKnown'
  BY <1>3, <1>7, <1>8, <1>9, <1>10 DEF PlayerKnown, Known
<1>13. /\ Counted(desk, history') /\ history'.disturbed = history.disturbed
       /\ taken \notin awaiting => history'.overtaken
  <2>1. PICK o \in BOOLEAN : o <=> history.overtaken \/ taken \notin awaiting
    OBVIOUS
  <2>2. history \in Histories /\ history.overtaken \in BOOLEAN /\ history.disturbed \in BOOLEAN
    BY DEF Sound, Counted, Histories
  <2>3. o = (history.overtaken \/ taken \notin awaiting)
    BY <2>1, <2>2
  <2>4. history' = [history EXCEPT !.overtaken = o]
    BY <1>1, <2>3, Zenon
  <2>5. /\ history' \in Histories /\ history'.noted = history.noted
        /\ history'.remarked = history.remarked /\ history'.misled = history.misled
        /\ history'.disturbed = history.disturbed /\ history'.overtaken = o
    BY <2>2, <2>4 DEF Histories
  <2> QED
    BY <2>1, <2>5, AdapterCounted DEF Sound
<1>14. music' # None
  BY <1>7, <1>8, SomethingIsNotNone DEF Plays, Sounds
<1>15. ASSUME ~history'.disturbed
       PROVE  Newest' /\ Behind' /\ Follows' /\ GoneKnown' /\ EndKnown'
  <2>1. Newest /\ Behind
    BY <1>13, <1>15 DEF Sound, Undisturbed
  <2>2. Newest'
    BY <1>2, <1>9, <2>1 DEF Newest
  <2>3. taken # None /\ NotNewer(s, taken)
    BY <2>1 DEF Behind
  <2>4. Behind'
    BY <1>7, <1>8, <1>9, <1>10, <2>1, <2>3 DEF Behind, NotNewer
  <2>5. Follows'
    BY <1>2, <1>7, <1>8, <1>9, <1>10, <1>13 DEF Follows
  <2>6. GoneKnown' /\ EndKnown'
    BY <1>2, <1>7, <1>8, <1>10, <1>14 DEF GoneKnown, EndKnown
  <2> QED
    BY <2>2, <2>4, <2>5, <2>6
<1> QED
  BY <1>9, <1>11, <1>12, <1>13, <1>15 DEF Sound, Undisturbed

\* The player goes with its connection, and the desk is told of what it played.
LEMMA ClosedSound ==
    ASSUME Sound, desk' = desk, replies' = replies, taken' = taken,
           awaiting' \subseteq awaiting, music' = music \/ music' = None, reports \subseteq reports',
           \/ history' = Disturbed(history)
           \/ /\ history' = history /\ awaiting' = awaiting
              /\ music # None /\ music.local.now # Nothing /\ music' = None
                 => \E x \in reports' : x.kind = "gone"
    PROVE  Sound'
<1>1. Sent' \subseteq Sent
  BY DEF Sent
<1>2. Outside' /\ PlayerKnown'
  BY <1>1 DEF Sound, Outside, PlayerKnown
<1>3. Counted(desk, history')
  BY DisturbedCounted DEF Sound
<1>4. ASSUME ~history'.disturbed
      PROVE  Newest' /\ Behind' /\ Follows' /\ GoneKnown' /\ EndKnown'
  <2>1. /\ history' = history /\ awaiting' = awaiting
        /\ music # None /\ music.local.now # Nothing /\ music' = None
           => \E x \in reports' : x.kind = "gone"
    BY <1>4, DisturbedCounted DEF Sound
  <2>2. Newest /\ Behind /\ Follows /\ GoneKnown /\ EndKnown
    BY <1>4, <2>1 DEF Sound, Undisturbed
  <2>3. Newest' /\ Behind' /\ Follows'
    BY <1>1, <2>1, <2>2 DEF Newest, Behind, Follows
  <2>4. GoneKnown'
    <3> SUFFICES ASSUME taken # None, taken = State(desk), taken.now # Nothing,
                        taken \notin awaiting, music' = None
                 PROVE  \E x \in reports' : x.kind = "gone"
      BY <2>1 DEF GoneKnown
    <3>1. CASE music = None
      BY <2>2, <3>1 DEF GoneKnown
    <3>2. CASE music # None
      <4>1. music.local = Followed(taken) \/ music.local.now # Nothing
        BY <2>1, <2>2, <3>2 DEF Follows
      <4>2. taken \in QueueStates
        BY StateNumbers DEF Sent
      <4>3. music.local.now # Nothing
        BY <4>1, <4>2, FollowedLocal
      <4> QED
        BY <2>1, <3>2, <4>3
    <3> QED
      BY <3>1, <3>2
  <2>5. EndKnown'
    BY <2>2 DEF EndKnown
  <2> QED
    BY <2>3, <2>4, <2>5
<1> QED
  BY <1>2, <1>3, <1>4 DEF Sound, Undisturbed

\* The connection is gone, was never ready, or is left.
LEMMA GoneSound ==
    ASSUME Sound, Gone \/ PlayFails \/ LeavesEmptyChannel
    PROVE  Sound'
<1>1. ASSUME Closed
      PROVE  /\ music' = None /\ reports \subseteq reports'
             /\ music.local.now # Nothing => \E x \in reports' : x.kind = "gone"
  <2>1. CASE music.local.now # Nothing
    <3>1. PICK x : x = [kind |-> "gone", entry |-> Nothing, epoch |-> 0]
      OBVIOUS
    <3>2. x.kind = "gone" /\ reports' = reports \cup {x}
      BY <1>1, <2>1, <3>1 DEF Closed, Report
    <3> QED
      BY <1>1, <3>2 DEF Closed
  <2>2. CASE music.local.now = Nothing
    BY <1>1, <2>2 DEF Closed
  <2> QED
    BY <2>1, <2>2
<1>2. CASE Gone
  BY <1>1, <1>2, ClosedSound DEF Gone
<1>3. CASE PlayFails
  <2>1. /\ awaiting' \subseteq awaiting /\ history' = Disturbed(history)
        /\ desk' = desk /\ replies' = replies /\ taken' = taken
        /\ (music' = music /\ reports' = reports) \/ Closed
    BY <1>3 DEF PlayFails
  <2> QED
    BY <1>1, <2>1, ClosedSound
<1>4. CASE LeavesEmptyChannel
  <2>1. /\ awaiting' = awaiting /\ history' = history
        /\ desk' = desk /\ replies' = replies /\ taken' = taken
        /\ (music' = music /\ music = None /\ reports' = reports) \/ Closed
    BY <1>4 DEF LeavesEmptyChannel
  <2> QED
    BY <1>1, <2>1, ClosedSound
<1> QED
  BY <1>2, <1>3, <1>4

\* A track ends, and the report names it.
LEMMA TrackEndsSound ==
    ASSUME Sound, TrackEnds
    PROVE  Sound'
<1>1. /\ music # None /\ music.playing # Nothing
      /\ music' = Silenced(music)
      /\ desk' = desk /\ replies' = replies /\ taken' = taken /\ awaiting' = awaiting
      /\ history' = history
  BY DEF TrackEnds
<1>2. PICK x : x = [kind |-> "ended", entry |-> music.playing, epoch |-> music.local.epoch]
  OBVIOUS
<1>3. x.kind = "ended" /\ x.entry = music.playing /\ reports' = reports \cup {x}
  BY <1>2 DEF TrackEnds, Report
<1>4. Plays(music) /\ Sounds(music) /\ music.playing = music.local.now
  BY <1>1 DEF Sound, PlayerKnown, Plays
<1>5. PICK k : k = Silenced(music)
  OBVIOUS
<1>6. Sounds(k) /\ k.playing = Nothing /\ k.local = music.local /\ k.userPaused = music.userPaused
  BY <1>4, <1>5, SilencedSounds
<1>7. Plays(k) /\ k # None /\ music' = k
  BY <1>1, <1>4, <1>5, <1>6, SomethingIsNotNone DEF Plays, Sounds
<1>8. Sent' = Sent
  BY <1>1 DEF Sent
<1>9. Outside' /\ PlayerKnown'
  BY <1>1, <1>6, <1>7, <1>8 DEF Sound, Outside, PlayerKnown
<1>10. ASSUME ~history'.disturbed
       PROVE  Newest' /\ Behind' /\ Follows' /\ GoneKnown' /\ EndKnown'
  <2>1. Newest /\ Behind /\ Follows
    BY <1>1, <1>10 DEF Sound, Undisturbed
  <2>2. Newest' /\ Behind' /\ Follows'
    BY <1>1, <1>6, <1>7, <1>8, <2>1 DEF Newest, Behind, Follows
  <2>3. GoneKnown'
    BY <1>7 DEF GoneKnown
  <2>4. EndKnown'
    BY <1>1, <1>3, <1>4, <1>6, <1>7 DEF EndKnown
  <2> QED
    BY <2>2, <2>3, <2>4
<1> QED
  BY <1>1, <1>9, <1>10 DEF Sound, Undisturbed


\* A player that pauses or goes on, for speech or for company.
LEMMA HushSound ==
    ASSUME Sound, desk' = desk, replies' = replies, reports' = reports, taken' = taken,
           awaiting' = awaiting, history' = history, NEW k, music' = k,
           \/ k = music
           \/ /\ music # None /\ Sounds(k)
              /\ k.local = music.local /\ k.playing = music.playing
              /\ k.userPaused = music.userPaused
    PROVE  Sound'
<1>1. Sent' = Sent
  BY DEF Sent
<1>2. CASE k = music
  BY <1>1, <1>2 DEF Sound, Outside, PlayerKnown, Undisturbed, Newest, Behind, Follows, GoneKnown,
                    EndKnown
<1>3. CASE /\ music # None /\ Sounds(k)
           /\ k.local = music.local /\ k.playing = music.playing
           /\ k.userPaused = music.userPaused
  <2>1. k # None
    BY <1>3, SomethingIsNotNone DEF Sounds
  <2>2. Outside' /\ PlayerKnown'
    BY <1>1, <1>3 DEF Sound, Outside, PlayerKnown, Plays
  <2>3. Undisturbed'
    BY <1>1, <1>3, <2>1 DEF Sound, Undisturbed, Newest, Behind, Follows, GoneKnown, EndKnown
  <2> QED
    BY <2>2, <2>3 DEF Sound
<1> QED
  BY <1>2, <1>3

\* A player that is told of speech or company, before it pauses or goes on.
Told(m, k) == k.local = m.local /\ k.playing = m.playing /\ k.userPaused = m.userPaused
              /\ k.status = m.status

\* What the player does then: it pauses for speech or for want of company, and
\* goes on unless a person paused it.
LEMMA ToldSounds ==
    ASSUME NEW m, Sounds(m), NEW k \in Players, Told(m, k)
    PROVE  /\ k.speaking \/ k.away => Sounds(PlayerPaused(k))
           /\ Alike(k, PlayerPaused(k)) /\ PlayerPaused(k).userPaused = k.userPaused
           /\ ~k.userPaused => Sounds(Unpaused(k))
           /\ Alike(k, Unpaused(k)) /\ Unpaused(k).userPaused = k.userPaused
           /\ k.playing = m.playing /\ k.local = m.local /\ k.userPaused = m.userPaused
<1>1. m \in Players /\ m.status \in {"idle", "playing", "paused"}
  BY DEF Sounds, Players
<1>2. k.playing = m.playing /\ k.local = m.local /\ k.userPaused = m.userPaused
      /\ k.status = m.status
  BY DEF Told
<1>3. PICK p : p = PlayerPaused(k)
  OBVIOUS
<1>4. PICK u : u = Unpaused(k)
  OBVIOUS
<1>5. /\ p \in Players /\ Alike(k, p) /\ p.userPaused = k.userPaused
      /\ p.status = IF k.status = "playing" THEN "paused" ELSE k.status
  BY <1>3, PausedAlike
<1>6. /\ u \in Players /\ Alike(k, u) /\ u.userPaused = k.userPaused
      /\ u.status = IF k.status = "paused" THEN "playing" ELSE k.status
  BY <1>4, PausedAlike
<1>7. k.speaking \/ k.away => Sounds(p)
  BY <1>1, <1>2, <1>5 DEF Sounds, Alike
<1>8. ~k.userPaused => Sounds(u)
  BY <1>1, <1>2, <1>6 DEF Sounds, Alike
<1> QED
  BY <1>2, <1>3, <1>4, <1>5, <1>6, <1>7, <1>8

\* Ningo speaks, or company goes and comes.
LEMMA SpeechSound ==
    ASSUME Sound, SpeechStarts \/ SpeechEnds \/ LeftAlone \/ CompanyReturns
    PROVE  Sound'
<1>1. /\ desk' = desk /\ replies' = replies /\ reports' = reports /\ taken' = taken
      /\ awaiting' = awaiting /\ history' = history
  BY DEF SpeechStarts, SpeechEnds, LeftAlone, CompanyReturns
<1>2. PICK k : k = music'
  OBVIOUS
<1>3. music # None => Sounds(music) /\ music \in Players
  BY DEF Sound, PlayerKnown, Plays, Sounds
<1>4. \/ k = music
      \/ /\ music # None /\ Sounds(k)
         /\ k.local = music.local /\ k.playing = music.playing
         /\ k.userPaused = music.userPaused
  <2>1. CASE SpeechStarts
    <3>1. PICK told : told = [music EXCEPT !.speaking = TRUE]
      OBVIOUS
    <3>2. music # None /\ k = PlayerPaused(told)
      BY <1>2, <2>1, <3>1 DEF SpeechStarts
    <3>3. told \in Players /\ told.speaking /\ Told(music, told)
      BY <1>3, <3>1, <3>2 DEF Players, Told
    <3> QED
      BY <1>3, <3>2, <3>3, ToldSounds DEF Alike
  <2>2. CASE SpeechEnds
    <3>1. PICK told : told = [music EXCEPT !.speaking = FALSE]
      OBVIOUS
    <3>2. music # None
      BY <2>2 DEF SpeechEnds
    <3>3. told \in Players /\ told.away = music.away /\ Told(music, told)
      BY <1>3, <3>1, <3>2 DEF Players, Told
    <3>4. CASE music.playing = Nothing \/ music.userPaused \/ music.away
      <4>1. k = told
        BY <1>2, <2>2, <3>1, <3>4 DEF SpeechEnds
      <4> QED
        BY <1>3, <3>2, <3>3, <3>4, <4>1 DEF Told, Sounds
    <3>5. CASE ~(music.playing = Nothing \/ music.userPaused \/ music.away)
      <4>1. k = Unpaused(told)
        BY <1>2, <2>2, <3>1, <3>5 DEF SpeechEnds
      <4>2. ~told.userPaused
        BY <3>3, <3>5 DEF Told
      <4> QED
        BY <1>3, <3>2, <3>3, <4>1, <4>2, ToldSounds DEF Alike
    <3> QED
      BY <3>4, <3>5
  <2>3. CASE LeftAlone
    <3>1. CASE music = None \/ music.playing = Nothing
      BY <1>2, <2>3, <3>1 DEF LeftAlone
    <3>2. CASE ~(music = None \/ music.playing = Nothing)
      <4>1. PICK told : told = [music EXCEPT !.away = TRUE]
        OBVIOUS
      <4>2. k = PlayerPaused(told)
        BY <1>2, <2>3, <3>2, <4>1 DEF LeftAlone
      <4>3. told \in Players /\ told.away /\ Told(music, told)
        BY <1>3, <3>2, <4>1 DEF Players, Told
      <4> QED
        BY <1>3, <3>2, <4>2, <4>3, ToldSounds DEF Alike
    <3> QED
      BY <3>1, <3>2
  <2>4. CASE CompanyReturns
    <3>1. CASE music = None \/ ~music.away
      BY <1>2, <2>4, <3>1 DEF CompanyReturns
    <3>2. CASE ~(music = None \/ ~music.away)
      <4>1. PICK told : told = [music EXCEPT !.away = FALSE]
        OBVIOUS
      <4>2. told \in Players /\ told.speaking = music.speaking /\ Told(music, told)
        BY <1>3, <3>2, <4>1 DEF Players, Told
      <4>3. CASE music.userPaused \/ music.speaking
        <5>1. k = told
          BY <1>2, <2>4, <3>2, <4>1, <4>3 DEF CompanyReturns
        <5> QED
          BY <1>3, <3>2, <4>2, <4>3, <5>1 DEF Told, Sounds
      <4>4. CASE ~(music.userPaused \/ music.speaking)
        <5>1. k = Unpaused(told)
          BY <1>2, <2>4, <3>2, <4>1, <4>4 DEF CompanyReturns
        <5>2. ~told.userPaused
          BY <4>2, <4>4 DEF Told
        <5> QED
          BY <1>3, <3>2, <4>2, <5>1, <5>2, ToldSounds DEF Alike
      <4> QED
        BY <4>3, <4>4
    <3> QED
      BY <3>1, <3>2
  <2> QED
    BY <2>1, <2>2, <2>3, <2>4
<1> QED
  BY <1>1, <1>2, <1>4, HushSound
--------------------------------------------------------------------------------
(* The theorems.                                                               *)

\* At first the first process has an empty queue and nobody heard of it.
LEMMA InitSound ==
    ASSUME Init
    PROVE  Sound
<1>1. PICK q : q = NewQueue(1)
  OBVIOUS
<1>2. /\ desk = q /\ Sent = {} /\ awaiting = {} /\ music = None /\ taken = None
      /\ history = NewHistory(FALSE, FALSE)
  BY <1>1 DEF Init, Sent
<1>3. /\ q.now = Nothing /\ q.waiting = <<>> /\ q.entries = 0 /\ q.commented = 0
  BY <1>1 DEF NewQueue
<1>4. q \in Desks
  <2>1. <<>> \in Seq(Entries) /\ 0 \in 0..MaxEntries /\ Loudest \in Volumes /\ FALSE \in BOOLEAN
        /\ 0 \in Nat /\ Nothing \in 0..MaxEntries /\ 1 \in Epochs
    BY Bounds DEF Nothing
  <2> QED
    BY <1>1, <2>1, Zenon DEF NewQueue, Desks
<1>5. Wellformed(q)
  BY <1>3, <1>4, Bounds DEF Wellformed, Ordered, Nothing
<1>6. /\ history \in Histories /\ ~history.misled
      /\ \A e \in Entries : history.noted[e] = 0 /\ history.remarked[e] = 0
  BY <1>2 DEF NewHistory, Histories
<1>7. Counted(desk, history)
  BY <1>6 DEF Counted
<1> QED
  BY <1>2, <1>5, <1>7
     DEF Sound, Outside, PlayerKnown, Undisturbed, Newest, Behind, Follows, GoneKnown, EndKnown

\* Every step, or a stutter, keeps the invariant.
LEMMA NextSound == Sound /\ [Next]_vars => Sound'
<1> SUFFICES ASSUME Sound, [Next]_vars PROVE Sound'
  OBVIOUS
<1>1. CASE UNCHANGED vars
  <2>1. PICK k : k = music'
    OBVIOUS
  <2> QED
    BY <1>1, <2>1, HushSound DEF vars
<1>2. CASE Next
  BY <1>2, AskSound, EndSound, TrackReportedSound, GoneReportedSound, RemarkSound, RestartSound,
     LoseSound, DeliverLateSound, DeliverSound, PlaySound, GoneSound, TrackEndsSound, SpeechSound
     DEF Next
<1> QED
  BY <1>1, <1>2


\* The inductive invariant holds throughout.
THEOREM SoundAlways == Spec => []Sound
<1>1. Init => Sound
  BY InitSound
<1> QED
  BY <1>1, NextSound, PTL DEF Spec

\* Every part keeps its shape, and no more tracks wait than may, for any sizes.
THEOREM TypeCorrect == Spec => []TypeOK
<1>1. Sound => TypeOK
  <2> SUFFICES ASSUME Sound PROVE TypeOK
    OBVIOUS
  <2>1. desk \in Desks /\ Len(desk.waiting) <= MaxWaiting
    BY DEF Sound, Wellformed
  <2>2. \A s \in Sent : s \in QueueStates
    BY StateNumbers
  <2>3. replies \subseteq QueueStates /\ taken \in QueueStates \cup {None}
        /\ awaiting \subseteq QueueStates
    BY <2>2 DEF Sent
  <2>4. music = None \/ music.playing \in 0..MaxEntries
    BY DEF Sound, PlayerKnown, Plays, Sounds, Players
  <2> QED
    BY <2>1, <2>3, <2>4, Zenon DEF TypeOK, Desks
<1> QED
  BY <1>1, SoundAlways, PTL

\* However replies and reports are lost, overtaken or late, each play leaves
\* the queue and is noted once, is remarked on once, and no report about one
\* play of a process advances another.
THEOREM EachPlayOnceAlways == Spec => []EachPlayOnce
<1>1. Sound => EachPlayOnce
  BY DEF Sound, Counted, EachPlayOnce
<1> QED
  BY <1>1, SoundAlways, PTL

\* A calm adapter took the newest state and has a player when the queue plays,
\* and its player is in step with the queue unless a play undid that state.
THEOREM FollowsUnlessOvertakenAlways == Spec => []FollowsUnlessOvertaken
<1>1. Sound => FollowsUnlessOvertaken
  <2> SUFFICES ASSUME Sound, Calm
               PROVE  /\ taken = State(desk)
                      /\ desk.now # Nothing => music # None
                      /\ ~history.overtaken => InStep
    BY DEF FollowsUnlessOvertaken
  <2>1. /\ replies = {} /\ reports = {} /\ awaiting = {}
        /\ ~history.disturbed /\ taken # None /\ taken.epoch = desk.epoch
    BY DEF Calm, Quiet
  <2>2. Newest /\ Follows /\ GoneKnown /\ EndKnown
    BY <2>1 DEF Sound, Undisturbed
  <2>3. taken = State(desk)
    <3>1. taken \in Sent /\ taken.epoch \in Nat
      BY <2>1, StateNumbers DEF Sent
    <3> QED
      BY <2>1, <2>2, <3>1 DEF Newest
  <2>4. taken \in QueueStates /\ taken.now = desk.now /\ taken.paused = desk.paused
    BY <2>3, StateKnown DEF Sound, Known
  <2>5. desk.now # Nothing => music # None
    BY <2>1, <2>2, <2>3, <2>4 DEF GoneKnown
  <2>6. ASSUME ~history.overtaken
        PROVE  InStep
    <3>1. music # None => music.local = Followed(taken) /\ Plays(music)
      BY <2>1, <2>2, <2>6 DEF Follows, Sound, PlayerKnown
    <3>2. ASSUME music # None
          PROVE  /\ music.local.now = desk.now /\ music.local.epoch = desk.epoch
                 /\ desk.now # Nothing => music.local.paused = desk.paused
      BY <2>1, <2>4, <3>1, <3>2, FollowedLocal
    <3>3. desk.now = Nothing => music = None \/ music.playing = Nothing
      BY <3>1, <3>2 DEF Plays
    <3>4. ASSUME desk.now # Nothing
          PROVE  /\ music # None /\ music.playing = desk.now
                 /\ music.userPaused = desk.paused
                 /\ desk.paused => music.status = "paused"
                 /\ music.status = "paused" => desk.paused \/ music.away \/ music.speaking
      <4>1. music.playing = desk.now
        BY <2>1, <2>2, <2>5, <3>1, <3>2, <3>4 DEF EndKnown, Plays
      <4>2. music.userPaused = desk.paused
        BY <2>5, <3>1, <3>2, <3>4 DEF Plays
      <4> QED
        BY <2>5, <3>1, <3>4, <4>1, <4>2 DEF Plays, Sounds
    <3> QED
      BY <3>3, <3>4 DEF InStep
  <2> QED
    BY <2>3, <2>5, <2>6
<1> QED
  BY <1>1, SoundAlways, PTL



================================================================================
