-------------------------- MODULE ArchivedSends_proofs --------------------------
(***************************************************************************)
(* Proofs about the requests that answer one conversation, for any         *)
(* requests, send ids, bound and attempts.                                 *)
(*                                                                         *)
(* The inductive invariant Sound holds whatever fails.  What rests on      *)
(* every pending turn having its request, Answered, needs more: that no    *)
(* statement that settles a turn is lost and no retry is cut in two.       *)
(***************************************************************************)
EXTENDS ArchivedSends, FiniteSetTheorems, SequenceTheorems, TLAPS

\* Where a request holds the lane's mutex, where its ticket is enrolled, and
\* where it can be stopped.
InAdmission == {"recording", "bumping", "enrolling"}
Enrolled    == {"admitted", "tracked", "waiting", "unasked", "dispatched", "asking",
                "completing", "failing", "settled", "finished"}
Stoppable   == {"tracked", "waiting", "unasked", "dispatched", "asking", "completing", "failing"}

\* What a request that has been given its turn knows: all but a retry between
\* its two statements.
Informed == (Working \ {"bumping"}) \cup {"settled", "finished"}

\* The mutex and the tickets follow the requests.
LaneHeld ==
    /\ \A r \in Request : admitting = r <=> pc[r] \in InAdmission
    /\ \A r \in Request : queue[r] = IF pc[r] \in Enrolled THEN job[r].turn ELSE 0

\* A request knows what it answers.
JobsKnown ==
    \A r \in Request :
        /\ pc[r] \in Informed => job[r].turn # 0 /\ job[r].send \in Send
        /\ pc[r] = "bumping" => job[r].turn # 0
        /\ pc[r] \in {"arrived", "recording"} => job[r].turn # 0 \/ job[r].send \in Send
        /\ kept => job[r].turn <= Len(turns)

\* A deleted conversation has no turns, and a send id names one turn.
TurnsApart ==
    /\ ~kept => turns = <<>>
    /\ \A i, j \in DOMAIN turns : turns[i].send = turns[j].send => i = j

\* A request at work answers the current attempt of a turn still pending.
WorkCurrent ==
    kept => \A r \in Request : pc[r] \in Working =>
        /\ turns[job[r].turn].state = Pending
        /\ pc[r] # "bumping" => /\ job[r].send = turns[job[r].turn].send
                                /\ job[r].attempt = turns[job[r].turn].attempts

\* No two requests at work answer the same turn, or the same send.
WorkApart ==
    \A r, q \in Request : pc[r] \in Working /\ pc[q] \in Working =>
        /\ job[r].turn = job[q].turn => r = q
        /\ pc[r] # "bumping" /\ pc[q] # "bumping" /\ job[r].send = job[q].send => r = q

\* What conversation.stop reaches is a request with that send.
StopsTracked ==
    \A s \in Send : stops[s] # None =>
        pc[stops[s]] \in Stoppable \cup {"settled"} /\ job[stops[s]].send = s

\* What is about to join the lane is the latest turn, and comes last.
JoinsLast ==
    \A r \in Request : pc[r] \in {"bumping", "enrolling"} =>
        /\ kept => job[r].turn = Len(turns)
        /\ \A q \in Request : queue[q] <= job[r].turn

\* What was dispatched is first in the lane until it settles.
FirstInLane ==
    \A r \in Request : pc[r] \in {"dispatched", "asking", "completing"} =>
        \A q \in InLane : queue[r] <= queue[q]

\* The lane is never overfull, and an admission that found room still has it.
Room ==
    /\ Cardinality(InLane) <= MaxWaiting
    /\ \A r \in Request : pc[r] \in {"bumping", "enrolling"} \/ (pc[r] = "recording" /\ ~full[r])
                          => Cardinality(InLane) < MaxWaiting

\* The model was asked for nothing that was not recorded, and not yet for what
\* is on its way to it.
AskedFresh ==
    kept =>
        /\ \A s \in Send : asked[s] # 0 => Recorded(turns, s) # {}
        /\ \A r \in Request : pc[r] \in Working \ {"asking", "completing", "failing"}
                              => asked[turns[job[r].turn].send] = 0

\* The inductive invariant, whatever fails.
Sound ==
    /\ TypeOK
    /\ LaneHeld
    /\ JobsKnown
    /\ TurnsApart
    /\ WorkCurrent
    /\ WorkApart
    /\ StopsTracked
    /\ CurrentAttemptStoppable
    /\ JoinsLast
    /\ FirstInLane
    /\ Room
    /\ AskedFresh
    /\ AskedOncePerAttempt

\* No statement that settles a turn fails, and no retry is cut in two.
NothingLost == Faults \cap {"LostWrite", "RetryCut"} = {}

\* Every pending turn has a request at work on it, and a retry between its
\* statements is not cut.
PendingHeld ==
    /\ \A i \in DOMAIN turns : turns[i].state = Pending =>
          \E r \in Request : pc[r] \in Working /\ job[r].turn = i
    /\ \A r \in Request : pc[r] = "bumping" => ctx[r] = "live"

\* The inductive invariant when nothing is lost.
Answered == PendingHeld /\ ContextComplete /\ NoLateReply
--------------------------------------------------------------------------------
(* What each statement makes of a transcript. *)

\* FinishTurn changes one turn, from pending to settled, and nothing else of it
\* than its state and the attempt that settled it.
LEMMA FinishedKeeps ==
    ASSUME NEW t \in Seq(Turn(Send)), NEW k \in Nat, NEW a \in Nat,
           NEW e \in {"completed", "failed"}, NEW f, f = Finished(t, k, a, e)
    PROVE  /\ f \in Seq(Turn(Send))
           /\ Len(f) = Len(t)
           /\ \A j \in DOMAIN t : /\ f[j].send = t[j].send
                                  /\ f[j].attempts = t[j].attempts
                                  /\ j # k => f[j] = t[j]
                                  /\ t[j].state # Pending => f[j] = t[j]
           /\ Finishable(t, k, a) => f[k].state = e
<1> USE DEF Finishable
<1>1. CASE ~Finishable(t, k, a)
  BY <1>1 DEF Finished
<1>2. CASE Finishable(t, k, a)
  <2>1. f = [t EXCEPT ![k] = [@ EXCEPT !.state = e, !.settledBy = a]]
    BY <1>2 DEF Finished
  <2>2. k \in DOMAIN t /\ t[k] \in Turn(Send) /\ t[k].state = Pending
    BY <1>2
  <2>3. [t[k] EXCEPT !.state = e, !.settledBy = a] \in Turn(Send)
    BY <2>2 DEF Turn, Settled, Retryable
  <2>4. /\ [t[k] EXCEPT !.state = e, !.settledBy = a].send = t[k].send
        /\ [t[k] EXCEPT !.state = e, !.settledBy = a].attempts = t[k].attempts
        /\ [t[k] EXCEPT !.state = e, !.settledBy = a].state = e
    BY <2>2 DEF Turn
  <2>5. f \in Seq(Turn(Send)) /\ Len(f) = Len(t)
    BY <2>1, <2>2, <2>3
  <2>6. \A j \in DOMAIN t :
          f[j] = IF j = k THEN [t[k] EXCEPT !.state = e, !.settledBy = a] ELSE t[j]
    BY <2>1
  <2> QED
    BY <2>2, <2>4, <2>5, <2>6
<1> QED
  BY <1>1, <1>2

\* A retry makes its turn pending again, one attempt later, and no other.
LEMMA ReopenedKeeps ==
    ASSUME NEW t \in Seq(Turn(Send)), NEW k \in DOMAIN t, NEW f, f = Reopened(t, k)
    PROVE  /\ f \in Seq(Turn(Send))
           /\ Len(f) = Len(t)
           /\ \A j \in DOMAIN t : /\ f[j].send = t[j].send
                                  /\ j # k => f[j] = t[j]
           /\ f[k].state = Pending
<1> DEFINE g == [t[k] EXCEPT !.state = Pending, !.attempts = @ + 1, !.settledBy = 0]
<1>1. f = [t EXCEPT ![k] = g]
  BY DEF Reopened
<1>2. t[k] \in Turn(Send)
  OBVIOUS
<1>3. g \in Turn(Send) /\ g.send = t[k].send /\ g.state = Pending
  <2> DEFINE h == [t[k] EXCEPT !.state = Pending]
             i == [h EXCEPT !.attempts = t[k].attempts + 1]
  <2>1. h \in Turn(Send) /\ h.send = t[k].send /\ h.state = Pending
    BY <1>2 DEF Turn
  <2>2. i \in Turn(Send) /\ i.send = t[k].send /\ i.state = Pending
    <3>1. PICK n \in Nat : n = t[k].attempts + 1
      BY <1>2 DEF Turn
    <3>2. i = [h EXCEPT !.attempts = n]
      BY <3>1
    <3> HIDE DEF h, i
    <3> QED
      BY <2>1, <3>2 DEF Turn
  <2>3. g = [i EXCEPT !.settledBy = 0]
    OBVIOUS
  <2> HIDE DEF i, g
  <2> QED
    BY <2>2, <2>3 DEF Turn
<1> HIDE DEF g
<1>4. f \in Seq(Turn(Send)) /\ Len(f) = Len(t)
  BY <1>1, <1>3
<1>5. \A j \in DOMAIN t : f[j] = IF j = k THEN g ELSE t[j]
  BY <1>1
<1> QED
  BY <1>3, <1>4, <1>5

\* Recovery leaves no turn pending, and every other turn as it is.
LEMMA InterruptedKeeps ==
    ASSUME NEW t \in Seq(Turn(Send)), NEW f, f = Interrupted(t)
    PROVE  /\ f \in Seq(Turn(Send))
           /\ Len(f) = Len(t)
           /\ \A j \in DOMAIN t : /\ f[j].send = t[j].send
                                  /\ f[j].state # Pending
                                  /\ t[j].state # Pending => f[j] = t[j]
<1>1. \A j \in DOMAIN t : t[j] \in Turn(Send)
  OBVIOUS
<1>2. ASSUME NEW j \in DOMAIN t, t[j].state = Pending
      PROVE  LET g == [t[j] EXCEPT !.state = "interrupted", !.settledBy = t[j].attempts]
             IN  g \in Turn(Send) /\ g.send = t[j].send /\ g.state = "interrupted"
  BY <1>1, <1>2 DEF Turn, Settled, Retryable
<1>3. DOMAIN f = DOMAIN t /\ f = [j \in DOMAIN t |-> f[j]]
  BY DEF Interrupted
<1>4. \A j \in DOMAIN t :
        f[j] = IF t[j].state = Pending
               THEN [t[j] EXCEPT !.state = "interrupted", !.settledBy = t[j].attempts]
               ELSE t[j]
  BY DEF Interrupted
<1>5. \A j \in DOMAIN t : /\ f[j] \in Turn(Send)
                          /\ f[j].send = t[j].send
                          /\ f[j].state # Pending
                          /\ t[j].state # Pending => f[j] = t[j]
  BY <1>1, <1>2, <1>4 DEF Pending
<1>6. f \in Seq(Turn(Send)) /\ Len(f) = Len(t)
  <2>1. DOMAIN t = 1 .. Len(t) /\ Len(t) \in Nat
    OBVIOUS
  <2>2. f = [j \in 1 .. Len(t) |-> f[j]]
    BY <1>3, <2>1, Zenon
  <2>3. \A j \in 1 .. Len(t) : f[j] \in Turn(Send)
    BY <1>5, <2>1, Zenon
  <2> HIDE DEF Turn
  <2> QED
    BY <2>1, <2>2, <2>3
<1> QED
  BY <1>5, <1>6, Zenon

\* A new turn comes last, pending, at its first attempt.
LEMMA AppendedKeeps ==
    ASSUME NEW t \in Seq(Turn(Send)), NEW s \in Send, NEW f, f = Append(t, NewTurn(s))
    PROVE  /\ f \in Seq(Turn(Send))
           /\ Len(f) = Len(t) + 1
           /\ \A j \in DOMAIN t : f[j] = t[j]
           /\ f[Len(t) + 1] = NewTurn(s)
<1>1. NewTurn(s) \in Turn(Send)
  BY DEF NewTurn, Turn, Settled, Retryable
<1> QED
  BY <1>1

--------------------------------------------------------------------------------
(* Steps that leave the transcript and the lane as they are. *)

\* The end of a request's context disturbs nothing of Sound.
LEMMA ContextSound ==
    ASSUME Sound, TypeOK',
           UNCHANGED <<kept, turns, admitting, queue, stops, pc, job, full, context, asked>>
    PROVE  Sound'
<1>1. LaneHeld' /\ JobsKnown' /\ TurnsApart' /\ WorkCurrent' /\ WorkApart'
  BY DEF Sound, LaneHeld, JobsKnown, TurnsApart, WorkCurrent, WorkApart
<1>2. InLane' = InLane
  BY DEF InLane
<1>3. /\ StopsTracked' /\ CurrentAttemptStoppable' /\ JoinsLast' /\ FirstInLane'
      /\ Room' /\ AskedFresh' /\ AskedOncePerAttempt'
  BY <1>2 DEF Sound, StopsTracked, CurrentAttemptStoppable, JoinsLast, FirstInLane, Room,
              AskedFresh, AskedOncePerAttempt
<1> QED
  BY <1>1, <1>3 DEF Sound

\* A request that can be stopped goes on, to be answered or to give up: it is
\* dispatched only with nothing ahead, and completes only what it asked for.
LEMMA WalkSound ==
    ASSUME Sound, TypeOK',
           NEW r \in Request, NEW p \in Stoppable \cup {"settled"},
           pc[r] \in Stoppable, Goto(r, p),
           UNCHANGED <<kept, turns, admitting, queue, stops, job, full, asked>>,
           p \notin {"tracked", "asking"},
           p = "dispatched" => NothingAhead(r),
           p = "completing" => pc[r] = "asking",
           p \in {"waiting", "dispatched", "unasked"} => pc[r] \in {"tracked", "waiting"}
    PROVE  Sound'
<1>1. pc' = [pc EXCEPT ![r] = p] /\ pc \in [Request -> Place]
  BY DEF Goto, Sound, TypeOK
<1>2. \A q \in Request : pc'[q] = IF q = r THEN p ELSE pc[q]
  BY <1>1
<1>3. InLane' = InLane
  BY DEF InLane
<1>4. LaneHeld'
  BY <1>2 DEF Sound, LaneHeld, InAdmission, Enrolled, Stoppable
<1>5. JobsKnown'
  BY <1>2 DEF Sound, JobsKnown, Informed, Stoppable, Working
<1>6. TurnsApart'
  BY DEF Sound, TurnsApart
<1>7. WorkCurrent' /\ WorkApart'
  <2>1. \A q \in Request : /\ pc'[q] \in Working => pc[q] \in Working
                           /\ pc'[q] = "bumping" <=> pc[q] = "bumping"
    BY <1>2 DEF Stoppable, Working
  <2> QED
    BY <2>1 DEF Sound, WorkCurrent, WorkApart
<1>8. StopsTracked'
  <2>1. \A q \in Request : pc[q] \in Stoppable \cup {"settled"} => pc'[q] \in Stoppable \cup {"settled"}
    BY <1>2
  <2> QED
    BY <2>1 DEF Sound, StopsTracked, TypeOK
<1>9. CurrentAttemptStoppable'
  BY <1>2 DEF Sound, CurrentAttemptStoppable, Stoppable
<1>10. JoinsLast'
  BY <1>2 DEF Sound, JoinsLast, Stoppable
<1>11. FirstInLane'
  BY <1>2, <1>3 DEF Sound, FirstInLane, NothingAhead, TypeOK
<1>12. Room'
  BY <1>2, <1>3 DEF Sound, Room, Stoppable
<1>13. AskedFresh'
  BY <1>2 DEF Sound, AskedFresh, Stoppable, Working
<1>14. AskedOncePerAttempt'
  BY DEF Sound, AskedOncePerAttempt
<1> QED
  BY <1>4, <1>5, <1>6, <1>7, <1>8, <1>9, <1>10, <1>11, <1>12, <1>13, <1>14 DEF Sound

--------------------------------------------------------------------------------
(* The tickets of a lane are finitely many, so their count is a number. *)
LEMMA LaneFinite == IsFiniteSet(InLane) /\ Cardinality(InLane) \in Nat
<1>1. InLane \in SUBSET Request
  BY DEF InLane
<1> QED
  BY <1>1, RequestAssumption, FS_Subset, FS_CardinalityType

--------------------------------------------------------------------------------
(* A request arrives, and one that will record nothing leaves. *)

\* Submitting changes nobody else, and the new request has no turn of its own.
LEMMA SubmitSound ==
    ASSUME Sound, NEW r \in Request,
           \/ \E s \in Send : SubmitSend(r, s)
           \/ \E i \in DOMAIN turns : SubmitRetry(r, i)
    PROVE  Sound'
<1>1. PICK j : /\ j \in [send : Send \cup {None}, turn : Nat, attempt : Nat]
               /\ j.turn # 0 \/ j.send \in Send
               /\ j.turn <= Len(turns)
               /\ job' = [job EXCEPT ![r] = j]
  <2>1. CASE \E s \in Send : SubmitSend(r, s)
    <3>1. PICK s \in Send : SubmitSend(r, s)
      BY <2>1
    <3> DEFINE j == [NoJob EXCEPT !.send = s]
    <3>2. /\ j \in [send : Send \cup {None}, turn : Nat, attempt : Nat]
          /\ j.send \in Send /\ j.turn = 0
      BY DEF NoJob
    <3>3. job' = [job EXCEPT ![r] = j]
      BY <3>1 DEF SubmitSend
    <3> HIDE DEF j
    <3>4. Len(turns) \in Nat
      BY DEF Sound, TypeOK
    <3>5. j.turn <= Len(turns)
      BY <3>2, <3>4
    <3> QED
      BY <3>2, <3>3, <3>5
  <2>2. CASE \E i \in DOMAIN turns : SubmitRetry(r, i)
    <3>1. PICK i \in DOMAIN turns : SubmitRetry(r, i)
      BY <2>2
    <3>2. i \in Nat /\ i # 0 /\ i <= Len(turns)
      BY DEF Sound, TypeOK
    <3>3. /\ [NoJob EXCEPT !.turn = i] \in [send : Send \cup {None}, turn : Nat, attempt : Nat]
          /\ [NoJob EXCEPT !.turn = i].turn = i
      BY <3>2 DEF NoJob
    <3>4. job' = [job EXCEPT ![r] = [NoJob EXCEPT !.turn = i]]
      BY <3>1 DEF SubmitRetry
    <3> QED
      BY <3>2, <3>3, <3>4
  <2> QED
    BY <2>1, <2>2
<1>2. /\ pc[r] = "idle" /\ kept /\ pc' = [pc EXCEPT ![r] = "arrived"]
      /\ UNCHANGED <<kept, turns, admitting, queue, stops, full, ctx, context, asked>>
  BY DEF SubmitSend, SubmitRetry, Goto, store, memory
<1>3. \A q \in Request : /\ pc'[q] = IF q = r THEN "arrived" ELSE pc[q]
                         /\ job'[q] = IF q = r THEN j ELSE job[q]
  BY <1>1, <1>2 DEF Sound, TypeOK
<1>4. TypeOK'
  BY <1>1, <1>2 DEF Sound, TypeOK, Place
<1>5. InLane' = InLane
  BY <1>2 DEF InLane
<1>6. LaneHeld'
  BY <1>2, <1>3 DEF Sound, LaneHeld, InAdmission, Enrolled
<1>7. JobsKnown'
  BY <1>1, <1>2, <1>3 DEF Sound, JobsKnown, Informed, Working
<1>8. TurnsApart' /\ AskedOncePerAttempt'
  BY <1>2 DEF Sound, TurnsApart, AskedOncePerAttempt
<1>9. \A q \in Request : pc'[q] # "arrived" => q # r /\ pc'[q] = pc[q] /\ job'[q] = job[q]
  BY <1>3
<1>10. WorkCurrent' /\ WorkApart'
  BY <1>2, <1>9 DEF Sound, WorkCurrent, WorkApart, Working
<1>11. StopsTracked'
  <2>1. ASSUME NEW s \in Send, stops[s] # None
        PROVE  stops[s] \in Request /\ stops[s] # r
    <3>1. stops[s] \in Request
      BY <2>1 DEF Sound, TypeOK
    <3>2. pc[stops[s]] \in Stoppable \cup {"settled"}
      BY <2>1 DEF Sound, StopsTracked
    <3> QED
      BY <1>2, <3>1, <3>2 DEF Stoppable
  <2> QED
    BY <1>2, <1>3, <2>1 DEF Sound, StopsTracked
<1>12. CurrentAttemptStoppable'
  BY <1>2, <1>9 DEF Sound, CurrentAttemptStoppable
<1>13. JoinsLast' /\ FirstInLane' /\ Room'
  BY <1>2, <1>5, <1>9 DEF Sound, JoinsLast, FirstInLane, Room
<1>14. AskedFresh'
  BY <1>2, <1>9 DEF Sound, AskedFresh, Working
<1> QED
  BY <1>4, <1>6, <1>7, <1>8, <1>10, <1>11, <1>12, <1>13, <1>14 DEF Sound

\* The lane's mutex is taken by one request, which reads how full the lane is.
LEMMA BeginAdmitSound ==
    ASSUME Sound, NEW r \in Request, BeginAdmit(r)
    PROVE  Sound'
<1>1. /\ pc[r] = "arrived" /\ pc' = [pc EXCEPT ![r] = "recording"]
      /\ admitting = None /\ admitting' = r
      /\ full' = [full EXCEPT ![r] = Cardinality(InLane) >= MaxWaiting]
      /\ UNCHANGED <<kept, turns, queue, stops, job, ctx, context, asked>>
  BY DEF BeginAdmit, Goto, store
<1>2. \A q \in Request : /\ pc'[q] = IF q = r THEN "recording" ELSE pc[q]
                         /\ full'[q] = IF q = r THEN Cardinality(InLane) >= MaxWaiting ELSE full[q]
  BY <1>1 DEF Sound, TypeOK
<1>3. TypeOK'
  BY <1>1 DEF Sound, TypeOK, Place
<1>4. InLane' = InLane
  BY <1>1 DEF InLane
<1>5. LaneHeld'
  BY <1>1, <1>2, RequestAssumption DEF Sound, LaneHeld, InAdmission, Enrolled
<1>6. JobsKnown'
  BY <1>1, <1>2 DEF Sound, JobsKnown, Informed, Working
<1>7. TurnsApart' /\ AskedOncePerAttempt'
  BY <1>1 DEF Sound, TurnsApart, AskedOncePerAttempt
<1>8. \A q \in Request : pc'[q] # "recording" => q # r /\ pc'[q] = pc[q]
  BY <1>2
<1>9. WorkCurrent' /\ WorkApart'
  BY <1>1, <1>8 DEF Sound, WorkCurrent, WorkApart, Working
<1>10. StopsTracked'
  BY <1>1, <1>2 DEF Sound, StopsTracked, Stoppable, TypeOK
<1>11. CurrentAttemptStoppable'
  BY <1>1, <1>8 DEF Sound, CurrentAttemptStoppable
<1>12. JoinsLast' /\ FirstInLane'
  BY <1>1, <1>4, <1>8 DEF Sound, JoinsLast, FirstInLane
<1>13. Room'
  <2>1. Cardinality(InLane) \in Nat
    BY LaneFinite
  <2>2. Cardinality(InLane) <= MaxWaiting
    BY DEF Sound, Room
  <2>3. ASSUME NEW q \in Request,
               pc'[q] \in {"bumping", "enrolling"} \/ (pc'[q] = "recording" /\ ~full'[q])
        PROVE  Cardinality(InLane) < MaxWaiting
    <3>1. CASE q = r
      <4>1. ~(Cardinality(InLane) >= MaxWaiting)
        BY <1>2, <2>3, <3>1
      <4> QED
        BY <2>1, <4>1, WaitingAssumption
    <3>2. CASE q # r
      BY <1>2, <2>3, <3>2 DEF Sound, Room
    <3> QED
      BY <3>1, <3>2
  <2> QED
    BY <1>4, <2>2, <2>3 DEF Room
<1>14. AskedFresh'
  BY <1>1, <1>8 DEF Sound, AskedFresh, Working
<1> QED
  BY <1>3, <1>5, <1>6, <1>7, <1>9, <1>10, <1>11, <1>12, <1>13, <1>14 DEF Sound


\* What becomes of a request that ends.
LEMMA Ended ==
    ASSUME TypeOK, NEW r \in Request, End(r)
    PROVE  /\ \A q \in Request : /\ pc'[q] = IF q = r THEN "idle" ELSE pc[q]
                                 /\ job'[q] = IF q = r THEN NoJob ELSE job[q]
                                 /\ q # r => full'[q] = full[q] /\ context'[q] = context[q]
           /\ pc' \in [Request -> Place]
           /\ job' \in [Request -> [send : Send \cup {None}, turn : Nat, attempt : Nat]]
           /\ full' \in [Request -> BOOLEAN]
           /\ ctx' \in [Request -> {"live", "gone", "stopped"}]
           /\ context' \in [Request -> SUBSET Nat]
           /\ NoJob.turn = 0
<1>1. NoJob \in [send : Send \cup {None}, turn : Nat, attempt : Nat] /\ NoJob.turn = 0
  BY DEF NoJob
<1> QED
  BY <1>1 DEF End, Goto, TypeOK, Place

\* A request that recorded nothing, or lost its retry, gives the mutex back.
LEMMA LeaveSound ==
    ASSUME Sound, NEW r \in Request, AnswerFromArchive(r) \/ BumpFails(r)
    PROVE  Sound'
<1>1. /\ pc[r] \in {"recording", "bumping"} /\ admitting' = None /\ End(r)
      /\ UNCHANGED <<kept, turns, queue, stops, asked>>
  BY DEF AnswerFromArchive, BumpFails, store
<1>2. /\ \A q \in Request : /\ pc'[q] = IF q = r THEN "idle" ELSE pc[q]
                            /\ job'[q] = IF q = r THEN NoJob ELSE job[q]
                            /\ q # r => full'[q] = full[q]
      /\ NoJob.turn = 0
  BY <1>1, Ended DEF Sound
<1>3. TypeOK'
  BY <1>1, Ended DEF Sound, TypeOK
<1>4. InLane' = InLane
  BY <1>1 DEF InLane
<1>5. LaneHeld'
  BY <1>1, <1>2, RequestAssumption DEF Sound, LaneHeld, InAdmission, Enrolled
<1>6. JobsKnown'
  <2>1. 0 <= Len(turns)
    BY DEF Sound, TypeOK
  <2> QED
    BY <1>1, <1>2, <2>1 DEF Sound, JobsKnown, Informed, Working
<1>7. TurnsApart' /\ AskedOncePerAttempt'
  BY <1>1 DEF Sound, TurnsApart, AskedOncePerAttempt
<1>8. \A q \in Request : pc'[q] # "idle" =>
          q # r /\ pc'[q] = pc[q] /\ job'[q] = job[q] /\ full'[q] = full[q]
  BY <1>2
<1>9. WorkCurrent' /\ WorkApart'
  BY <1>1, <1>8 DEF Sound, WorkCurrent, WorkApart, Working
<1>10. StopsTracked'
  <2>1. ASSUME NEW s \in Send, stops[s] # None
        PROVE  stops[s] \in Request /\ stops[s] # r
    <3>1. stops[s] \in Request
      BY <2>1 DEF Sound, TypeOK
    <3>2. pc[stops[s]] \in Stoppable \cup {"settled"}
      BY <2>1 DEF Sound, StopsTracked
    <3> QED
      BY <1>1, <3>1, <3>2 DEF Stoppable
  <2> QED
    BY <1>1, <1>2, <2>1 DEF Sound, StopsTracked
<1>11. CurrentAttemptStoppable'
  BY <1>1, <1>8 DEF Sound, CurrentAttemptStoppable
<1>12. JoinsLast' /\ FirstInLane' /\ Room'
  BY <1>1, <1>4, <1>8 DEF Sound, JoinsLast, FirstInLane, Room
<1>13. AskedFresh'
  BY <1>1, <1>8 DEF Sound, AskedFresh, Working
<1> QED
  BY <1>3, <1>5, <1>6, <1>7, <1>9, <1>10, <1>11, <1>12, <1>13 DEF Sound

\* Releasing a ticket makes room and leaves everybody else in place.
LEMMA ReleaseSound ==
    ASSUME Sound, NEW r \in Request, Release(r)
    PROVE  Sound'
<1>1. /\ pc[r] = "finished" /\ queue' = [queue EXCEPT ![r] = 0] /\ End(r)
      /\ UNCHANGED <<kept, turns, admitting, stops, asked>>
  BY DEF Release, store
<1>2. /\ \A q \in Request : /\ pc'[q] = IF q = r THEN "idle" ELSE pc[q]
                            /\ job'[q] = IF q = r THEN NoJob ELSE job[q]
                            /\ q # r => full'[q] = full[q]
                            /\ queue'[q] = IF q = r THEN 0 ELSE queue[q]
      /\ NoJob.turn = 0
  BY <1>1, Ended DEF Sound, TypeOK
<1>3. TypeOK'
  BY <1>1, Ended DEF Sound, TypeOK
<1>4. InLane' \subseteq InLane
  BY <1>2 DEF InLane
<1>5. LaneHeld'
  BY <1>1, <1>2 DEF Sound, LaneHeld, InAdmission, Enrolled
<1>6. JobsKnown'
  <2>1. 0 <= Len(turns)
    BY DEF Sound, TypeOK
  <2> QED
    BY <1>1, <1>2, <2>1 DEF Sound, JobsKnown, Informed, Working
<1>7. TurnsApart' /\ AskedOncePerAttempt'
  BY <1>1 DEF Sound, TurnsApart, AskedOncePerAttempt
<1>8. \A q \in Request : pc'[q] # "idle" =>
          /\ q # r /\ pc'[q] = pc[q] /\ job'[q] = job[q] /\ full'[q] = full[q]
          /\ queue'[q] = queue[q]
  BY <1>2
<1>9. WorkCurrent' /\ WorkApart'
  BY <1>1, <1>8 DEF Sound, WorkCurrent, WorkApart, Working
<1>10. StopsTracked'
  <2>1. ASSUME NEW s \in Send, stops[s] # None
        PROVE  stops[s] \in Request /\ stops[s] # r
    <3>1. stops[s] \in Request
      BY <2>1 DEF Sound, TypeOK
    <3>2. pc[stops[s]] \in Stoppable \cup {"settled"}
      BY <2>1 DEF Sound, StopsTracked
    <3> QED
      BY <1>1, <3>1, <3>2 DEF Stoppable
  <2> QED
    BY <1>1, <1>2, <2>1 DEF Sound, StopsTracked
<1>11. CurrentAttemptStoppable'
  BY <1>1, <1>8 DEF Sound, CurrentAttemptStoppable
<1>12. JoinsLast'
  <2>1. ASSUME NEW q \in Request
        PROVE  queue'[q] <= queue[q] /\ queue[q] \in Nat /\ queue'[q] \in Nat
    <3>1. queue[q] \in Nat
      BY DEF Sound, TypeOK
    <3> QED
      BY <1>2, <3>1
  <2> QED
    BY <1>1, <1>2, <1>8, <2>1 DEF Sound, JoinsLast, TypeOK
<1>13. FirstInLane'
  <2>1. \A q \in InLane' : q \in Request /\ q \in InLane /\ queue'[q] = queue[q]
    BY <1>2 DEF InLane
  <2> QED
    BY <1>8, <2>1 DEF Sound, FirstInLane
<1>14. Room'
  <2>1. Cardinality(InLane') <= Cardinality(InLane) /\ Cardinality(InLane') \in Nat
    BY <1>4, LaneFinite, FS_Subset, FS_CardinalityType
  <2> QED
    BY <1>8, <2>1, LaneFinite, WaitingAssumption DEF Sound, Room
<1>15. AskedFresh'
  BY <1>1, <1>8 DEF Sound, AskedFresh, Working
<1> QED
  BY <1>3, <1>5, <1>6, <1>7, <1>9, <1>10, <1>11, <1>12, <1>13, <1>14, <1>15 DEF Sound

--------------------------------------------------------------------------------
(* What is recorded for a request. *)

\* A new turn is the request's own, whose send no other turn has.
LEMMA RecordSendSound ==
    ASSUME Sound, NEW r \in Request, RecordSend(r)
    PROVE  Sound'
<1> DEFINE s == job[r].send
           n == Len(turns) + 1
<1>1. /\ pc[r] = "recording" /\ job[r].turn = 0 /\ ~full[r] /\ kept /\ ctx[r] = "live"
      /\ Recorded(turns, s) = {}
      /\ turns' = Append(turns, NewTurn(s))
      /\ job' = [job EXCEPT ![r].turn = Len(turns'), ![r].attempt = 1]
      /\ pc' = [pc EXCEPT ![r] = "enrolling"]
      /\ UNCHANGED <<kept, admitting, queue, stops, full, ctx, context, asked>>
  BY DEF RecordSend, MayRecord, IsRetry, Goto, memory
<1>2. s \in Send /\ turns \in Seq(Turn(Send)) /\ Len(turns) \in Nat
  BY <1>1 DEF Sound, TypeOK, JobsKnown
<1>3. /\ turns' \in Seq(Turn(Send)) /\ Len(turns') = n
      /\ \A i \in DOMAIN turns : turns'[i] = turns[i]
      /\ turns'[n] = NewTurn(s)
  BY <1>1, <1>2, AppendedKeeps
<1>4. /\ DOMAIN turns = 1 .. Len(turns) /\ DOMAIN turns' = 1 .. n
      /\ turns'[n].send = s /\ turns'[n].state = Pending /\ turns'[n].attempts = 1
  BY <1>2, <1>3 DEF NewTurn
<1>5. /\ \A q \in Request : /\ pc'[q] = IF q = r THEN "enrolling" ELSE pc[q]
                            /\ q # r => job'[q] = job[q]
      /\ job'[r].send = s /\ job'[r].turn = n /\ job'[r].attempt = 1
      /\ job' \in [Request -> [send : Send \cup {None}, turn : Nat, attempt : Nat]]
  <2>1. job[r] \in [send : Send \cup {None}, turn : Nat, attempt : Nat]
    BY DEF Sound, TypeOK
  <2>2. n \in Nat /\ Len(turns') = n
    BY <1>2, <1>3
  <2> HIDE DEF n
  <2> QED
    BY <1>1, <2>1, <2>2 DEF Sound, TypeOK
<1>6. TypeOK'
  BY <1>1, <1>3, <1>5 DEF Sound, TypeOK, Place, Working
<1>7. \A q \in Request : q # r => pc[q] \notin InAdmission
  BY <1>1 DEF Sound, LaneHeld, InAdmission
<1>8. InLane' = InLane
  BY <1>1 DEF InLane
<1>9. LaneHeld'
  BY <1>1, <1>5 DEF Sound, LaneHeld, InAdmission, Enrolled
<1>10. JobsKnown'
  <2>1. \A q \in Request : q # r => job'[q].turn <= n
    <3>1. \A q \in Request : job[q].turn \in Nat /\ job[q].turn <= Len(turns)
      BY <1>1 DEF Sound, JobsKnown, TypeOK
    <3> QED
      BY <1>2, <1>5, <3>1
  <2> QED
    BY <1>1, <1>2, <1>3, <1>5, <2>1 DEF Sound, JobsKnown, Informed, Working
<1>11. \A q \in Request : q # r /\ pc[q] \in Working => job[q].turn \in DOMAIN turns
  BY <1>1, <1>4, <1>7 DEF Sound, JobsKnown, TypeOK, Informed, Working, InAdmission
<1>12. \A i \in DOMAIN turns : i # n /\ turns[i].send # s /\ i \in DOMAIN turns'
  BY <1>1, <1>2, <1>4 DEF Recorded
<1>13. TurnsApart'
  <2>1. \A i \in DOMAIN turns' : i = n \/ (i \in DOMAIN turns /\ turns'[i] = turns[i])
    BY <1>2, <1>3, <1>4
  <2> HIDE DEF n, s
  <2> QED
    BY <1>1, <1>4, <1>12, <2>1 DEF Sound, TurnsApart
<1> HIDE DEF n, s
<1>14. WorkCurrent'
  <2>1. ASSUME NEW q \in Request, q # r, pc[q] \in Working
        PROVE  turns'[job[q].turn] = turns[job[q].turn]
    BY <1>3, <1>11, <2>1
  <2>2. ASSUME NEW q \in Request, pc'[q] \in Working
        PROVE  /\ turns'[job'[q].turn].state = Pending
               /\ job'[q].send = turns'[job'[q].turn].send \/ pc'[q] = "bumping"
               /\ job'[q].attempt = turns'[job'[q].turn].attempts \/ pc'[q] = "bumping"
    <3>1. CASE q = r
      BY <1>4, <1>5, <3>1
    <3>2. CASE q # r
      <4>1. pc[q] \in Working /\ job'[q] = job[q] /\ pc'[q] = pc[q]
        BY <1>5, <2>2, <3>2
      <4>2. /\ turns[job[q].turn].state = Pending
            /\ pc[q] # "bumping" => /\ job[q].send = turns[job[q].turn].send
                                    /\ job[q].attempt = turns[job[q].turn].attempts
        BY <1>1, <4>1 DEF Sound, WorkCurrent
      <4>3. turns'[job'[q].turn] = turns[job[q].turn]
        BY <2>1, <3>2, <4>1
      <4> QED
        BY <4>1, <4>2, <4>3
    <3> QED
      BY <3>1, <3>2
  <2> QED
    BY <2>2 DEF WorkCurrent
<1>15. WorkApart'
  <2>1. ASSUME NEW q \in Request, q # r, pc'[q] \in Working, pc'[q] # "bumping"
        PROVE  job'[q].turn # n /\ job'[q].send # s
    BY <1>1, <1>5, <1>11, <1>12, <2>1 DEF Sound, WorkCurrent
  <2>2. \A q \in Request : q # r => pc'[q] # "bumping"
    BY <1>5, <1>7 DEF InAdmission
  <2> QED
    BY <1>5, <2>1, <2>2 DEF Sound, WorkApart
<1>16. StopsTracked'
  <2>1. ASSUME NEW t \in Send, stops[t] # None
        PROVE  stops[t] \in Request /\ stops[t] # r
    <3>1. stops[t] \in Request
      BY <2>1 DEF Sound, TypeOK
    <3>2. pc[stops[t]] \in Stoppable \cup {"settled"}
      BY <2>1 DEF Sound, StopsTracked
    <3> QED
      BY <1>1, <3>1, <3>2 DEF Stoppable
  <2> QED
    BY <1>1, <1>5, <2>1 DEF Sound, StopsTracked
<1>17. CurrentAttemptStoppable'
  BY <1>1, <1>5 DEF Sound, CurrentAttemptStoppable
<1>18. JoinsLast'
  <2>1. ASSUME NEW q \in Request
        PROVE  queue[q] <= n
    <3>1. queue[q] = IF pc[q] \in Enrolled THEN job[q].turn ELSE 0
      BY DEF Sound, LaneHeld
    <3>2. job[q].turn \in Nat /\ job[q].turn <= Len(turns)
      BY <1>1 DEF Sound, JobsKnown, TypeOK
    <3> QED
      BY <1>2, <3>1, <3>2 DEF n
  <2> QED
    BY <1>1, <1>3, <1>5, <1>7, <2>1 DEF JoinsLast, InAdmission
<1>19. FirstInLane'
  BY <1>1, <1>5, <1>8 DEF Sound, FirstInLane
<1>20. Room'
  BY <1>1, <1>5, <1>7, <1>8 DEF Sound, Room, InAdmission
<1>21. AskedFresh' /\ AskedOncePerAttempt'
  <2>1. asked[s] = 0
    BY <1>1, <1>2 DEF Sound, AskedFresh
  <2>2. ASSUME NEW t \in Send, asked[t] # 0
        PROVE  Recorded(turns', t) # {}
    <3>1. PICK i : i \in DOMAIN turns /\ turns[i].send = t
      BY <1>1, <2>2 DEF Sound, AskedFresh, Recorded
    <3> QED
      BY <1>3, <1>12, <3>1 DEF Recorded
  <2>3. ASSUME NEW q \in Request, pc'[q] \in Working \ {"asking", "completing", "failing"}
        PROVE  asked[turns'[job'[q].turn].send] = 0
    <3>1. CASE q = r
      BY <1>4, <1>5, <2>1, <3>1
    <3>2. CASE q # r
      BY <1>1, <1>3, <1>5, <1>11, <2>3, <3>2 DEF Sound, AskedFresh
    <3> QED
      BY <3>1, <3>2
  <2> QED
    BY <1>1, <2>2, <2>3 DEF Sound, AskedFresh, AskedOncePerAttempt
<1> QED
  BY <1>6, <1>9, <1>10, <1>13, <1>14, <1>15, <1>16, <1>17, <1>18, <1>19, <1>20, <1>21 DEF Sound


\* A retry reopens the latest turn, which got no reply and nobody works on.
LEMMA ReopenSound ==
    ASSUME Sound, NEW r \in Request, ReopenTurn(r)
    PROVE  Sound'
<1> DEFINE k == job[r].turn
<1>1. /\ pc[r] = "recording" /\ k # 0 /\ ~full[r] /\ kept
      /\ k \in DOMAIN turns /\ k = Len(turns) /\ turns[k].state \in Retryable
      /\ turns' = Reopened(turns, k)
      /\ asked' = [asked EXCEPT ![turns[k].send] = 0]
      /\ pc' = [pc EXCEPT ![r] = "bumping"]
      /\ UNCHANGED <<kept, admitting, queue, stops, job, full, ctx, context>>
  BY DEF ReopenTurn, MayRecord, Reopenable, IsRetry, Goto, memory
<1>2. turns \in Seq(Turn(Send)) /\ DOMAIN turns = 1 .. Len(turns)
  BY DEF Sound, TypeOK
<1>3. /\ turns' \in Seq(Turn(Send)) /\ Len(turns') = Len(turns) /\ DOMAIN turns' = DOMAIN turns
      /\ \A i \in DOMAIN turns : turns'[i].send = turns[i].send /\ (i # k => turns'[i] = turns[i])
      /\ turns'[k].state = Pending /\ turns[k].send \in Send
  <2>1. turns[k] \in Turn(Send)
    BY <1>1, <1>2
  <2>2. turns[k].send \in Send
    BY <2>1 DEF Turn
  <2>3. turns' \in Seq(Turn(Send)) /\ Len(turns') = Len(turns) /\ turns'[k].state = Pending
    BY <1>1, <1>2, ReopenedKeeps
  <2>4. \A i \in DOMAIN turns : turns'[i].send = turns[i].send /\ (i # k => turns'[i] = turns[i])
    BY <1>1, <1>2, ReopenedKeeps
  <2> QED
    BY <1>2, <2>2, <2>3, <2>4
<1>4. \A q \in Request : pc'[q] = IF q = r THEN "bumping" ELSE pc[q]
  BY <1>1 DEF Sound, TypeOK
<1>5. \A t \in Send : asked'[t] = IF t = turns[k].send THEN 0 ELSE asked[t]
  BY <1>1 DEF Sound, TypeOK
<1>6. TypeOK'
  BY <1>1, <1>3 DEF Sound, TypeOK, Place, Working
<1>7. \A q \in Request : q # r => pc[q] \notin InAdmission
  BY <1>1 DEF Sound, LaneHeld, InAdmission
<1>8. \A q \in Request : q # r /\ pc[q] \in Working =>
          job[q].turn \in DOMAIN turns /\ job[q].turn # k
  <2>1. \A q \in Request : q # r /\ pc[q] \in Working => job[q].turn \in DOMAIN turns
    BY <1>1, <1>2, <1>7 DEF Sound, JobsKnown, TypeOK, Informed, Working, InAdmission
  <2>2. \A q \in Request : pc[q] \in Working => turns[job[q].turn].state = Pending
    BY <1>1 DEF Sound, WorkCurrent
  <2> QED
    BY <1>1, <2>1, <2>2 DEF Retryable, Pending
<1> HIDE DEF k
<1>9. InLane' = InLane
  BY <1>1 DEF InLane
<1>10. LaneHeld'
  BY <1>1, <1>4 DEF Sound, LaneHeld, InAdmission, Enrolled
<1>11. JobsKnown'
  BY <1>1, <1>3, <1>4 DEF Sound, JobsKnown, Informed, Working, k
<1>12. TurnsApart'
  BY <1>1, <1>3 DEF Sound, TurnsApart
<1>13. WorkCurrent'
  <2>1. ASSUME NEW q \in Request, pc'[q] \in Working
        PROVE  /\ turns'[job'[q].turn].state = Pending
               /\ job'[q].send = turns'[job'[q].turn].send \/ pc'[q] = "bumping"
               /\ job'[q].attempt = turns'[job'[q].turn].attempts \/ pc'[q] = "bumping"
    <3>1. CASE q = r
      BY <1>1, <1>3, <1>4, <3>1 DEF k
    <3>2. CASE q # r
      <4>1. pc[q] \in Working /\ job'[q] = job[q] /\ pc'[q] = pc[q]
        BY <1>1, <1>4, <2>1, <3>2
      <4>2. turns'[job[q].turn] = turns[job[q].turn]
        BY <1>3, <1>8, <3>2, <4>1
      <4> QED
        BY <1>1, <4>1, <4>2 DEF Sound, WorkCurrent
    <3> QED
      BY <3>1, <3>2
  <2> QED
    BY <2>1 DEF WorkCurrent
<1>14. WorkApart'
  <2>1. ASSUME NEW q \in Request, q # r, pc'[q] \in Working
        PROVE  job'[q].turn # job'[r].turn
    BY <1>1, <1>4, <1>8, <2>1 DEF k
  <2> QED
    BY <1>1, <1>4, <2>1 DEF Sound, WorkApart
<1>15. StopsTracked'
  <2>1. ASSUME NEW t \in Send, stops[t] # None
        PROVE  stops[t] \in Request /\ stops[t] # r
    <3>1. stops[t] \in Request
      BY <2>1 DEF Sound, TypeOK
    <3>2. pc[stops[t]] \in Stoppable \cup {"settled"}
      BY <2>1 DEF Sound, StopsTracked
    <3> QED
      BY <1>1, <3>1, <3>2 DEF Stoppable
  <2> QED
    BY <1>1, <1>4, <2>1 DEF Sound, StopsTracked
<1>16. CurrentAttemptStoppable'
  BY <1>1, <1>4 DEF Sound, CurrentAttemptStoppable
<1>17. JoinsLast'
  <2>1. ASSUME NEW q \in Request
        PROVE  queue[q] <= k
    <3>1. queue[q] = IF pc[q] \in Enrolled THEN job[q].turn ELSE 0
      BY DEF Sound, LaneHeld
    <3>2. job[q].turn \in Nat /\ job[q].turn <= Len(turns)
      BY <1>1 DEF Sound, JobsKnown, TypeOK
    <3> QED
      BY <1>1, <1>2, <3>1, <3>2
  <2> QED
    BY <1>1, <1>3, <1>4, <1>7, <2>1 DEF JoinsLast, InAdmission, k
<1>18. FirstInLane'
  BY <1>1, <1>4, <1>9 DEF Sound, FirstInLane
<1>19. Room'
  BY <1>1, <1>4, <1>7, <1>9 DEF Sound, Room, InAdmission
<1>20. AskedFresh' /\ AskedOncePerAttempt'
  <2>1. ASSUME NEW t \in Send, asked'[t] # 0
        PROVE  Recorded(turns', t) # {}
    <3>1. PICK i : i \in DOMAIN turns /\ turns[i].send = t
      BY <1>1, <1>5, <2>1 DEF Sound, AskedFresh, Recorded
    <3> QED
      BY <1>3, <3>1 DEF Recorded
  <2>2. ASSUME NEW q \in Request, pc'[q] \in Working \ {"asking", "completing", "failing"}
        PROVE  asked'[turns'[job'[q].turn].send] = 0
    <3>1. CASE q = r
      BY <1>1, <1>3, <1>5, <3>1 DEF k
    <3>2. CASE q # r
      <4>1. /\ pc[q] \in Working \ {"asking", "completing", "failing"}
            /\ turns'[job'[q].turn].send = turns[job[q].turn].send
            /\ job[q].turn \in DOMAIN turns
        BY <1>1, <1>3, <1>4, <1>8, <2>2, <3>2
      <4>2. turns[job[q].turn].send \in Send
        <5>1. turns[job[q].turn] \in Turn(Send)
          BY <1>2, <4>1
        <5> QED
          BY <5>1 DEF Turn
      <4> QED
        BY <1>1, <1>5, <4>1, <4>2 DEF Sound, AskedFresh
    <3> QED
      BY <3>1, <3>2
  <2>3. AskedOncePerAttempt'
    BY <1>5 DEF Sound, AskedOncePerAttempt
  <2> QED
    BY <1>1, <2>1, <2>2, <2>3 DEF AskedFresh
<1> QED
  BY <1>6, <1>10, <1>11, <1>12, <1>13, <1>14, <1>15, <1>16, <1>17, <1>18, <1>19, <1>20 DEF Sound


\* A retry learns its turn, whose send no other request at work has.
LEMMA BumpSound ==
    ASSUME Sound, NEW r \in Request, BumpRevision(r)
    PROVE  Sound'
<1> DEFINE k == job[r].turn
<1>1. /\ pc[r] = "bumping" /\ kept
      /\ job' = [job EXCEPT ![r].send = turns[k].send, ![r].attempt = turns[k].attempts]
      /\ pc' = [pc EXCEPT ![r] = "enrolling"]
      /\ UNCHANGED <<kept, turns, admitting, queue, stops, full, ctx, context, asked>>
  BY DEF BumpRevision, Goto, store, memory
<1>2. /\ turns \in Seq(Turn(Send)) /\ DOMAIN turns = 1 .. Len(turns)
      /\ \A q \in Request : pc[q] \in Working => job[q].turn \in DOMAIN turns
  BY <1>1 DEF Sound, TypeOK, JobsKnown, Informed, Working
<1>3. k \in DOMAIN turns /\ turns[k].state = Pending
  BY <1>1, <1>2 DEF Sound, WorkCurrent, Working
<1>4. turns[k].send \in Send /\ turns[k].attempts \in Nat
  <2>1. turns[k] \in Turn(Send)
    BY <1>2, <1>3
  <2> QED
    BY <2>1 DEF Turn
<1>5. /\ \A q \in Request : /\ pc'[q] = IF q = r THEN "enrolling" ELSE pc[q]
                            /\ job'[q].turn = job[q].turn
                            /\ q # r => job'[q] = job[q]
      /\ job'[r].send = turns[k].send /\ job'[r].attempt = turns[k].attempts
      /\ job' \in [Request -> [send : Send \cup {None}, turn : Nat, attempt : Nat]]
  <2>1. job[r] \in [send : Send \cup {None}, turn : Nat, attempt : Nat]
    BY DEF Sound, TypeOK
  <2>2. PICK t, a : t = turns[k].send /\ a = turns[k].attempts
    OBVIOUS
  <2>3. job' = [job EXCEPT ![r].send = t, ![r].attempt = a]
    BY <1>1, <2>2
  <2>4. t \in Send /\ a \in Nat
    BY <1>4, <2>2
  <2>5. pc \in [Request -> Place] /\ job \in [Request -> [send : Send \cup {None}, turn : Nat, attempt : Nat]]
    BY DEF Sound, TypeOK
  <2>6. /\ job'[r].send = t /\ job'[r].attempt = a /\ job'[r].turn = job[r].turn
        /\ \A q \in Request : q # r => job'[q] = job[q]
        /\ job' \in [Request -> [send : Send \cup {None}, turn : Nat, attempt : Nat]]
    BY <2>1, <2>3, <2>4, <2>5
  <2> QED
    BY <1>1, <2>2, <2>5, <2>6
<1>6. TypeOK'
  BY <1>1, <1>5 DEF Sound, TypeOK, Place, Working
<1>7. \A q \in Request : q # r => pc[q] \notin InAdmission
  BY <1>1 DEF Sound, LaneHeld, InAdmission
<1>8. InLane' = InLane
  BY <1>1 DEF InLane
<1>9. LaneHeld'
  BY <1>1, <1>5 DEF Sound, LaneHeld, InAdmission, Enrolled
<1>10. JobsKnown'
  <2>1. k # 0
    BY <1>1 DEF Sound, JobsKnown
  <2>2. JobsKnown
    BY DEF Sound
  <2>3. ASSUME NEW q \in Request, q # r
        PROVE  pc'[q] = pc[q] /\ job'[q] = job[q]
    BY <1>5, <2>3
  <2>4. pc'[r] = "enrolling" /\ job'[r].turn = k /\ job'[r].send \in Send
    BY <1>4, <1>5
  <2> QED
    BY <1>1, <2>1, <2>2, <2>3, <2>4 DEF JobsKnown
<1>11. TurnsApart' /\ AskedOncePerAttempt'
  BY <1>1 DEF Sound, TurnsApart, AskedOncePerAttempt
<1>12. WorkCurrent'
  <2>1. ASSUME NEW q \in Request, pc'[q] \in Working
        PROVE  /\ turns[job'[q].turn].state = Pending
               /\ pc'[q] # "bumping" => /\ job'[q].send = turns[job'[q].turn].send
                                        /\ job'[q].attempt = turns[job'[q].turn].attempts
    <3>1. CASE q = r
      BY <1>3, <1>5, <3>1
    <3>2. CASE q # r
      <4>1. job'[q] = job[q] /\ pc'[q] = pc[q] /\ kept
        BY <1>1, <1>5, <3>2
      <4>2. WorkCurrent
        BY DEF Sound
      <4> QED
        BY <2>1, <4>1, <4>2, Zenon DEF WorkCurrent
    <3> QED
      BY <3>1, <3>2
  <2> QED
    BY <1>1, <2>1 DEF WorkCurrent
<1>13. WorkApart'
  <2>1. \A q \in Request : pc'[q] \in Working => pc[q] \in Working
    BY <1>1, <1>5 DEF Working
  <2>2. ASSUME NEW q \in Request, q # r, pc'[q] \in Working, pc'[q] # "bumping",
               job'[q].send = job'[r].send
        PROVE  FALSE
    <3>1. pc[q] \in Working /\ pc[q] # "bumping" /\ job[q].send = turns[k].send
      BY <1>5, <2>2
    <3>2. job[q].send = turns[job[q].turn].send
      BY <1>1, <3>1 DEF Sound, WorkCurrent
    <3>3. job[q].turn = k
      BY <1>2, <1>3, <3>1, <3>2 DEF Sound, TurnsApart
    <3> QED
      BY <1>1, <2>2, <3>1, <3>3 DEF Sound, WorkApart, Working
  <2> HIDE DEF k
  <2> QED
    BY <1>5, <2>1, <2>2, <1>7 DEF Sound, WorkApart, InAdmission
<1>14. StopsTracked'
  <2>1. ASSUME NEW t \in Send, stops[t] # None
        PROVE  stops[t] \in Request /\ stops[t] # r
    <3>1. stops[t] \in Request
      BY <2>1 DEF Sound, TypeOK
    <3>2. pc[stops[t]] \in Stoppable \cup {"settled"}
      BY <2>1 DEF Sound, StopsTracked
    <3> QED
      BY <1>1, <3>1, <3>2 DEF Stoppable
  <2> QED
    BY <1>1, <1>5, <2>1 DEF Sound, StopsTracked
<1>15. CurrentAttemptStoppable'
  BY <1>1, <1>5 DEF Sound, CurrentAttemptStoppable
<1>16. JoinsLast'
  BY <1>1, <1>5 DEF Sound, JoinsLast
<1>17. FirstInLane'
  BY <1>1, <1>5, <1>8 DEF Sound, FirstInLane
<1>18. Room'
  BY <1>1, <1>5, <1>7, <1>8 DEF Sound, Room, InAdmission
<1>19. AskedFresh'
  <2>1. ASSUME NEW q \in Request, pc'[q] \in Working \ {"asking", "completing", "failing"}
        PROVE  asked[turns[job'[q].turn].send] = 0
    <3>1. pc[q] \in Working \ {"asking", "completing", "failing"} /\ job'[q].turn = job[q].turn
      BY <1>1, <1>5, <2>1 DEF Working
    <3> QED
      BY <1>1, <3>1 DEF Sound, AskedFresh
  <2> QED
    BY <1>1, <2>1 DEF Sound, AskedFresh
<1> QED
  BY <1>6, <1>9, <1>10, <1>11, <1>12, <1>13, <1>14, <1>15, <1>16, <1>17, <1>18, <1>19 DEF Sound

\* A ticket joins at its turn's place, last, and there was room for it.
LEMMA EnrollSound ==
    ASSUME Sound, NEW r \in Request, Enroll(r)
    PROVE  Sound'
<1> DEFINE k == job[r].turn
<1>1. /\ pc[r] = "enrolling" /\ queue' = [queue EXCEPT ![r] = k] /\ admitting' = None
      /\ pc' = [pc EXCEPT ![r] = "admitted"]
      /\ UNCHANGED <<kept, turns, stops, job, full, ctx, context, asked>>
  BY DEF Enroll, Goto, store
<1>2. \A q \in Request : /\ pc'[q] = IF q = r THEN "admitted" ELSE pc[q]
                         /\ queue'[q] = IF q = r THEN k ELSE queue[q]
  BY <1>1 DEF Sound, TypeOK
<1>3. TypeOK'
  BY <1>1 DEF Sound, TypeOK, Place, Working
<1>4. k # 0 /\ queue[r] = 0 /\ \A q \in Request : queue[q] <= k
  BY <1>1 DEF Sound, JobsKnown, LaneHeld, JoinsLast, Informed, Working, Enrolled
<1>5. \A q \in Request : q # r => pc[q] \notin InAdmission
  BY <1>1 DEF Sound, LaneHeld, InAdmission
<1> HIDE DEF k
<1>6. InLane' = InLane \cup {r} /\ r \notin InLane
  BY <1>2, <1>4 DEF InLane
<1>7. LaneHeld'
  BY <1>1, <1>2, <1>5, RequestAssumption DEF Sound, LaneHeld, InAdmission, Enrolled, k
<1>8. JobsKnown'
  BY <1>1, <1>2 DEF Sound, JobsKnown, Informed, Working
<1>9. TurnsApart' /\ AskedOncePerAttempt'
  BY <1>1 DEF Sound, TurnsApart, AskedOncePerAttempt
<1>10. \A q \in Request : /\ pc'[q] \in Working <=> pc[q] \in Working
                          /\ pc'[q] = "bumping" <=> pc[q] = "bumping"
  BY <1>1, <1>2 DEF Working
<1>11. WorkCurrent' /\ WorkApart'
  BY <1>1, <1>10 DEF Sound, WorkCurrent, WorkApart
<1>12. StopsTracked'
  <2>1. ASSUME NEW t \in Send, stops[t] # None
        PROVE  stops[t] \in Request /\ stops[t] # r
    <3>1. stops[t] \in Request
      BY <2>1 DEF Sound, TypeOK
    <3>2. pc[stops[t]] \in Stoppable \cup {"settled"}
      BY <2>1 DEF Sound, StopsTracked
    <3> QED
      BY <1>1, <3>1, <3>2 DEF Stoppable
  <2> QED
    BY <1>1, <1>2, <2>1 DEF Sound, StopsTracked
<1>13. CurrentAttemptStoppable'
  BY <1>1, <1>2 DEF Sound, CurrentAttemptStoppable
<1>14. JoinsLast'
  BY <1>2, <1>5 DEF JoinsLast, InAdmission
<1>15. FirstInLane'
  <2>1. ASSUME NEW q \in Request, pc'[q] \in {"dispatched", "asking", "completing"},
               NEW o \in InLane'
        PROVE  queue'[q] <= queue'[o]
    <3>1. q # r /\ pc[q] \in {"dispatched", "asking", "completing"} /\ queue'[q] = queue[q]
      BY <1>2, <2>1
    <3>2. CASE o = r
      BY <1>2, <1>4, <3>1, <3>2
    <3>3. CASE o # r
      BY <1>2, <1>6, <2>1, <3>1, <3>3 DEF Sound, FirstInLane, InLane
    <3> QED
      BY <3>2, <3>3
  <2> QED
    BY <2>1 DEF FirstInLane
<1>16. Room'
  <2>1. Cardinality(InLane) < MaxWaiting
    BY <1>1 DEF Sound, Room
  <2>2. Cardinality(InLane') = Cardinality(InLane) + 1
    BY <1>6, LaneFinite, FS_AddElement
  <2>3. \A q \in Request : pc'[q] \notin InAdmission
    BY <1>2, <1>5 DEF InAdmission
  <2> QED
    BY <2>1, <2>2, <2>3, LaneFinite, WaitingAssumption DEF Room, InAdmission
<1>17. AskedFresh'
  BY <1>1, <1>2 DEF Sound, AskedFresh, Working
<1> QED
  BY <1>3, <1>7, <1>8, <1>9, <1>11, <1>12, <1>13, <1>14, <1>15, <1>16, <1>17 DEF Sound

--------------------------------------------------------------------------------
(* A request becomes stoppable, asks, settles, and is no longer reached. *)

\* The attempt registered for a send is the one at work on it.
LEMMA TrackSound ==
    ASSUME Sound, NEW r \in Request, Track(r)
    PROVE  Sound'
<1> DEFINE s == job[r].send
<1>1. /\ pc[r] = "admitted" /\ stops' = [stops EXCEPT ![s] = r]
      /\ pc' = [pc EXCEPT ![r] = "tracked"]
      /\ UNCHANGED <<kept, turns, admitting, queue, job, full, ctx, context, asked>>
  BY DEF Track, Goto, store
<1>2. \A q \in Request : pc'[q] = IF q = r THEN "tracked" ELSE pc[q]
  BY <1>1 DEF Sound, TypeOK
<1>3. s \in Send
  BY <1>1 DEF Sound, JobsKnown, Informed, Working
<1>4. \A t \in Send : stops'[t] = IF t = s THEN r ELSE stops[t]
  BY <1>1 DEF Sound, TypeOK
<1>5. TypeOK'
  BY <1>1 DEF Sound, TypeOK, Place, Working
<1>6. InLane' = InLane
  BY <1>1 DEF InLane
<1>7. LaneHeld'
  BY <1>1, <1>2 DEF Sound, LaneHeld, InAdmission, Enrolled
<1>8. JobsKnown'
  BY <1>1, <1>2 DEF Sound, JobsKnown, Informed, Working
<1>9. TurnsApart' /\ AskedOncePerAttempt'
  BY <1>1 DEF Sound, TurnsApart, AskedOncePerAttempt
<1>10. \A q \in Request : /\ pc'[q] \in Working <=> pc[q] \in Working
                          /\ pc'[q] = "bumping" <=> pc[q] = "bumping"
  BY <1>1, <1>2 DEF Working
<1>11. WorkCurrent' /\ WorkApart'
  BY <1>1, <1>10 DEF Sound, WorkCurrent, WorkApart
<1>12. StopsTracked'
  <2>1. ASSUME NEW t \in Send, stops'[t] # None
        PROVE  pc'[stops'[t]] \in Stoppable \cup {"settled"} /\ job[stops'[t]].send = t
    <3>1. CASE t = s
      BY <1>2, <1>4, <3>1 DEF Stoppable
    <3>2. CASE t # s
      <4>1. stops'[t] = stops[t] /\ stops[t] \in Request
        BY <1>4, <2>1, <3>2 DEF Sound, TypeOK
      <4>2. pc[stops[t]] \in Stoppable \cup {"settled"} /\ job[stops[t]].send = t
        BY <2>1, <4>1 DEF Sound, StopsTracked
      <4> QED
        BY <1>2, <4>1, <4>2 DEF Stoppable
    <3> QED
      BY <3>1, <3>2
  <2> QED
    BY <1>1, <2>1 DEF StopsTracked
<1>13. CurrentAttemptStoppable'
  <2>1. ASSUME NEW q \in Request, pc'[q] \in Stoppable
        PROVE  stops'[job[q].send] = q
    <3>1. CASE q = r
      BY <1>3, <1>4, <3>1
    <3>2. CASE q # r
      <4>1. pc[q] \in Stoppable /\ pc[q] \in Working /\ pc[q] # "bumping"
        BY <1>2, <2>1, <3>2 DEF Stoppable, Working
      <4>2. job[q].send # s
        BY <1>1, <3>2, <4>1 DEF Sound, WorkApart, Working
      <4>3. job[q].send \in Send /\ stops[job[q].send] = q
        BY <4>1 DEF Sound, CurrentAttemptStoppable, JobsKnown, Informed, Stoppable
      <4> QED
        BY <1>4, <4>2, <4>3
    <3> QED
      BY <3>1, <3>2
  <2> QED
    BY <1>1, <2>1 DEF CurrentAttemptStoppable, Stoppable
<1>14. JoinsLast' /\ FirstInLane' /\ Room'
  BY <1>1, <1>2, <1>6 DEF Sound, JoinsLast, FirstInLane, Room
<1>15. AskedFresh'
  BY <1>1, <1>2 DEF Sound, AskedFresh, Working
<1> QED
  BY <1>5, <1>7, <1>8, <1>9, <1>11, <1>12, <1>13, <1>14, <1>15 DEF Sound

\* What a request that has settled removes is its own attempt, if still there.
LEMMA UntrackSound ==
    ASSUME Sound, NEW r \in Request, Untrack(r)
    PROVE  Sound'
<1> DEFINE s == job[r].send
<1>1. /\ pc[r] = "settled" /\ stops' = [stops EXCEPT ![s] = IF @ = r THEN None ELSE @]
      /\ pc' = [pc EXCEPT ![r] = "finished"]
      /\ UNCHANGED <<kept, turns, admitting, queue, job, full, ctx, context, asked>>
  BY DEF Untrack, Goto, store
<1>2. \A q \in Request : pc'[q] = IF q = r THEN "finished" ELSE pc[q]
  BY <1>1 DEF Sound, TypeOK
<1>3. s \in Send
  BY <1>1 DEF Sound, JobsKnown, Informed, Working
<1>4. \A t \in Send : stops'[t] = IF t = s /\ stops[t] = r THEN None ELSE stops[t]
  BY <1>1 DEF Sound, TypeOK
<1>5. TypeOK'
  BY <1>1, <1>3 DEF Sound, TypeOK, Place, Working
<1>6. InLane' = InLane
  BY <1>1 DEF InLane
<1>7. LaneHeld'
  BY <1>1, <1>2 DEF Sound, LaneHeld, InAdmission, Enrolled
<1>8. JobsKnown'
  BY <1>1, <1>2 DEF Sound, JobsKnown, Informed, Working
<1>9. TurnsApart' /\ AskedOncePerAttempt'
  BY <1>1 DEF Sound, TurnsApart, AskedOncePerAttempt
<1>10. \A q \in Request : /\ pc'[q] \in Working <=> pc[q] \in Working
                          /\ pc'[q] = "bumping" <=> pc[q] = "bumping"
  BY <1>1, <1>2 DEF Working
<1>11. WorkCurrent' /\ WorkApart'
  BY <1>1, <1>10 DEF Sound, WorkCurrent, WorkApart
<1>12. StopsTracked'
  <2>1. ASSUME NEW t \in Send, stops'[t] # None
        PROVE  pc'[stops'[t]] \in Stoppable \cup {"settled"} /\ job[stops'[t]].send = t
    <3>1. stops'[t] = stops[t] /\ stops[t] \in Request
      BY <1>4, <2>1 DEF Sound, TypeOK
    <3>2. pc[stops[t]] \in Stoppable \cup {"settled"} /\ job[stops[t]].send = t
      BY <2>1, <3>1 DEF Sound, StopsTracked
    <3>3. stops[t] # r
      BY <1>4, <2>1, <3>2
    <3> QED
      BY <1>2, <3>1, <3>2, <3>3
  <2> QED
    BY <1>1, <2>1 DEF StopsTracked
<1>13. CurrentAttemptStoppable'
  <2>1. ASSUME NEW q \in Request, pc'[q] \in Stoppable
        PROVE  stops'[job[q].send] = q
    <3>1. q # r /\ pc[q] \in Stoppable
      BY <1>2, <2>1 DEF Stoppable
    <3>2. job[q].send \in Send /\ stops[job[q].send] = q
      BY <3>1 DEF Sound, CurrentAttemptStoppable, JobsKnown, Informed, Stoppable, Working
    <3> QED
      BY <1>4, <3>1, <3>2
  <2> QED
    BY <1>1, <2>1 DEF CurrentAttemptStoppable, Stoppable
<1>14. JoinsLast' /\ FirstInLane' /\ Room'
  BY <1>1, <1>2, <1>6 DEF Sound, JoinsLast, FirstInLane, Room
<1>15. AskedFresh'
  BY <1>1, <1>2 DEF Sound, AskedFresh, Working
<1> QED
  BY <1>5, <1>7, <1>8, <1>9, <1>11, <1>12, <1>13, <1>14, <1>15 DEF Sound


\* What is asked of the model is asked for a turn nobody else answers.
LEMMA AskSound ==
    ASSUME Sound, NEW r \in Request, AskModel(r)
    PROVE  Sound'
<1> DEFINE s == job[r].send
           k == job[r].turn
<1>1. /\ pc[r] = "dispatched" /\ kept
      /\ context' = [context EXCEPT ![r] = ContextTurns(turns, k)]
      /\ asked' = [asked EXCEPT ![s] = @ + 1]
      /\ pc' = [pc EXCEPT ![r] = "asking"]
      /\ UNCHANGED <<kept, turns, admitting, queue, stops, job, full, ctx>>
  BY DEF AskModel, Goto, store, memory
<1>2. \A q \in Request : pc'[q] = IF q = r THEN "asking" ELSE pc[q]
  BY <1>1 DEF Sound, TypeOK
<1>3. /\ s \in Send /\ k \in DOMAIN turns /\ turns[k].send = s
      /\ DOMAIN turns = 1 .. Len(turns)
      /\ \A q \in Request : pc[q] \in Working => job[q].turn \in DOMAIN turns
  BY <1>1 DEF Sound, JobsKnown, WorkCurrent, Informed, Working, TypeOK
<1>4. asked[s] = 0
  BY <1>1, <1>3 DEF Sound, AskedFresh, Working
<1>5. \A t \in Send : asked'[t] = IF t = s THEN 1 ELSE asked[t]
  BY <1>1, <1>3, <1>4 DEF Sound, TypeOK
<1>6. TypeOK'
  <2>1. ContextTurns(turns, k) \in SUBSET Nat
    BY <1>3 DEF ContextTurns, Sound, TypeOK
  <2>2. asked' \in [Send -> Nat]
    <3>1. asked \in [Send -> Nat] /\ asked[s] + 1 \in Nat
      BY <1>3 DEF Sound, TypeOK
    <3> QED
      BY <1>1, <3>1
  <2> QED
    BY <1>1, <2>1, <2>2 DEF Sound, TypeOK, Place, Working
<1>7. InLane' = InLane
  BY <1>1 DEF InLane
<1>8. LaneHeld'
  BY <1>1, <1>2 DEF Sound, LaneHeld, InAdmission, Enrolled
<1>9. JobsKnown'
  BY <1>1, <1>2 DEF Sound, JobsKnown, Informed, Working
<1>10. TurnsApart'
  BY <1>1 DEF Sound, TurnsApart
<1>11. \A q \in Request : /\ pc'[q] \in Working <=> pc[q] \in Working
                          /\ pc'[q] = "bumping" <=> pc[q] = "bumping"
  BY <1>1, <1>2 DEF Working
<1>12. WorkCurrent' /\ WorkApart'
  BY <1>1, <1>11 DEF Sound, WorkCurrent, WorkApart
<1>13. StopsTracked'
  <2>1. \A q \in Request : pc[q] \in Stoppable \cup {"settled"} => pc'[q] \in Stoppable \cup {"settled"}
    BY <1>2 DEF Stoppable
  <2> QED
    BY <1>1, <2>1 DEF Sound, StopsTracked, TypeOK
<1>14. CurrentAttemptStoppable'
  BY <1>1, <1>2 DEF Sound, CurrentAttemptStoppable
<1>15. JoinsLast' /\ FirstInLane' /\ Room'
  BY <1>1, <1>2, <1>7 DEF Sound, JoinsLast, FirstInLane, Room
<1>16. AskedFresh'
  <2>1. Recorded(turns, s) # {}
    BY <1>3 DEF Recorded
  <2>2. ASSUME NEW q \in Request, pc'[q] \in Working \ {"asking", "completing", "failing"}
        PROVE  asked'[turns[job[q].turn].send] = 0
    <3>1. q # r /\ pc[q] \in Working \ {"asking", "completing", "failing"}
      BY <1>2, <2>2
    <3>2. job[q].turn \in DOMAIN turns /\ job[q].turn # k
      BY <1>1, <1>3, <3>1 DEF Sound, WorkApart, Working
    <3>3. turns[job[q].turn].send # s
      BY <1>3, <3>2 DEF Sound, TurnsApart
    <3>4. turns[job[q].turn].send \in Send
      <4>1. turns[job[q].turn] \in Turn(Send)
        BY <3>2 DEF Sound, TypeOK
      <4> QED
        BY <4>1 DEF Turn
    <3> QED
      BY <1>1, <1>5, <3>1, <3>3, <3>4 DEF Sound, AskedFresh
  <2> QED
    BY <1>1, <1>5, <2>1, <2>2 DEF Sound, AskedFresh
<1>17. AskedOncePerAttempt'
  BY <1>5 DEF Sound, AskedOncePerAttempt
<1> QED
  BY <1>6, <1>8, <1>9, <1>10, <1>12, <1>13, <1>14, <1>15, <1>16, <1>17 DEF Sound

\* Settling a turn ends one request's work and leaves every other turn alone.
LEMMA SettleSound ==
    ASSUME Sound, NEW r \in Request, Settle(r)
    PROVE  Sound'
<1> DEFINE k == job[r].turn
           a == job[r].attempt
           e == IF pc[r] = "completing" THEN "completed" ELSE "failed"
<1>1. /\ pc[r] \in {"completing", "failing", "unasked"}
      /\ turns' = Finished(turns, k, a, e)
      /\ pc' = [pc EXCEPT ![r] = "settled"]
      /\ UNCHANGED <<kept, admitting, queue, stops, job, full, ctx, context, asked>>
  BY DEF Settle, Goto, memory
<1>2. \A q \in Request : pc'[q] = IF q = r THEN "settled" ELSE pc[q]
  BY <1>1 DEF Sound, TypeOK
<1>3. /\ turns \in Seq(Turn(Send)) /\ k \in Nat /\ a \in Nat /\ e \in {"completed", "failed"}
      /\ DOMAIN turns = 1 .. Len(turns)
  BY DEF Sound, TypeOK
<1>4. /\ turns' \in Seq(Turn(Send)) /\ Len(turns') = Len(turns) /\ DOMAIN turns' = DOMAIN turns
      /\ \A i \in DOMAIN turns : /\ turns'[i].send = turns[i].send
                                 /\ i # k => turns'[i] = turns[i]
  <2> HIDE DEF k, a, e
  <2>1. turns' \in Seq(Turn(Send)) /\ Len(turns') = Len(turns)
    BY <1>1, <1>3, FinishedKeeps
  <2>2. \A i \in DOMAIN turns : turns'[i].send = turns[i].send /\ (i # k => turns'[i] = turns[i])
    BY <1>1, <1>3, FinishedKeeps
  <2> QED
    BY <1>3, <2>1, <2>2
<1>5. TypeOK'
  BY <1>1, <1>4 DEF Sound, TypeOK, Place, Working
<1>6. InLane' = InLane
  BY <1>1 DEF InLane
<1>7. LaneHeld'
  BY <1>1, <1>2 DEF Sound, LaneHeld, InAdmission, Enrolled
<1>8. JobsKnown'
  BY <1>1, <1>2, <1>4 DEF Sound, JobsKnown, Informed, Working
<1>9. TurnsApart'
  <2>1. ~kept => turns' = <<>>
    BY <1>3, <1>4 DEF Sound, TurnsApart
  <2> QED
    BY <1>1, <1>4, <2>1 DEF Sound, TurnsApart
<1>10. \A q \in Request : pc'[q] \in Working => q # r /\ pc'[q] = pc[q]
  BY <1>2 DEF Working
<1>11. ASSUME kept, NEW q \in Request, q # r, pc[q] \in Working
       PROVE  job[q].turn \in DOMAIN turns /\ turns'[job[q].turn] = turns[job[q].turn]
  <2>1. job[q].turn \in DOMAIN turns
    BY <1>3, <1>11 DEF Sound, JobsKnown, TypeOK, Informed, Working
  <2>2. job[q].turn # k
    BY <1>1, <1>11 DEF Sound, WorkApart, Working
  <2> QED
    BY <1>4, <2>1, <2>2
<1> HIDE DEF k, a, e
<1>12. WorkCurrent'
  <2>1. ASSUME kept, NEW q \in Request, pc'[q] \in Working
        PROVE  /\ turns'[job[q].turn].state = Pending
               /\ pc'[q] # "bumping" => /\ job[q].send = turns'[job[q].turn].send
                                        /\ job[q].attempt = turns'[job[q].turn].attempts
    BY <1>10, <1>11, <2>1 DEF Sound, WorkCurrent
  <2> QED
    BY <1>1, <2>1 DEF WorkCurrent
<1>13. WorkApart'
  BY <1>1, <1>10 DEF Sound, WorkApart
<1>14. StopsTracked'
  <2>1. \A q \in Request : pc[q] \in Stoppable \cup {"settled"} => pc'[q] \in Stoppable \cup {"settled"}
    BY <1>2
  <2> QED
    BY <1>1, <2>1 DEF Sound, StopsTracked, TypeOK
<1>15. CurrentAttemptStoppable'
  BY <1>1, <1>2 DEF Sound, CurrentAttemptStoppable
<1>16. JoinsLast' /\ FirstInLane' /\ Room'
  BY <1>1, <1>2, <1>4, <1>6 DEF Sound, JoinsLast, FirstInLane, Room
<1>17. AskedFresh'
  <2>1. ASSUME kept, NEW q \in Request, pc'[q] \in Working \ {"asking", "completing", "failing"}
        PROVE  asked[turns'[job[q].turn].send] = 0
    BY <1>10, <1>11, <2>1 DEF Sound, AskedFresh
  <2>2. \A s \in Send : Recorded(turns', s) = Recorded(turns, s)
    BY <1>4 DEF Recorded
  <2> QED
    BY <1>1, <2>1, <2>2 DEF Sound, AskedFresh
<1>18. AskedOncePerAttempt'
  BY <1>1 DEF Sound, AskedOncePerAttempt
<1> QED
  BY <1>5, <1>7, <1>8, <1>9, <1>12, <1>13, <1>14, <1>15, <1>16, <1>17, <1>18 DEF Sound
--------------------------------------------------------------------------------
(* The conversation is deleted, the orchestrator starts again. *)

\* Requests go on without a deleted conversation, and claim nothing of it.
LEMMA DeleteSound ==
    ASSUME Sound, Delete
    PROVE  Sound'
<1>1. /\ kept' = FALSE /\ turns' = <<>>
      /\ UNCHANGED <<admitting, queue, stops, pc, job, full, ctx, context, asked>>
  BY DEF Delete, memory, request
<1>2. InLane' = InLane
  BY <1>1 DEF InLane
<1>3. TypeOK'
  <2>1. <<>> \in Seq(Turn(Send))
    OBVIOUS
  <2>2. turns' \in Seq(Turn(Send)) /\ kept' \in BOOLEAN
    BY <1>1, <2>1
  <2> QED
    BY <1>1, <2>2 DEF Sound, TypeOK
<1>4. LaneHeld' /\ JobsKnown' /\ TurnsApart' /\ WorkCurrent' /\ WorkApart'
  BY <1>1 DEF Sound, LaneHeld, JobsKnown, TurnsApart, WorkCurrent, WorkApart
<1>5. /\ StopsTracked' /\ CurrentAttemptStoppable' /\ JoinsLast' /\ FirstInLane'
      /\ Room' /\ AskedFresh' /\ AskedOncePerAttempt'
  BY <1>1, <1>2 DEF Sound, StopsTracked, CurrentAttemptStoppable, JoinsLast, FirstInLane, Room,
                    AskedFresh, AskedOncePerAttempt
<1> QED
  BY <1>3, <1>4, <1>5 DEF Sound

\* After a restart nobody works on anything: the transcript is all that is left.
LEMMA RestartSound ==
    ASSUME Sound, Restart
    PROVE  Sound'
<1>1. /\ turns' = Interrupted(turns)
      /\ admitting' = None /\ queue' = [r \in Request |-> 0] /\ stops' = [s \in Send |-> None]
      /\ pc' = [r \in Request |-> "idle"] /\ job' = [r \in Request |-> NoJob]
      /\ full' = [r \in Request |-> FALSE] /\ ctx' = [r \in Request |-> "live"]
      /\ context' = [r \in Request |-> {}]
      /\ UNCHANGED <<kept, asked>>
  BY DEF Restart
<1>2. turns \in Seq(Turn(Send)) /\ DOMAIN turns = 1 .. Len(turns)
  BY DEF Sound, TypeOK
<1>3. /\ turns' \in Seq(Turn(Send)) /\ Len(turns') = Len(turns) /\ DOMAIN turns' = DOMAIN turns
      /\ \A i \in DOMAIN turns : turns'[i].send = turns[i].send
  <2>1. turns' \in Seq(Turn(Send)) /\ Len(turns') = Len(turns)
    BY <1>1, <1>2, InterruptedKeeps
  <2>2. \A i \in DOMAIN turns : turns'[i].send = turns[i].send
    BY <1>1, <1>2, InterruptedKeeps
  <2> QED
    BY <1>2, <2>1, <2>2
<1>4. NoJob \in [send : Send \cup {None}, turn : Nat, attempt : Nat] /\ NoJob.turn = 0
  BY DEF NoJob
<1>5. TypeOK'
  <2>1. /\ job' \in [Request -> [send : Send \cup {None}, turn : Nat, attempt : Nat]]
        /\ queue' \in [Request -> Nat] /\ context' \in [Request -> SUBSET Nat]
    BY <1>1, <1>4
  <2>2. /\ stops' \in [Send -> Request \cup {None}] /\ pc' \in [Request -> Place]
        /\ full' \in [Request -> BOOLEAN] /\ ctx' \in [Request -> {"live", "gone", "stopped"}]
    BY <1>1 DEF Place
  <2>3. /\ kept' \in BOOLEAN /\ admitting' \in Request \cup {None}
        /\ turns' \in Seq(Turn(Send)) /\ asked' \in [Send -> Nat]
    BY <1>1, <1>3 DEF Sound, TypeOK
  <2> QED
    BY <2>1, <2>2, <2>3 DEF TypeOK
<1>6. InLane' = {}
  BY <1>1 DEF InLane
<1>7. LaneHeld' /\ WorkCurrent' /\ WorkApart' /\ CurrentAttemptStoppable' /\ FirstInLane'
  BY <1>1, RequestAssumption DEF LaneHeld, InAdmission, Enrolled, WorkCurrent, WorkApart,
                                 Working, CurrentAttemptStoppable, FirstInLane
<1>8. JobsKnown' /\ JoinsLast'
  <2>1. 0 <= Len(turns)
    BY <1>2
  <2> QED
    BY <1>1, <1>3, <1>4, <2>1 DEF JobsKnown, Informed, Working, JoinsLast
<1>9. TurnsApart'
  <2>1. ~kept => turns' = <<>>
    BY <1>2, <1>3 DEF Sound, TurnsApart
  <2> QED
    BY <1>1, <1>3, <2>1 DEF Sound, TurnsApart
<1>10. StopsTracked'
  BY <1>1 DEF StopsTracked
<1>11. Room'
  BY <1>1, <1>6, FS_EmptySet, WaitingAssumption DEF Room
<1>12. AskedFresh' /\ AskedOncePerAttempt'
  <2>1. \A s \in Send : Recorded(turns', s) = Recorded(turns, s)
    BY <1>3 DEF Recorded
  <2> QED
    BY <1>1, <2>1 DEF Sound, AskedFresh, AskedOncePerAttempt, Working
<1> QED
  BY <1>5, <1>7, <1>8, <1>9, <1>10, <1>11, <1>12 DEF Sound

--------------------------------------------------------------------------------
(* What holds whatever fails. *)

\* Waiting, being dispatched, giving up, and what the model answers: the steps
\* of a request that change nothing but its own place.
LEMMA QuietSound ==
    ASSUME Sound, NEW r \in Request,
           \/ StartWait(r) \/ Dispatch(r) \/ StopWaiting(r)
           \/ ReadFails(r) \/ Reply(r) \/ NoReply(r) \/ LoseWrite(r)
    PROVE  Sound'
<1>1. PICK p \in Stoppable \cup {"settled"} :
          /\ pc[r] \in Stoppable /\ Goto(r, p)
          /\ UNCHANGED <<kept, turns, admitting, queue, stops, job, full, ctx, context, asked>>
          /\ p \notin {"tracked", "asking"}
          /\ p = "dispatched" => NothingAhead(r)
          /\ p = "completing" => pc[r] = "asking"
          /\ p \in {"waiting", "dispatched", "unasked"} => pc[r] \in {"tracked", "waiting"}
  <2>1. CASE StartWait(r)
    BY <2>1 DEF StartWait, Stoppable, store, memory
  <2>2. CASE Dispatch(r)
    BY <2>2 DEF Dispatch, Stoppable, store, memory
  <2>3. CASE StopWaiting(r)
    BY <2>3 DEF StopWaiting, Stoppable, store, memory
  <2>4. CASE ReadFails(r)
    BY <2>4 DEF ReadFails, Stoppable, store, memory
  <2>5. CASE Reply(r)
    BY <2>5 DEF Reply, Stoppable, store, memory
  <2>6. CASE NoReply(r)
    BY <2>6 DEF NoReply, Stoppable, store, memory
  <2>7. CASE LoseWrite(r)
    BY <2>7 DEF LoseWrite, Stoppable, store, memory
  <2> QED
    BY <2>1, <2>2, <2>3, <2>4, <2>5, <2>6, <2>7
<1>2. p \in Place
  BY DEF Stoppable, Place, Working
<1>3. TypeOK'
  BY <1>1, <1>2 DEF Goto, Sound, TypeOK
<1> QED
  BY <1>1, <1>3, WalkSound

\* Nothing has happened yet, so nothing is wrong.
LEMMA InitSound == Init => Sound
<1> SUFFICES ASSUME Init
             PROVE  Sound
  OBVIOUS
<1>1. NoJob \in [send : Send \cup {None}, turn : Nat, attempt : Nat] /\ NoJob.turn = 0
  BY DEF NoJob
<1>2. TypeOK
  <2>1. turns \in Seq(Turn(Send)) /\ kept \in BOOLEAN /\ admitting \in Request \cup {None}
    BY DEF Init
  <2>2. /\ job \in [Request -> [send : Send \cup {None}, turn : Nat, attempt : Nat]]
        /\ queue \in [Request -> Nat] /\ context \in [Request -> SUBSET Nat]
    BY <1>1 DEF Init
  <2>3. /\ stops \in [Send -> Request \cup {None}] /\ pc \in [Request -> Place]
        /\ full \in [Request -> BOOLEAN] /\ ctx \in [Request -> {"live", "gone", "stopped"}]
        /\ asked \in [Send -> Nat]
    BY DEF Init, Place
  <2> QED
    BY <2>1, <2>2, <2>3 DEF TypeOK
<1>3. InLane = {}
  BY DEF Init, InLane
<1>4. LaneHeld /\ WorkCurrent /\ WorkApart /\ CurrentAttemptStoppable /\ FirstInLane
  BY RequestAssumption DEF Init, LaneHeld, InAdmission, Enrolled, WorkCurrent, WorkApart,
                           Working, CurrentAttemptStoppable, FirstInLane
<1>5. JobsKnown /\ JoinsLast
  <2>1. Len(turns) = 0
    BY DEF Init
  <2> QED
    BY <1>1, <2>1 DEF Init, JobsKnown, Informed, Working, JoinsLast
<1>6. TurnsApart /\ StopsTracked
  BY DEF Init, TurnsApart, StopsTracked
<1>7. Room
  BY <1>3, FS_EmptySet, WaitingAssumption DEF Init, Room
<1>8. AskedFresh /\ AskedOncePerAttempt
  BY DEF Init, AskedFresh, AskedOncePerAttempt, Working
<1> QED
  BY <1>2, <1>4, <1>5, <1>6, <1>7, <1>8 DEF Sound

\* Every step keeps Sound.
LEMMA NextSound == Sound /\ [Next]_vars => Sound'
<1> SUFFICES ASSUME Sound, [Next]_vars
             PROVE  Sound'
  OBVIOUS
<1>1. CASE UNCHANGED vars
  BY <1>1, ContextSound DEF vars, Sound, TypeOK
<1>2. ASSUME NEW r \in Request,
             (\E s \in Send : SubmitSend(r, s)) \/ (\E i \in DOMAIN turns : SubmitRetry(r, i))
      PROVE  Sound'
  BY <1>2, SubmitSound
<1>3. ASSUME NEW r \in Request, BeginAdmit(r) \/ Record(r) \/ Bump(r)
      PROVE  Sound'
  BY <1>3, BeginAdmitSound, LeaveSound, RecordSendSound, ReopenSound, BumpSound DEF Record, Bump
<1>4. ASSUME NEW r \in Request,
             Proceed(r) \/ Dispatch(r) \/ StopWaiting(r) \/ Answer(r) \/ Leave(r)
      PROVE  Sound'
  BY <1>4, EnrollSound, TrackSound, AskSound, SettleSound, UntrackSound, ReleaseSound, QuietSound
     DEF Proceed, Answer, Leave
<1>5. ASSUME NEW r \in Request, ContextEnds(r)
      PROVE  Sound'
  <2>1. /\ ctx' = [ctx EXCEPT ![r] = "gone"]
        /\ UNCHANGED <<kept, turns, admitting, queue, stops, pc, job, full, context, asked>>
    BY <1>5 DEF ContextEnds, store, memory
  <2>2. TypeOK'
    BY <2>1 DEF Sound, TypeOK
  <2> QED
    BY <2>1, <2>2, ContextSound
<1>6. ASSUME NEW s \in Send, Stop(s)
      PROVE  Sound'
  <2>1. /\ ctx' = [ctx EXCEPT ![stops[s]] = "stopped"]
        /\ UNCHANGED <<kept, turns, admitting, queue, stops, pc, job, full, context, asked>>
    BY <1>6 DEF Stop, store, memory
  <2>2. TypeOK'
    BY <2>1 DEF Sound, TypeOK
  <2> QED
    BY <2>1, <2>2, ContextSound
<1> QED
  BY <1>1, <1>2, <1>3, <1>4, <1>5, <1>6, DeleteSound, RestartSound DEF Next

\* The inductive invariant of the requests, whatever fails.
THEOREM SoundAlways == Spec => []Sound
<1> QED
  BY InitSound, NextSound, PTL DEF Spec

\* Every variable keeps a value of its kind.
THEOREM TypeCorrect == Spec => []TypeOK
<1>1. Sound => TypeOK
  BY DEF Sound
<1> QED
  BY <1>1, SoundAlways, PTL

\* From Track to its outcome, a request is the one conversation.stop reaches
\* for its send, whatever retries, stops, deletions and restarts surround it.
THEOREM StoppableAlways == Spec => []CurrentAttemptStoppable
<1>1. Sound => CurrentAttemptStoppable
  BY DEF Sound
<1> QED
  BY <1>1, SoundAlways, PTL

\* However often a send is repeated, cut off or recovered, the model is asked
\* at most once for every time the owner sent the turn.
THEOREM AskedOnceAlways == Spec => []AskedOncePerAttempt
<1>1. Sound => AskedOncePerAttempt
  BY DEF Sound
<1> QED
  BY <1>1, SoundAlways, PTL


\* The contract OrderedQueue's Admit asks of what it records: a ticket that
\* joins the lane comes after every ticket in it, because it is enrolled before
\* the lane's mutex is given back, at the place of the transcript's last turn.
THEOREM JoinsInOrderAlways == Spec => JoinsInOrder
<1> DEFINE Joins == \A r \in Request : queue[r] = 0 /\ queue'[r] # 0
                       => \A q \in InLane : queue[q] <= queue'[r]
<1>1. Sound /\ [Next]_vars => [Joins]_vars
  <2> SUFFICES ASSUME Sound, [Next]_vars, NEW r \in Request, queue[r] = 0, queue'[r] # 0
               PROVE  \A q \in InLane : queue[q] <= queue'[r]
    OBVIOUS
  <2>1. CASE Enroll(r)
    <3>1. queue'[r] = job[r].turn /\ pc[r] = "enrolling"
      BY <2>1 DEF Enroll, Sound, TypeOK
    <3> QED
      BY <3>1 DEF Sound, JoinsLast, InLane
  <2>2. \A s \in Request : s # r => ~Enroll(s)
    BY DEF Enroll, Sound, TypeOK
  <2>3. \A s \in Request : ~Release(s)
    BY DEF Release, Sound, TypeOK
  <2>4. ~Restart
    BY DEF Restart
  <2>5. queue' # queue
    OBVIOUS
  <2>6. Enroll(r)
    <3>1. ~(UNCHANGED vars) /\ ~Delete /\ \A s \in Send : ~Stop(s)
      BY <2>5 DEF vars, Delete, Stop, memory
    <3>2. ASSUME NEW s \in Request
          PROVE  /\ \A t \in Send : ~SubmitSend(s, t)
                 /\ \A i \in DOMAIN turns : ~SubmitRetry(s, i)
                 /\ ~BeginAdmit(s) /\ ~Record(s) /\ ~Bump(s)
                 /\ ~Track(s) /\ ~StartWait(s) /\ ~Dispatch(s) /\ ~StopWaiting(s)
                 /\ ~Answer(s) /\ ~Leave(s) /\ ~ContextEnds(s)
      BY <2>3, <2>5
         DEF SubmitSend, SubmitRetry, BeginAdmit, Record, AnswerFromArchive, RecordSend,
             ReopenTurn, Bump, BumpRevision, BumpFails, Track, StartWait, Dispatch,
             StopWaiting, Answer, AskModel, ReadFails, Reply, NoReply, Leave, Settle,
             LoseWrite, Untrack, ContextEnds, memory
    <3> QED
      BY <2>2, <2>4, <3>1, <3>2 DEF Next, Proceed
  <2> QED
    BY <2>1, <2>6
<1> QED
  BY <1>1, SoundAlways, PTL DEF Spec, JoinsInOrder

\* A reply, once kept, stays as it is until its conversation is deleted, and no
\* turn changes its place or its send: a new turn comes last, and a statement
\* that finds a turn completed writes nothing.
THEOREM RepliesKeptAlways == Spec => RepliesKept
<1> DEFINE Keeps == kept' => \A i \in DOMAIN turns :
                      /\ i \in DOMAIN turns'
                      /\ turns'[i].send = turns[i].send
                      /\ turns[i].state = "completed" => turns'[i] = turns[i]
<1>1. Sound /\ [Next]_vars => [Keeps]_vars
  <2> SUFFICES ASSUME Sound, [Next]_vars, kept', NEW i \in DOMAIN turns
               PROVE  /\ i \in DOMAIN turns'
                      /\ turns'[i].send = turns[i].send
                      /\ turns[i].state = "completed" => turns'[i] = turns[i]
    OBVIOUS
  <2>1. turns \in Seq(Turn(Send)) /\ DOMAIN turns = 1 .. Len(turns)
    BY DEF Sound, TypeOK
  <2>2. CASE UNCHANGED turns
    BY <2>2
  <2>3. ASSUME NEW r \in Request, RecordSend(r)
        PROVE  i \in DOMAIN turns' /\ turns'[i] = turns[i]
    <3>1. job[r].send \in Send /\ turns' = Append(turns, NewTurn(job[r].send))
      BY <2>3 DEF RecordSend, IsRetry, Sound, JobsKnown
    <3>2. turns' \in Seq(Turn(Send)) /\ Len(turns') = Len(turns) + 1 /\ turns'[i] = turns[i]
      BY <2>1, <3>1, AppendedKeeps
    <3> QED
      BY <2>1, <3>2
  <2>4. ASSUME NEW r \in Request, ReopenTurn(r)
        PROVE  /\ i \in DOMAIN turns' /\ turns'[i].send = turns[i].send
               /\ turns[i].state = "completed" => turns'[i] = turns[i]
    <3>1. /\ turns' = Reopened(turns, job[r].turn) /\ job[r].turn \in DOMAIN turns
          /\ turns[job[r].turn].state \in Retryable
      BY <2>4 DEF ReopenTurn, MayRecord, Reopenable
    <3>2. /\ turns' \in Seq(Turn(Send)) /\ Len(turns') = Len(turns)
          /\ turns'[i].send = turns[i].send /\ (i # job[r].turn => turns'[i] = turns[i])
      BY <2>1, <3>1, ReopenedKeeps
    <3> QED
      BY <2>1, <3>1, <3>2 DEF Retryable
  <2>5. ASSUME NEW r \in Request, Settle(r)
        PROVE  /\ i \in DOMAIN turns' /\ turns'[i].send = turns[i].send
               /\ turns[i].state = "completed" => turns'[i] = turns[i]
    <3>1. PICK k \in Nat, a \in Nat, e \in {"completed", "failed"} :
              turns' = Finished(turns, k, a, e)
      BY <2>5 DEF Settle, Sound, TypeOK
    <3>2. /\ turns' \in Seq(Turn(Send)) /\ Len(turns') = Len(turns)
          /\ turns'[i].send = turns[i].send
          /\ turns[i].state # Pending => turns'[i] = turns[i]
      BY <2>1, <3>1, FinishedKeeps
    <3> QED
      BY <2>1, <3>2 DEF Pending
  <2>6. CASE Restart
    <3>1. turns' = Interrupted(turns)
      BY <2>6 DEF Restart
    <3>2. /\ turns' \in Seq(Turn(Send)) /\ Len(turns') = Len(turns)
          /\ turns'[i].send = turns[i].send
          /\ turns[i].state # Pending => turns'[i] = turns[i]
      BY <2>1, <3>1, InterruptedKeeps
    <3> QED
      BY <2>1, <3>2 DEF Pending
  <2>7. CASE Delete
    BY <2>7 DEF Delete
  <2>8. ASSUME turns' # turns, ~Restart, ~Delete
        PROVE  \E r \in Request : RecordSend(r) \/ ReopenTurn(r) \/ Settle(r)
    <3>1. ~(UNCHANGED vars) /\ \A s \in Send : ~Stop(s)
      BY <2>8 DEF vars, Stop, store
    <3>2. ASSUME NEW s \in Request
          PROVE  /\ \A t \in Send : ~SubmitSend(s, t)
                 /\ \A j \in DOMAIN turns : ~SubmitRetry(s, j)
                 /\ ~BeginAdmit(s) /\ ~AnswerFromArchive(s) /\ ~Bump(s) /\ ~Proceed(s)
                 /\ ~Dispatch(s) /\ ~StopWaiting(s) /\ ~Answer(s)
                 /\ ~LoseWrite(s) /\ ~Untrack(s) /\ ~Release(s) /\ ~ContextEnds(s)
      BY <2>8
         DEF SubmitSend, SubmitRetry, BeginAdmit, AnswerFromArchive, Bump, BumpRevision,
             BumpFails, Proceed, Enroll, Track, StartWait, Dispatch, StopWaiting, Answer,
             AskModel, ReadFails, Reply, NoReply, LoseWrite, Untrack, Release, ContextEnds,
             store
    <3> QED
      BY <2>8, <3>1, <3>2 DEF Next, Record, Leave
  <2> QED
    BY <2>2, <2>3, <2>4, <2>5, <2>6, <2>7, <2>8
<1> QED
  BY <1>1, SoundAlways, PTL DEF Spec, RepliesKept

--------------------------------------------------------------------------------
(* What holds when no statement is lost: every pending turn has its request.  *)

\* While a turn is dispatched, asked for or about to be completed, no earlier
\* turn is pending: whoever works on one would be ahead of it in the lane, or
\* is about to join and has the latest turn of all.
LEMMA NothingPendingBefore ==
    ASSUME Sound, PendingHeld, kept, NEW r \in Request,
           pc[r] \in {"dispatched", "asking", "completing"},
           NEW i \in DOMAIN turns, i < job[r].turn
    PROVE  turns[i].state # Pending
<1> SUFFICES ASSUME turns[i].state = Pending
             PROVE  FALSE
  OBVIOUS
<1>1. PICK q \in Request : pc[q] \in Working /\ job[q].turn = i
  BY DEF PendingHeld
<1>2. job[r].turn \in Nat /\ job[r].turn <= Len(turns) /\ i \in Nat /\ i # 0 /\ Len(turns) \in Nat
  BY DEF Sound, TypeOK, JobsKnown
<1>3. CASE pc[q] \in {"bumping", "enrolling"}
  BY <1>1, <1>2, <1>3 DEF Sound, JoinsLast
<1>4. CASE pc[q] \notin {"bumping", "enrolling"}
  <2>1. queue[q] = i /\ queue[r] = job[r].turn
    BY <1>1, <1>4 DEF Sound, LaneHeld, Working, Enrolled
  <2>2. q \in InLane
    BY <1>2, <2>1 DEF InLane
  <2>3. queue[r] <= queue[q]
    BY <2>2 DEF Sound, FirstInLane
  <2> QED
    BY <1>2, <2>1, <2>3
<1> QED
  BY <1>3, <1>4

\* Answered survives a step that leaves the transcript as it is, gives no
\* request up and asks for nothing.
LEMMA AnsweredQuiet ==
    ASSUME Sound, Answered,
           UNCHANGED <<kept, turns>>,
           \A r \in Request :
              /\ pc[r] \in Working => pc'[r] \in Working /\ job'[r].turn = job[r].turn
              /\ pc'[r] = "bumping" => pc[r] = "bumping" /\ ctx'[r] = ctx[r]
              /\ pc'[r] = "asking" => /\ pc[r] = "asking" /\ job'[r] = job[r]
                                      /\ context'[r] = context[r]
    PROVE  Answered'
<1>1. PendingHeld'
  BY DEF Answered, PendingHeld
<1>2. ContextComplete'
  BY DEF Answered, ContextComplete
<1>3. NoLateReply'
  BY DEF Answered, NoLateReply
<1> QED
  BY <1>1, <1>2, <1>3 DEF Answered

\* A new turn is the last one, and its request works on it.
LEMMA RecordSendAnswered ==
    ASSUME Sound, Answered, NEW r \in Request, RecordSend(r)
    PROVE  Answered'
<1> DEFINE n == Len(turns) + 1
<1>1. /\ pc[r] = "recording" /\ kept /\ job[r].turn = 0 /\ job[r].send \in Send
      /\ turns' = Append(turns, NewTurn(job[r].send))
      /\ pc' = [pc EXCEPT ![r] = "enrolling"]
      /\ job' = [job EXCEPT ![r].turn = Len(turns'), ![r].attempt = 1]
      /\ UNCHANGED <<kept, ctx, context>>
  BY DEF RecordSend, MayRecord, IsRetry, Goto, Sound, JobsKnown
<1>2. turns \in Seq(Turn(Send)) /\ Len(turns) \in Nat /\ DOMAIN turns = 1 .. Len(turns)
  BY DEF Sound, TypeOK
<1>3. /\ turns' \in Seq(Turn(Send)) /\ Len(turns') = n
      /\ \A i \in DOMAIN turns : turns'[i] = turns[i]
      /\ turns'[n].state = Pending
  <2>1. /\ turns' \in Seq(Turn(Send)) /\ Len(turns') = n
        /\ \A i \in DOMAIN turns : turns'[i] = turns[i]
        /\ turns'[n] = NewTurn(job[r].send)
    BY <1>1, <1>2, AppendedKeeps
  <2> QED
    BY <2>1 DEF NewTurn
<1>4. \A i \in DOMAIN turns' : i = n \/ i \in DOMAIN turns
  BY <1>2, <1>3
<1>5. /\ \A q \in Request : /\ pc'[q] = IF q = r THEN "enrolling" ELSE pc[q]
                            /\ q # r => job'[q] = job[q]
      /\ job'[r].turn = n
  <2>1. job[r] \in [send : Send \cup {None}, turn : Nat, attempt : Nat]
    BY DEF Sound, TypeOK
  <2> QED
    BY <1>1, <1>3, <2>1 DEF Sound, TypeOK
<1>6. PendingHeld'
  <2>1. ASSUME NEW i \in DOMAIN turns', turns'[i].state = Pending
        PROVE  \E q \in Request : pc'[q] \in Working /\ job'[q].turn = i
    <3>1. CASE i = n
      BY <1>5, <3>1 DEF Working
    <3>2. CASE i \in DOMAIN turns
      <4>1. PICK q \in Request : pc[q] \in Working /\ job[q].turn = i
        BY <1>3, <2>1, <3>2 DEF Answered, PendingHeld
      <4> QED
        BY <1>1, <1>5, <4>1 DEF Working
    <3> QED
      BY <1>4, <3>1, <3>2
  <2>2. ASSUME NEW q \in Request, pc'[q] = "bumping"
        PROVE  ctx'[q] = "live"
    BY <1>1, <1>5, <2>2 DEF Answered, PendingHeld
  <2> QED
    BY <2>1, <2>2 DEF PendingHeld
<1>7. ContextComplete'
  <2>1. ASSUME NEW q \in Request, pc'[q] = "asking", NEW i \in 1 .. job'[q].turn - 1
        PROVE  turns'[i].state # Pending /\ (turns'[i].state = "completed" <=> i \in context[q])
    <3>1. pc[q] = "asking" /\ job'[q] = job[q]
      BY <1>5, <2>1
    <3>2. job[q].turn \in Nat /\ job[q].turn <= Len(turns)
      BY <1>1 DEF Sound, TypeOK, JobsKnown
    <3>3. i \in DOMAIN turns
      BY <1>2, <3>1, <3>2
    <3> QED
      BY <1>1, <1>3, <3>1, <3>3 DEF Answered, ContextComplete
  <2> QED
    BY <1>1, <2>1 DEF ContextComplete
<1>8. NoLateReply'
  <2>1. \A i, j \in DOMAIN turns' : i < j => i \in DOMAIN turns
    BY <1>2, <1>3
  <2>2. turns'[n].state # "completed"
    BY <1>3 DEF Pending
  <2> HIDE DEF n
  <2> QED
    BY <1>3, <1>4, <2>1, <2>2 DEF Answered, NoLateReply
<1> QED
  BY <1>6, <1>7, <1>8 DEF Answered


\* A reopened turn is the last one, and its request works on it.
LEMMA ReopenAnswered ==
    ASSUME Sound, Answered, NEW r \in Request, ReopenTurn(r)
    PROVE  Answered'
<1> DEFINE k == job[r].turn
<1>1. /\ pc[r] = "recording" /\ kept /\ ctx[r] = "live"
      /\ k \in DOMAIN turns /\ k = Len(turns)
      /\ turns' = Reopened(turns, k)
      /\ pc' = [pc EXCEPT ![r] = "bumping"]
      /\ UNCHANGED <<kept, job, ctx, context>>
  BY DEF ReopenTurn, MayRecord, Reopenable, Goto
<1>2. turns \in Seq(Turn(Send)) /\ DOMAIN turns = 1 .. Len(turns) /\ Len(turns) \in Nat
  BY DEF Sound, TypeOK
<1>3. /\ turns' \in Seq(Turn(Send)) /\ DOMAIN turns' = DOMAIN turns
      /\ \A i \in DOMAIN turns : i # k => turns'[i] = turns[i]
      /\ turns'[k].state = Pending
  <2>1. turns' \in Seq(Turn(Send)) /\ Len(turns') = Len(turns) /\ turns'[k].state = Pending
    BY <1>1, <1>2, ReopenedKeeps
  <2>2. \A i \in DOMAIN turns : i # k => turns'[i] = turns[i]
    BY <1>1, <1>2, ReopenedKeeps
  <2> QED
    BY <1>2, <2>1, <2>2
<1>4. \A q \in Request : pc'[q] = IF q = r THEN "bumping" ELSE pc[q]
  BY <1>1 DEF Sound, TypeOK
<1>5. PendingHeld'
  <2>1. ASSUME NEW i \in DOMAIN turns', turns'[i].state = Pending
        PROVE  \E q \in Request : pc'[q] \in Working /\ job'[q].turn = i
    <3>1. CASE i = k
      BY <1>1, <1>4, <3>1 DEF Working
    <3>2. CASE i # k
      <4>1. PICK q \in Request : pc[q] \in Working /\ job[q].turn = i
        BY <1>3, <2>1, <3>2 DEF Answered, PendingHeld
      <4>2. q # r
        BY <3>2, <4>1
      <4> QED
        BY <1>1, <1>4, <4>1, <4>2
    <3> QED
      BY <3>1, <3>2
  <2>2. ASSUME NEW q \in Request, pc'[q] = "bumping"
        PROVE  ctx'[q] = "live"
    BY <1>1, <1>4, <2>2 DEF Answered, PendingHeld
  <2> QED
    BY <2>1, <2>2 DEF PendingHeld
<1>6. ContextComplete'
  <2>1. ASSUME NEW q \in Request, pc'[q] = "asking", NEW i \in 1 .. job[q].turn - 1
        PROVE  turns'[i].state # Pending /\ (turns'[i].state = "completed" <=> i \in context[q])
    <3>1. pc[q] = "asking" /\ job[q].turn \in Nat /\ job[q].turn <= Len(turns)
      BY <1>1, <1>4, <2>1 DEF Sound, TypeOK, JobsKnown
    <3>2. i \in DOMAIN turns /\ i # k
      <4> HIDE DEF k
      <4> QED
        BY <1>1, <1>2, <3>1
    <3> QED
      BY <1>1, <1>3, <3>1, <3>2 DEF Answered, ContextComplete
  <2> QED
    BY <1>1, <2>1 DEF ContextComplete
<1>7. NoLateReply'
  <2>1. ASSUME NEW i \in DOMAIN turns', NEW j \in DOMAIN turns', i < j, turns'[i].state = Pending
        PROVE  turns'[j].state # "completed"
    <3>1. i # k
      BY <1>1, <1>2, <1>3, <2>1
    <3>2. CASE j = k
      BY <1>3, <3>2 DEF Pending
    <3>3. CASE j # k
      BY <1>3, <2>1, <3>1, <3>3 DEF Answered, NoLateReply
    <3> QED
      BY <3>2, <3>3
  <2> QED
    BY <2>1 DEF NoLateReply
<1> QED
  BY <1>5, <1>6, <1>7 DEF Answered

\* What is dispatched finds every earlier turn settled, and takes as context
\* the replies there are.
LEMMA AskAnswered ==
    ASSUME Sound, Answered, NEW r \in Request, AskModel(r)
    PROVE  Answered'
<1>1. /\ pc[r] = "dispatched" /\ kept /\ pc' = [pc EXCEPT ![r] = "asking"]
      /\ context' = [context EXCEPT ![r] = ContextTurns(turns, job[r].turn)]
      /\ UNCHANGED <<kept, turns, job, ctx>>
  BY DEF AskModel, Goto, store
<1>2. \A q \in Request : /\ pc'[q] = IF q = r THEN "asking" ELSE pc[q]
                         /\ context'[q] = IF q = r THEN ContextTurns(turns, job[r].turn)
                                          ELSE context[q]
  BY <1>1 DEF Sound, TypeOK
<1>3. PendingHeld' /\ NoLateReply'
  <2>1. \A q \in Request : pc[q] \in Working => pc'[q] \in Working
    BY <1>2 DEF Working
  <2> QED
    BY <1>1, <1>2, <2>1 DEF Answered, PendingHeld, NoLateReply
<1>4. ContextComplete'
  <2>1. ASSUME NEW i \in 1 .. job[r].turn - 1
        PROVE  /\ turns[i].state # Pending
               /\ turns[i].state = "completed" <=> i \in ContextTurns(turns, job[r].turn)
    <3>1. i \in DOMAIN turns /\ i < job[r].turn
      <4>1. /\ job[r].turn \in Nat /\ job[r].turn <= Len(turns)
            /\ DOMAIN turns = 1 .. Len(turns) /\ Len(turns) \in Nat
        BY <1>1 DEF Sound, TypeOK, JobsKnown
      <4> QED
        BY <4>1
    <3>2. turns[i].state # Pending
      BY <1>1, <3>1, NothingPendingBefore DEF Answered
    <3>3. i # job[r].turn
      BY <3>1 DEF Sound, TypeOK
    <3> QED
      BY <3>1, <3>2, <3>3 DEF ContextTurns
  <2> QED
    BY <1>1, <1>2, <2>1 DEF Answered, ContextComplete
<1> QED
  BY <1>3, <1>4 DEF Answered

\* Settling a turn takes away its request together with its being pending, and
\* a reply lands behind no turn that still waits for one.
LEMMA SettleAnswered ==
    ASSUME Sound, Answered, NEW r \in Request, Settle(r)
    PROVE  Answered'
<1> DEFINE k == job[r].turn
           a == job[r].attempt
           e == IF pc[r] = "completing" THEN "completed" ELSE "failed"
<1>1. /\ pc[r] \in {"completing", "failing", "unasked"}
      /\ turns' = Finished(turns, k, a, e)
      /\ pc' = [pc EXCEPT ![r] = "settled"]
      /\ UNCHANGED <<kept, job, ctx, context>>
  BY DEF Settle, Goto
<1>2. /\ turns \in Seq(Turn(Send)) /\ DOMAIN turns = 1 .. Len(turns)
      /\ k \in Nat /\ a \in Nat /\ e \in {"completed", "failed"}
  BY DEF Sound, TypeOK
<1>3. kept /\ k \in DOMAIN turns => Finishable(turns, k, a)
  BY <1>1 DEF Sound, WorkCurrent, Finishable, Working
<1>4. /\ turns' \in Seq(Turn(Send)) /\ DOMAIN turns' = DOMAIN turns
      /\ \A i \in DOMAIN turns : i # k => turns'[i] = turns[i]
      /\ kept /\ k \in DOMAIN turns => turns'[k].state = e
  <2> HIDE DEF k, a, e
  <2>1. turns' \in Seq(Turn(Send)) /\ Len(turns') = Len(turns)
    BY <1>1, <1>2, FinishedKeeps
  <2>2. \A i \in DOMAIN turns : i # k => turns'[i] = turns[i]
    BY <1>1, <1>2, FinishedKeeps
  <2>3. Finishable(turns, k, a) => turns'[k].state = e
    BY <1>1, <1>2, FinishedKeeps
  <2> QED
    BY <1>2, <1>3, <2>1, <2>2, <2>3
<1>5. \A q \in Request : pc'[q] = IF q = r THEN "settled" ELSE pc[q]
  BY <1>1 DEF Sound, TypeOK
<1>6. ~kept => DOMAIN turns = {}
  BY DEF Sound, TurnsApart
<1>7. PendingHeld'
  <2>1. ASSUME NEW i \in DOMAIN turns', turns'[i].state = Pending
        PROVE  \E q \in Request : pc'[q] \in Working /\ job'[q].turn = i
    <3>1. i # k /\ turns[i].state = Pending /\ i \in DOMAIN turns
      BY <1>2, <1>4, <1>6, <2>1 DEF Pending
    <3>2. PICK q \in Request : pc[q] \in Working /\ job[q].turn = i
      BY <3>1 DEF Answered, PendingHeld
    <3>3. q # r
      BY <3>1, <3>2
    <3> QED
      BY <1>1, <1>5, <3>2, <3>3
  <2>2. ASSUME NEW q \in Request, pc'[q] = "bumping"
        PROVE  ctx'[q] = "live"
    BY <1>1, <1>5, <2>2 DEF Answered, PendingHeld
  <2> QED
    BY <2>1, <2>2 DEF PendingHeld
<1>8. ContextComplete'
  <2>1. ASSUME kept, NEW q \in Request, pc'[q] = "asking", NEW i \in 1 .. job[q].turn - 1
        PROVE  turns'[i].state # Pending /\ (turns'[i].state = "completed" <=> i \in context[q])
    <3>1. pc[q] = "asking" /\ i \in DOMAIN turns
      <4>1. pc[q] = "asking"
        BY <1>5, <2>1
      <4>2. job[q].turn \in Nat /\ job[q].turn <= Len(turns) /\ Len(turns) \in Nat
        BY <2>1 DEF Sound, TypeOK, JobsKnown
      <4> QED
        BY <1>2, <4>1, <4>2
    <3>2. turns[i].state # Pending /\ (turns[i].state = "completed" <=> i \in context[q])
      BY <2>1, <3>1 DEF Answered, ContextComplete
    <3>3. i # k
      BY <1>1, <2>1, <3>2 DEF Sound, WorkCurrent, Working
    <3> QED
      BY <1>4, <3>1, <3>2, <3>3
  <2> QED
    BY <1>1, <2>1 DEF ContextComplete
<1>9. NoLateReply'
  <2>1. ASSUME NEW i \in DOMAIN turns', NEW j \in DOMAIN turns', i < j, turns'[i].state = Pending
        PROVE  turns'[j].state # "completed"
    <3>1. i # k /\ turns[i].state = Pending /\ kept /\ i \in DOMAIN turns
      BY <1>2, <1>4, <1>6, <2>1 DEF Pending
    <3>2. CASE j = k
      <4>1. pc[r] # "completing"
        BY <2>1, <3>1, <3>2, NothingPendingBefore DEF Answered
      <4> QED
        BY <1>2, <1>4, <2>1, <3>1, <3>2, <4>1
    <3>3. CASE j # k
      BY <1>4, <2>1, <3>1, <3>3 DEF Answered, NoLateReply
    <3> QED
      BY <3>2, <3>3
  <2> QED
    BY <2>1 DEF NoLateReply
<1> QED
  BY <1>7, <1>8, <1>9 DEF Answered


\* Without a conversation there is nothing to answer.
LEMMA GoneAnswered ==
    ASSUME ~kept', turns' = <<>>,
           \A r \in Request : pc'[r] = "bumping" => ctx'[r] = "live"
    PROVE  Answered'
<1>1. DOMAIN turns' = {}
  OBVIOUS
<1> QED
  BY <1>1 DEF Answered, PendingHeld, ContextComplete, NoLateReply

\* Recovery leaves nothing pending, and nobody asks for anything.
LEMMA RestartAnswered ==
    ASSUME Sound, Restart
    PROVE  Answered'
<1>1. turns' = Interrupted(turns) /\ pc' = [r \in Request |-> "idle"]
  BY DEF Restart
<1>2. turns \in Seq(Turn(Send)) /\ DOMAIN turns = 1 .. Len(turns)
  BY DEF Sound, TypeOK
<1>3. \A i \in DOMAIN turns' : turns'[i].state # Pending
  <2>1. turns' \in Seq(Turn(Send)) /\ Len(turns') = Len(turns)
    BY <1>1, <1>2, InterruptedKeeps
  <2>2. \A i \in DOMAIN turns : turns'[i].state # Pending
    BY <1>1, <1>2, InterruptedKeeps
  <2> QED
    BY <1>2, <2>1, <2>2
<1> QED
  BY <1>1, <1>3 DEF Answered, PendingHeld, ContextComplete, NoLateReply

\* Every step keeps Answered, when no statement is lost.
LEMMA NextAnswered ==
    ASSUME NothingLost, Sound, Answered, [Next]_vars
    PROVE  Answered'
<1>1. CASE UNCHANGED vars
  BY <1>1, AnsweredQuiet DEF vars
<1>2. ASSUME NEW r \in Request,
             (\E s \in Send : SubmitSend(r, s)) \/ (\E i \in DOMAIN turns : SubmitRetry(r, i))
      PROVE  Answered'
  <2>1. /\ pc[r] = "idle" /\ pc' = [pc EXCEPT ![r] = "arrived"]
        /\ \A q \in Request : q # r => job'[q] = job[q]
        /\ UNCHANGED <<kept, turns, ctx, context>>
    BY <1>2 DEF SubmitSend, SubmitRetry, Goto, store, Sound, TypeOK
  <2>2. \A q \in Request : pc'[q] = IF q = r THEN "arrived" ELSE pc[q]
    BY <2>1 DEF Sound, TypeOK
  <2> QED
    BY <2>1, <2>2, AnsweredQuiet DEF Working
<1>3. ASSUME NEW r \in Request, AnswerFromArchive(r) \/ Release(r)
      PROVE  Answered'
  <2>1. pc[r] \in {"recording", "finished"} /\ End(r) /\ UNCHANGED <<kept, turns>>
    BY <1>3 DEF AnswerFromArchive, Release, store
  <2>2. \A q \in Request : /\ pc'[q] = IF q = r THEN "idle" ELSE pc[q]
                           /\ q # r => /\ job'[q] = job[q] /\ context'[q] = context[q]
                                       /\ ctx'[q] = ctx[q]
    BY <2>1 DEF End, Goto, Sound, TypeOK
  <2> QED
    BY <2>1, <2>2, AnsweredQuiet DEF Working
<1>4. ASSUME NEW r \in Request, BumpFails(r)
      PROVE  Answered'
  <2>1. pc[r] = "bumping" /\ End(r) /\ UNCHANGED <<kept, turns>>
    BY <1>4 DEF BumpFails, store
  <2>2. ~kept /\ turns = <<>>
    BY <1>4, <2>1 DEF BumpFails, Answered, PendingHeld, Sound, TurnsApart
  <2>3. \A q \in Request : pc'[q] = "bumping" => pc[q] = "bumping" /\ ctx'[q] = ctx[q]
    BY <2>1 DEF End, Goto, Sound, TypeOK
  <2> QED
    BY <2>1, <2>2, <2>3, GoneAnswered DEF Answered, PendingHeld
<1>5. ASSUME NEW r \in Request, BumpRevision(r)
      PROVE  Answered'
  <2>1. /\ pc[r] = "bumping" /\ pc' = [pc EXCEPT ![r] = "enrolling"]
        /\ UNCHANGED <<kept, turns, ctx, context>>
        /\ \A q \in Request : q # r => job'[q] = job[q]
    BY <1>5 DEF BumpRevision, Goto, store, Sound, TypeOK
  <2>2. job'[r].turn = job[r].turn
    BY <1>5 DEF BumpRevision, Sound, TypeOK
  <2>3. \A q \in Request : pc'[q] = IF q = r THEN "enrolling" ELSE pc[q]
    BY <2>1 DEF Sound, TypeOK
  <2> QED
    BY <2>1, <2>2, <2>3, AnsweredQuiet DEF Working
<1>6. ASSUME NEW r \in Request,
             \/ BeginAdmit(r) \/ Proceed(r) \/ Dispatch(r) \/ StopWaiting(r)
             \/ ReadFails(r) \/ Reply(r) \/ NoReply(r) \/ Untrack(r)
      PROVE  Answered'
  <2>1. PICK p \in Place :
            /\ pc' = [pc EXCEPT ![r] = p] /\ p \notin {"bumping", "asking"}
            /\ pc[r] \in Working => p \in Working
            /\ UNCHANGED <<kept, turns, job, ctx, context>>
    <3>1. CASE BeginAdmit(r)
      BY <3>1 DEF BeginAdmit, Goto, store, Place, Working
    <3>2. CASE Proceed(r)
      BY <3>2 DEF Proceed, Enroll, Track, StartWait, Goto, store, memory, Place, Working
    <3>3. CASE Dispatch(r) \/ StopWaiting(r)
      BY <3>3 DEF Dispatch, StopWaiting, Goto, store, Place, Working
    <3>4. CASE ReadFails(r) \/ Reply(r) \/ NoReply(r)
      BY <3>4 DEF ReadFails, Reply, NoReply, Goto, store, Place, Working
    <3>5. CASE Untrack(r)
      BY <3>5 DEF Untrack, Goto, store, Place, Working
    <3> QED
      BY <1>6, <3>1, <3>2, <3>3, <3>4, <3>5
  <2>2. \A q \in Request : pc'[q] = IF q = r THEN p ELSE pc[q]
    BY <2>1 DEF Sound, TypeOK
  <2> QED
    BY <2>1, <2>2, AnsweredQuiet
<1>7. ASSUME NEW r \in Request, ContextEnds(r)
      PROVE  Answered'
  <2>1. /\ pc[r] # "bumping" /\ ctx' = [ctx EXCEPT ![r] = "gone"]
        /\ UNCHANGED <<kept, turns, pc, job, context>>
    BY <1>7 DEF ContextEnds, NothingLost, store
  <2> QED
    BY <2>1, AnsweredQuiet DEF Sound, TypeOK
<1>8. ASSUME NEW s \in Send, Stop(s)
      PROVE  Answered'
  <2>1. /\ stops[s] # None /\ ctx' = [ctx EXCEPT ![stops[s]] = "stopped"]
        /\ UNCHANGED <<kept, turns, pc, job, context>>
    BY <1>8 DEF Stop, store
  <2>2. pc[stops[s]] # "bumping"
    BY <2>1 DEF Sound, StopsTracked, Stoppable
  <2> QED
    BY <2>1, <2>2, AnsweredQuiet DEF Sound, TypeOK
<1>9. CASE Delete
  <2>1. ~kept' /\ turns' = <<>> /\ UNCHANGED <<pc, ctx>>
    BY <1>9 DEF Delete, request
  <2> QED
    BY <2>1, GoneAnswered DEF Answered, PendingHeld
<1>10. \A r \in Request : ~LoseWrite(r)
  BY DEF LoseWrite, NothingLost
<1> QED
  BY <1>1, <1>2, <1>3, <1>4, <1>5, <1>6, <1>7, <1>8, <1>9, <1>10,
     RecordSendAnswered, ReopenAnswered, AskAnswered, SettleAnswered, RestartAnswered
     DEF Next, Record, Bump, Answer, Leave


\* The inductive invariant of the requests when no statement is lost.
THEOREM AnsweredAlways ==
    ASSUME NothingLost
    PROVE  Spec => []Answered
<1>1. Init => Answered
  BY DEF Init, Answered, PendingHeld, ContextComplete, NoLateReply
<1>2. Sound /\ Answered /\ [Next]_vars => Answered'
  BY NextAnswered
<1> QED
  BY <1>1, <1>2, SoundAlways, PTL DEF Spec

\* While the model is asked for a turn no earlier turn is pending, and every
\* earlier reply is in its context: the ticket outlives the turn's outcome.
THEOREM ContextCompleteAlways ==
    ASSUME NothingLost
    PROVE  Spec => []ContextComplete
<1>1. Answered => ContextComplete
  BY DEF Answered
<1> QED
  BY <1>1, AnsweredAlways, PTL

\* No turn is answered while an earlier one may still be, in any order of
\* sends, retries and stops, since only the latest turn can be sent again.
THEOREM NoLateReplyAlways ==
    ASSUME NothingLost
    PROVE  Spec => []NoLateReply
<1>1. Answered => NoLateReply
  BY DEF Answered
<1> QED
  BY <1>1, AnsweredAlways, PTL

\* A turn the archive shows pending is the business of exactly one live
\* request, at the turn's current attempt.
THEOREM PendingOwnedAlways ==
    ASSUME NothingLost
    PROVE  Spec => []PendingOwned
<1>1. Sound /\ Answered => PendingOwned
  <2> SUFFICES ASSUME Sound, Answered, NEW i \in DOMAIN turns, turns[i].state = Pending
               PROVE  Cardinality(Answering(i)) = 1
    BY DEF PendingOwned
  <2>1. PICK r \in Request : pc[r] \in Working /\ job[r].turn = i
    BY DEF Answered, PendingHeld
  <2>2. kept
    BY DEF Sound, TurnsApart
  <2>3. r \in Answering(i)
    BY <2>1, <2>2 DEF Answering, Sound, WorkCurrent
  <2>4. \A q \in Answering(i) : q = r
    BY <2>1 DEF Answering, Sound, WorkApart
  <2>5. Answering(i) = {r}
    BY <2>3, <2>4
  <2> QED
    BY <2>5, FS_Singleton
<1> QED
  BY <1>1, SoundAlways, AnsweredAlways, PTL

\* maxWaitingSends bounds the archive's pending turns, although a turn is
\* recorded before its ticket is counted: every pending turn has a request of
\* its own, enrolled or admitted with room for it, so no two of them share one.
THEOREM PendingBoundedAlways ==
    ASSUME NothingLost
    PROVE  Spec => []PendingBounded
<1> DEFINE Open == {i \in DOMAIN turns : turns[i].state = Pending}
           AtWork == {r \in Request : pc[r] \in Working}
           worker == [i \in Open |-> CHOOSE r \in AtWork : job[r].turn = i]
<1>1. Sound => IsFiniteSet(AtWork) /\ Cardinality(AtWork) <= MaxWaiting
  <2> SUFFICES ASSUME Sound
               PROVE  IsFiniteSet(AtWork) /\ Cardinality(AtWork) <= MaxWaiting
    OBVIOUS
  <2>1. AtWork \in SUBSET Request
    OBVIOUS
  <2>2. IsFiniteSet(AtWork) /\ Cardinality(AtWork) \in Nat
    BY <2>1, RequestAssumption, FS_Subset, FS_CardinalityType
  <2>3. \A r \in AtWork : pc[r] \in {"bumping", "enrolling"} \/ r \in InLane
    BY DEF Sound, LaneHeld, JobsKnown, Informed, Working, Enrolled, InLane
  <2>4. CASE \E r \in Request : pc[r] \in {"bumping", "enrolling"}
    <3>1. PICK r \in Request : pc[r] \in {"bumping", "enrolling"}
      BY <2>4
    <3>2. Cardinality(InLane) < MaxWaiting
      BY <3>1 DEF Sound, Room
    <3>3. AtWork \in SUBSET (InLane \cup {r})
      BY <2>3, <3>1 DEF Sound, LaneHeld, InAdmission
    <3>4. IsFiniteSet(InLane \cup {r}) /\ Cardinality(InLane \cup {r}) <= Cardinality(InLane) + 1
          /\ Cardinality(InLane \cup {r}) \in Nat
      BY LaneFinite, FS_AddElement, FS_CardinalityType
    <3>5. Cardinality(AtWork) <= Cardinality(InLane \cup {r})
      BY <3>3, <3>4, FS_Subset
    <3> HIDE DEF AtWork
    <3> QED
      BY <2>2, <3>2, <3>4, <3>5, LaneFinite, WaitingAssumption
  <2>5. CASE ~\E r \in Request : pc[r] \in {"bumping", "enrolling"}
    <3>1. AtWork \in SUBSET InLane
      BY <2>3, <2>5
    <3>2. Cardinality(AtWork) <= Cardinality(InLane) /\ Cardinality(InLane) <= MaxWaiting
      BY <3>1, LaneFinite, FS_Subset DEF Sound, Room
    <3> HIDE DEF AtWork
    <3> QED
      BY <2>2, <3>2, LaneFinite, WaitingAssumption
  <2> QED
    BY <2>4, <2>5
<1>2. Sound /\ Answered => PendingBounded
  <2> SUFFICES ASSUME Sound, Answered
               PROVE  Cardinality(Open) <= MaxWaiting
    BY DEF PendingBounded
  <2>1. \A i \in Open : worker[i] \in AtWork /\ job[worker[i]].turn = i
    <3> TAKE i \in Open
    <3>1. \E r \in AtWork : job[r].turn = i
      BY DEF Answered, PendingHeld
    <3> QED
      BY <3>1
  <2> HIDE DEF worker, Open, AtWork
  <2>2. worker \in [Open -> AtWork]
    BY <2>1 DEF worker
  <2>3. \A i, j \in Open : worker[i] = worker[j] => i = j
    BY <2>1
  <2>4. worker \in Injection(Open, AtWork)
    BY <2>2, <2>3 DEF Injection, IsInjective
  <2>5. Cardinality(Open) <= Cardinality(AtWork) /\ IsFiniteSet(Open)
    BY <1>1, <2>4, FS_Injection
  <2> QED
    BY <1>1, <2>5, FS_CardinalityType, WaitingAssumption
<1> QED
  BY <1>2, SoundAlways, AnsweredAlways, PTL

================================================================================
