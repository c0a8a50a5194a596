----------------------------- MODULE ArchivedSends -----------------------------
(***************************************************************************)
(* One archived conversation being answered: ChatDomainHandler's           *)
(* answerArchived (dokja_orch/internal/handlers/chat_archive.go) with the  *)
(* queue lane, the running sends and the transcript it works on.           *)
(*                                                                         *)
(* A request is one goroutine answering one send or retry, and may answer  *)
(* another afterwards.  The lane is what OrderedQueue is proved to offer:  *)
(* one admission at a time, and dispatch when no earlier position is left. *)
(* That holds for callers whose positions join in order, which is checked  *)
(* here (JoinsInOrder).  Conversation revisions and titles are not kept.   *)
(***************************************************************************)
EXTENDS Transcript, FiniteSets

CONSTANTS
    Request,      \* the goroutines
    Send,         \* send ids
    MaxWaiting,   \* maxWaitingSends
    MaxAttempts,  \* bound of the model: a turn is retried while below it
    Faults,       \* which failures may happen, see below
    None

\* Restart: the orchestrator stops at any point and starts again.
\* Delete: the owner deletes the conversation.
\* RetryCut: the request's context ends between the statements of retryTurn.
\* LostWrite: the statement that should settle a turn fails.
KnownFaults == {"Restart", "Delete", "RetryCut", "LostWrite"}

ASSUME FaultsAssumption  == Faults \subseteq KnownFaults
ASSUME WaitingAssumption == MaxWaiting \in Nat \ {0}
ASSUME RequestAssumption == IsFiniteSet(Request) /\ None \notin Request \cup Send

VARIABLES
    kept,       \* the conversation exists
    turns,      \* its transcript
    admitting,  \* the request admitting to the lane, or None
    queue,      \* queue[r]: the position of r's ticket, or 0
    stops,      \* stops[s]: the attempt to stop for send s, or None
    pc,         \* where each request is
    job,        \* what each request answers: send, turn, attempt
    full,       \* whether the lane was full when r's admission read it
    ctx,        \* "live", "gone" (caller gone or deadline) or "stopped" (owner)
    context,    \* the turns given to the model as context
    asked       \* how often the model was asked for a send since it was last sent

store    == <<kept, turns>>
memory   == <<admitting, queue, stops>>
request  == <<pc, job, full, ctx, context>>
vars     == <<kept, turns, admitting, queue, stops, pc, job, full, ctx, context, asked>>

NoJob == [send |-> None, turn |-> 0, attempt |-> 0]

\* A request that has recorded its turn and not yet settled it.
Working == {"bumping", "enrolling", "admitted", "tracked", "waiting", "unasked",
            "dispatched", "asking", "completing", "failing"}
Place   == Working \cup {"idle", "arrived", "recording", "settled", "finished"}

InLane == {r \in Request : queue[r] # 0}

Init ==
    /\ kept = TRUE
    /\ turns = <<>>
    /\ admitting = None
    /\ queue = [r \in Request |-> 0]
    /\ stops = [s \in Send |-> None]
    /\ pc = [r \in Request |-> "idle"]
    /\ job = [r \in Request |-> NoJob]
    /\ full = [r \in Request |-> FALSE]
    /\ ctx = [r \in Request |-> "live"]
    /\ context = [r \in Request |-> {}]
    /\ asked = [s \in Send |-> 0]
--------------------------------------------------------------------------------
Goto(r, place) == pc' = [pc EXCEPT ![r] = place]

\* A request answers its caller and is forgotten.
End(r) ==
    /\ Goto(r, "idle")
    /\ job' = [job EXCEPT ![r] = NoJob]
    /\ full' = [full EXCEPT ![r] = FALSE]
    /\ ctx' = [ctx EXCEPT ![r] = "live"]
    /\ context' = [context EXCEPT ![r] = {}]

\* A new message, or the same send id again; archive.Get found the conversation.
SubmitSend(r, s) ==
    /\ pc[r] = "idle" /\ kept
    /\ job' = [job EXCEPT ![r] = [NoJob EXCEPT !.send = s]]
    /\ Goto(r, "arrived")
    /\ UNCHANGED <<store, memory, full, ctx, context, asked>>

\* The owner asks for an earlier turn to be sent again.
SubmitRetry(r, i) ==
    /\ pc[r] = "idle" /\ kept
    /\ turns[i].attempts < MaxAttempts
    /\ job' = [job EXCEPT ![r] = [NoJob EXCEPT !.turn = i]]
    /\ Goto(r, "arrived")
    /\ UNCHANGED <<store, memory, full, ctx, context, asked>>

\* Altered: one ticket more than the bound is let in.
BeginAdmitOneMore(r) ==
    /\ pc[r] = "arrived"
    /\ admitting = None
    /\ admitting' = r
    /\ full' = [full EXCEPT ![r] = Cardinality(InLane) > MaxWaiting]
    /\ Goto(r, "recording")
    /\ UNCHANGED <<store, queue, stops, job, ctx, context, asked>>

\* sends.Admit: the lane's mutex, then whether the lane is full.
BeginAdmit(r) ==
    /\ pc[r] = "arrived"
    /\ admitting = None
    /\ admitting' = r
    /\ full' = [full EXCEPT ![r] = Cardinality(InLane) >= MaxWaiting]
    /\ Goto(r, "recording")
    /\ UNCHANGED <<store, queue, stops, job, ctx, context, asked>>

IsRetry(r) == job[r].turn # 0

\* Altered: the send id is not looked up before a turn is appended.
MayRecordAgain(r) ==
    /\ ~full[r] /\ kept /\ ctx[r] = "live"
    /\ IsRetry(r) => Reopenable(turns, job[r].turn)

\* What record may write: nothing for a full lane, a deleted conversation or an
\* ended context; otherwise a send id not yet recorded, or a turn to reopen.
MayRecord(r) ==
    /\ ~full[r] /\ kept /\ ctx[r] = "live"
    /\ IF IsRetry(r) THEN Reopenable(turns, job[r].turn)
                     ELSE Recorded(turns, job[r].send) = {}

\* The send is refused, or answered from the archive: its turn's reply, "still
\* on its way", or why it got none.  Nothing is written and nothing enrolled.
AnswerFromArchive(r) ==
    /\ pc[r] = "recording"
    /\ ~MayRecord(r)
    /\ admitting' = None
    /\ End(r)
    /\ UNCHANGED <<store, queue, stops, asked>>

\* Archive.Send: the turn is appended, pending, in one transaction.
RecordSend(r) ==
    /\ pc[r] = "recording"
    /\ ~IsRetry(r) /\ MayRecord(r)
    /\ turns' = Append(turns, NewTurn(job[r].send))
    /\ job' = [job EXCEPT ![r].turn = Len(turns'), ![r].attempt = 1]
    /\ Goto(r, "enrolling")
    /\ UNCHANGED <<kept, memory, full, ctx, context, asked>>

\* RetryInConversation, first statement: the turn is pending again.
ReopenTurn(r) ==
    /\ pc[r] = "recording"
    /\ IsRetry(r) /\ MayRecord(r)
    /\ turns' = Reopened(turns, job[r].turn)
    /\ asked' = [asked EXCEPT ![turns[job[r].turn].send] = 0]
    /\ Goto(r, "bumping")
    /\ UNCHANGED <<kept, memory, job, full, ctx, context>>

\* Second statement and reread, on the same context: the request learns the
\* turn it will answer.
BumpRevision(r) ==
    /\ pc[r] = "bumping"
    /\ kept /\ ctx[r] = "live"
    /\ LET turn == turns[job[r].turn] IN
       job' = [job EXCEPT ![r].send = turn.send, ![r].attempt = turn.attempts]
    /\ Goto(r, "enrolling")
    /\ UNCHANGED <<store, memory, full, ctx, context, asked>>

\* The second statement or the reread fails: record answers an error and the
\* reopened turn stays as it is.
BumpFails(r) ==
    /\ pc[r] = "bumping"
    /\ ~kept \/ ctx[r] # "live"
    /\ admitting' = None
    /\ End(r)
    /\ UNCHANGED <<store, queue, stops, asked>>

\* The ticket joins the lane at the turn's place, and Admit returns.
Enroll(r) ==
    /\ pc[r] = "enrolling"
    /\ queue' = [queue EXCEPT ![r] = job[r].turn]
    /\ admitting' = None
    /\ Goto(r, "admitted")
    /\ UNCHANGED <<store, stops, job, full, ctx, context, asked>>

\* running.Track: from here on the owner can stop the send.
Track(r) ==
    /\ pc[r] = "admitted"
    /\ stops' = [stops EXCEPT ![job[r].send] = r]
    /\ Goto(r, "tracked")
    /\ UNCHANGED <<store, admitting, queue, job, full, ctx, context, asked>>

NothingAhead(r) == \A q \in InLane : queue[q] >= queue[r]

\* waitForTurn: with nothing ahead it does not look at the context.
StartWait(r) ==
    /\ pc[r] = "tracked"
    /\ Goto(r, IF NothingAhead(r) THEN "dispatched" ELSE "waiting")
    /\ UNCHANGED <<store, memory, job, full, ctx, context, asked>>

Dispatch(r) ==
    /\ pc[r] = "waiting"
    /\ NothingAhead(r)
    /\ Goto(r, "dispatched")
    /\ UNCHANGED <<store, memory, job, full, ctx, context, asked>>

\* Altered: a request that gives up its wait records nothing.
StopWaitingUnrecorded(r) ==
    /\ pc[r] = "waiting"
    /\ ctx[r] # "live"
    /\ Goto(r, "settled")
    /\ UNCHANGED <<store, memory, job, full, ctx, context, asked>>

StopWaiting(r) ==
    /\ pc[r] = "waiting"
    /\ ctx[r] # "live"
    /\ Goto(r, "unasked")
    /\ UNCHANGED <<store, memory, job, full, ctx, context, asked>>

\* The archive's completed turns become the context, and the model is asked.
AskModel(r) ==
    /\ pc[r] = "dispatched"
    /\ kept /\ ctx[r] = "live"
    /\ context' = [context EXCEPT ![r] = ContextTurns(turns, job[r].turn)]
    /\ asked' = [asked EXCEPT ![job[r].send] = @ + 1]
    /\ Goto(r, "asking")
    /\ UNCHANGED <<store, memory, job, full, ctx>>

\* The transcript or what grounds the turn could not be read: an ended context
\* and a deleted conversation always fail here.
ReadFails(r) ==
    /\ pc[r] = "dispatched"
    /\ Goto(r, "failing")
    /\ UNCHANGED <<store, memory, job, full, ctx, context, asked>>

\* Altered: the ticket is released before the reply is recorded.
ReplyReleasesFirst(r) ==
    /\ pc[r] = "asking"
    /\ queue' = [queue EXCEPT ![r] = 0]
    /\ Goto(r, "completing")
    /\ UNCHANGED <<store, admitting, stops, job, full, ctx, context, asked>>

\* A reply that had arrived is kept even if the context ended meanwhile.
Reply(r) ==
    /\ pc[r] = "asking"
    /\ Goto(r, "completing")
    /\ UNCHANGED <<store, memory, job, full, ctx, context, asked>>

\* An error, an ended context or an empty reply.
NoReply(r) ==
    /\ pc[r] = "asking"
    /\ Goto(r, "failing")
    /\ UNCHANGED <<store, memory, job, full, ctx, context, asked>>

\* Archive.Complete and Archive.Fail run on a context that does not end.
Settle(r) ==
    /\ pc[r] \in {"completing", "failing", "unasked"}
    /\ turns' = Finished(turns, job[r].turn, job[r].attempt,
                         IF pc[r] = "completing" THEN "completed" ELSE "failed")
    /\ Goto(r, "settled")
    /\ UNCHANGED <<kept, memory, job, full, ctx, context, asked>>

\* Altered: an older attempt's done removes the newer one.
UntrackAny(r) ==
    /\ pc[r] = "settled"
    /\ stops' = [stops EXCEPT ![job[r].send] = None]
    /\ Goto(r, "finished")
    /\ UNCHANGED <<store, admitting, queue, job, full, ctx, context, asked>>

\* The deferred finished(): only the attempt still registered is removed.
Untrack(r) ==
    /\ pc[r] = "settled"
    /\ stops' = [stops EXCEPT ![job[r].send] = IF @ = r THEN None ELSE @]
    /\ Goto(r, "finished")
    /\ UNCHANGED <<store, admitting, queue, job, full, ctx, context, asked>>

\* The deferred ticket.Release(), last.
Release(r) ==
    /\ pc[r] = "finished"
    /\ queue' = [queue EXCEPT ![r] = 0]
    /\ End(r)
    /\ UNCHANGED <<store, admitting, stops, asked>>
--------------------------------------------------------------------------------
\* The requester goes away, or its deadline passes.
ContextEnds(r) ==
    /\ pc[r] \in Working \cup {"arrived", "recording"}
    /\ pc[r] = "bumping" => "RetryCut" \in Faults
    /\ ctx[r] = "live"
    /\ ctx' = [ctx EXCEPT ![r] = "gone"]
    /\ UNCHANGED <<store, memory, pc, job, full, context, asked>>

\* conversation.stop: RunningSends.Stop cancels the registered attempt.
Stop(s) ==
    /\ kept
    /\ stops[s] # None
    /\ ctx[stops[s]] = "live"
    /\ ctx' = [ctx EXCEPT ![stops[s]] = "stopped"]
    /\ UNCHANGED <<store, memory, pc, job, full, context, asked>>

\* conversation.delete takes the turns with it; requests go on without them.
Delete ==
    /\ "Delete" \in Faults
    /\ kept
    /\ kept' = FALSE
    /\ turns' = <<>>
    /\ UNCHANGED <<memory, request, asked>>

\* Altered: a request whose outcome could not be written keeps its ticket.
LoseWriteAndTicket(r) ==
    /\ "LostWrite" \in Faults
    /\ pc[r] \in {"completing", "failing", "unasked"}
    /\ End(r)
    /\ UNCHANGED <<store, memory, asked>>

\* The statement that should settle the turn fails.
LoseWrite(r) ==
    /\ "LostWrite" \in Faults
    /\ pc[r] \in {"completing", "failing", "unasked"}
    /\ Goto(r, "settled")
    /\ UNCHANGED <<store, memory, job, full, ctx, context, asked>>

\* The process ends; the next one runs Archive.Recover before it serves.
Restart ==
    /\ "Restart" \in Faults
    /\ turns' = Interrupted(turns)
    /\ admitting' = None
    /\ queue' = [r \in Request |-> 0]
    /\ stops' = [s \in Send |-> None]
    /\ pc' = [r \in Request |-> "idle"]
    /\ job' = [r \in Request |-> NoJob]
    /\ full' = [r \in Request |-> FALSE]
    /\ ctx' = [r \in Request |-> "live"]
    /\ context' = [r \in Request |-> {}]
    /\ UNCHANGED <<kept, asked>>

\* What a request does of its own accord once submitted.
Record(r)  == AnswerFromArchive(r) \/ RecordSend(r) \/ ReopenTurn(r)
Bump(r)    == BumpRevision(r) \/ BumpFails(r)
Proceed(r) == Enroll(r) \/ Track(r) \/ StartWait(r)
Answer(r)  == AskModel(r) \/ ReadFails(r) \/ Reply(r) \/ NoReply(r)
Leave(r)   == Settle(r) \/ LoseWrite(r) \/ Untrack(r) \/ Release(r)

Next ==
    \/ \E r \in Request :
          \/ \E s \in Send : SubmitSend(r, s)
          \/ \E i \in DOMAIN turns : SubmitRetry(r, i)
          \/ BeginAdmit(r) \/ Record(r) \/ Bump(r) \/ Proceed(r)
          \/ Dispatch(r) \/ StopWaiting(r)
          \/ Answer(r) \/ Leave(r)
          \/ ContextEnds(r)
    \/ \E s \in Send : Stop(s)
    \/ Delete
    \/ Restart

Spec == Init /\ [][Next]_vars

\* Every request keeps going: statements return, a provider is given 90
\* seconds, and the lane's mutex is handed over (a Go mutex does not starve).
Fairness ==
    \A r \in Request :
        /\ SF_vars(BeginAdmit(r))
        /\ WF_vars(Record(r) \/ Bump(r) \/ Proceed(r))
        /\ WF_vars(Dispatch(r) \/ StopWaiting(r))
        /\ WF_vars(Answer(r))
        /\ WF_vars(Leave(r))

FairSpec == Spec /\ Fairness
--------------------------------------------------------------------------------
\* The requests that answer the current attempt of turn i.
Answering(i) ==
    {r \in Request : /\ pc[r] \in Working
                     /\ job[r].turn = i
                     /\ pc[r] # "bumping" => job[r].attempt = turns[i].attempts}

\* Every variable holds a value of its kind.
TypeOK ==
    /\ kept \in BOOLEAN
    /\ turns \in Seq(Turn(Send))
    /\ admitting \in Request \cup {None}
    /\ queue \in [Request -> Nat]
    /\ stops \in [Send -> Request \cup {None}]
    /\ pc \in [Request -> Place]
    /\ job \in [Request -> [send : Send \cup {None}, turn : Nat, attempt : Nat]]
    /\ full \in [Request -> BOOLEAN]
    /\ ctx \in [Request -> {"live", "gone", "stopped"}]
    /\ context \in [Request -> SUBSET Nat]
    /\ asked \in [Send -> Nat]

\* Archive.Send: "a pending one is still on its way".  A turn the archive shows
\* pending is the business of exactly one live request, at the turn's current
\* attempt, whatever ended, was stopped, deleted or restarted on the way.
PendingOwned ==
    \A i \in DOMAIN turns : turns[i].state = Pending => Cardinality(Answering(i)) = 1

\* answerArchived: the ticket is released "once this turn has settled, so the
\* next send's context holds this reply".  While the model is asked for a turn,
\* no earlier turn is still pending, and every earlier reply is in its context.
ContextComplete ==
    \A r \in Request : pc[r] = "asking" /\ kept =>
        \A i \in 1 .. job[r].turn - 1 :
            /\ turns[i].state # Pending
            /\ turns[i].state = "completed" <=> i \in context[r]

\* Retry: "so a late reply never lands mid-transcript".  No turn is answered
\* while an earlier one may still be, in any order of sends, retries and stops.
NoLateReply ==
    \A i, j \in DOMAIN turns :
        i < j /\ turns[i].state = Pending => turns[j].state # "completed"

\* "The same send asked again is answered from the archive, never by the model
\* a second time": through repeats, retries and restarts it is asked at most
\* once for every time the owner sent the turn.
AskedOncePerAttempt == \A s \in Send : asked[s] <= 1

\* maxWaitingSends "bounds the sends of one conversation recorded and not yet
\* answered": the lane's bound is one on the archive's pending turns as well,
\* although a turn is recorded before its ticket is counted.
PendingBounded ==
    Cardinality({i \in DOMAIN turns : turns[i].state = Pending}) <= MaxWaiting

\* Track: "the older attempt's done leaves the newer one in place".  From Track
\* to its outcome, a request is the one conversation.stop reaches for its send.
CurrentAttemptStoppable ==
    \A r \in Request :
        pc[r] \in {"tracked", "waiting", "unasked", "dispatched", "asking", "completing", "failing"}
        => stops[job[r].send] = r

\* "Recording and queueing happen together, so the queue order is the
\* transcript order": the contract OrderedQueue's Admit asks of record.
JoinsInOrder ==
    [][\A r \in Request : queue[r] = 0 /\ queue'[r] # 0
          => \A q \in InLane : queue[q] <= queue'[r]]_vars

\* Retry: "the same turn", and FinishTurn "ends only the named pending attempt".
\* A reply, once kept, stays as it is until its conversation is deleted, and no
\* turn changes its place or its send.
RepliesKept ==
    [][kept' => \A i \in DOMAIN turns :
          /\ i \in DOMAIN turns'
          /\ turns'[i].send = turns[i].send
          /\ turns[i].state = "completed" => turns'[i] = turns[i]]_vars

\* No request hangs, behind earlier sends, stopped, cut, or after a deletion.
\* With PendingOwned it follows that a turn recorded pending ends (WithArchive).
EveryRequestEnds == \A r \in Request : pc[r] = "arrived" ~> pc[r] = "idle"
================================================================================
