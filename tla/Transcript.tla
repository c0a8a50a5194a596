------------------------------ MODULE Transcript ------------------------------
(***************************************************************************)
(* The turns of one conversation as the archive keeps them, and what each  *)
(* statement of dokja_orch/internal/infrastructure/conversations/store.go  *)
(* makes of them.  A transcript is the sequence of its turns: seq is the   *)
(* index, and no statement ever removes a single turn.                     *)
(*                                                                         *)
(* A turn keeps its send id, its state, its attempts, and in settledBy the *)
(* attempt its reply or its reason came from (0: none yet).                *)
(***************************************************************************)
EXTENDS Naturals, Sequences

\* TurnState
Pending    == "pending"
Retryable  == {"failed", "interrupted"}
Settled    == Retryable \cup {"completed"}

Turn(Send) ==
    [send : Send, state : Settled \cup {Pending}, attempts : Nat, settledBy : Nat]

\* The turn BeginTurn inserts: MAX(seq) + 1 is the place after the last one.
NewTurn(send) ==
    [send |-> send, state |-> Pending, attempts |-> 1, settledBy |-> 0]

\* The turns a send id already names.
Recorded(turns, send) == {i \in DOMAIN turns : turns[i].send = send}

\* Altered: any turn that got no reply may be sent again, not only the latest.
ReopenableAnywhere(turns, i) == i \in DOMAIN turns /\ turns[i].state \in Retryable

\* Altered: the latest turn is reopened whatever became of it.
ReopenableAnyState(turns, i) == i \in DOMAIN turns /\ i = Len(turns)

\* The condition of retryTurn's UPDATE.
Reopenable(turns, i) == i \in DOMAIN turns /\ i = Len(turns) /\ turns[i].state \in Retryable

\* What retryTurn's UPDATE writes: the same turn, pending again, one attempt more.
Reopened(turns, i) ==
    [turns EXCEPT ![i] =
        [turns[i] EXCEPT !.state = Pending, !.attempts = @ + 1, !.settledBy = 0]]

\* The condition of FinishTurn's UPDATE: the very attempt, still pending.
Finishable(turns, i, attempt) ==
    i \in DOMAIN turns /\ turns[i].state = Pending /\ turns[i].attempts = attempt

\* What FinishTurn leaves behind, whether its condition held or not.
Finished(turns, i, attempt, state) ==
    IF Finishable(turns, i, attempt)
    THEN [turns EXCEPT ![i] = [@ EXCEPT !.state = state, !.settledBy = attempt]]
    ELSE turns

\* Altered: recovery writes a state the archive does not know.
InterruptedUnnamed(turns) ==
    [i \in DOMAIN turns |->
        IF turns[i].state = Pending THEN [turns[i] EXCEPT !.state = "stopped"] ELSE turns[i]]

\* What InterruptPending leaves of turns begun before it.
Interrupted(turns) ==
    [i \in DOMAIN turns |->
        IF turns[i].state = Pending
        THEN [turns[i] EXCEPT !.state = "interrupted", !.settledBy = turns[i].attempts]
        ELSE turns[i]]

\* What may become context for a reply to turn i: the completed turns that are
\* not turn i itself.  The budgets of 20 turns and 24000 runes are not reached.
ContextTurns(turns, i) == {j \in DOMAIN turns : j # i /\ turns[j].state = "completed"}
===============================================================================
