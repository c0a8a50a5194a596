----------------------------- MODULE Supervision -----------------------------
(***************************************************************************)
(* One SourceSupervisor (knowledge_source_supervisor.go): the controls of  *)
(* its host, the run loop that prepares the current plan, the task runner  *)
(* that abandons a step when its context ends (core/task_runner.go), the   *)
(* step goroutines that read one source each through the journal           *)
(* (knowledge_source_receipts.go), and the checks of a candidate while     *)
(* paused.  Each action is one section under the supervisor's lock, one    *)
(* call outside it, or one step of the task runner.                        *)
(*                                                                         *)
(* The journal is its promise, AttemptLog: attempt n is the n-th claimed   *)
(* read.  Bytes are left out: whether a read crosses the byte ceiling is   *)
(* chosen when it settles, and a control or a check refused for its size   *)
(* changes nothing.  So do denials, stale revisions and repeated controls. *)
(***************************************************************************)
EXTENDS Integers, FiniteSets

CONSTANTS Sources,  \* sources of a request; step Sources + 1 assembles the context
          Reads,    \* limits.Reads
          Controls, \* limits.Controls
          None

ASSUME LimitsAssumption == Sources \in Nat \ {0} /\ Reads \in Nat \ {0} /\ Controls \in Nat \ {0}

VARIABLES
    app,      \* the snapshot: state, revisions, pending, uncertain, counts
    loop,     \* the run loop, and the task runner it calls
    preview,  \* the check of a candidate, and the task runner it calls
    live,     \* live.plan, live.preview: the task's context was not cancelled
    steps,    \* the step goroutines that still matter
    phase, sent, \* the journal: see AttemptLog
    receipts, \* receipts[n]: the settlement of read n, or None
    over,     \* the deadline passed or the host's lifetime ended
    ended     \* and the contexts derived from it are done

vars == <<app, loop, preview, live, steps, phase, sent, receipts, over, ended>>

Attempts == 1..Reads
Journal == INSTANCE AttemptLog

Terminal == {"prepared", "failed", "cancelled", "expired", "exhausted"}
Outcomes == {"succeeded", "failed", "unknown"}
Receipts == [revision : 1..(Controls + 1), plan : 1..(Controls + 1), source : 1..Sources,
             outcome : Outcomes, confirmed : BOOLEAN]
Inside == {"entered", "authorized", "begun", "dispatched", "reading", "observing", "leaving"}

ASSUME ReceiptAssumption == None \notin Receipts

Init ==
    /\ app = [state |-> "created", revision |-> 0, plan |-> 0, pending |-> 0,
              uncertain |-> FALSE, reads |-> 0, controls |-> 0]
    /\ loop = [at |-> "none", revision |-> 0, plan |-> 0, source |-> 1, ok |-> FALSE, woken |-> FALSE]
    /\ preview = [at |-> "off", revision |-> 0, plan |-> 0, source |-> 1]
    /\ live = [plan |-> FALSE, preview |-> FALSE]
    /\ steps = {}
    /\ Journal!Init
    /\ receipts = [n \in Attempts |-> None]
    /\ over = FALSE
    /\ ended = FALSE

-----------------------------------------------------------------------------
Journaled == <<phase, sent, receipts>>
Times == <<over, ended>>

\* signalLocked: the loop that waits on the channel of now is woken.
Signalled == [loop EXCEPT !.woken = loop.at = "waiting"]

\* expireLocked, before the section looks at the state.
Expirable == over /\ app.state \notin Terminal \cup {"created"}
Expired == IF Expirable THEN [app EXCEPT !.state = "expired"] ELSE app
ExpireCancels == live' = [live EXCEPT !.plan = @ /\ ~Expirable]

Start == /\ app.state = "created"
         /\ ~over
         /\ app' = [app EXCEPT !.state = "reassessing", !.revision = 1, !.plan = 1]
         /\ loop' = [loop EXCEPT !.at = "top"]
         /\ UNCHANGED <<preview, live, steps, Journaled, Times>>

\* Status; a refused Control or Preview does no more than this either.
Status == /\ Expirable
          /\ app' = Expired
          /\ ExpireCancels
          /\ loop' = Signalled
          /\ UNCHANGED <<preview, steps, Journaled, Times>>

\* The state an accepted control leads to.
Steered(action) == CASE action = "redirect" -> IF app.state = "paused" THEN "paused" ELSE "reassessing"
                     [] action = "pause"    -> "paused"
                     [] action = "resume"   -> "reassessing"
                     [] action = "cancel"   -> "cancelled"

\* A control that names the current revision, the host's authority given.
Control(action) ==
    /\ ~Expirable
    /\ app.state \notin Terminal \cup {"created"}
    /\ app.controls < Controls
    /\ action = "pause" => app.state # "paused"
    /\ action = "resume" => app.state = "paused" /\ app.pending = 0 /\ ~app.uncertain
    /\ LET last == app.controls + 1 = Controls /\ action # "cancel" IN
       app' = [app EXCEPT !.revision = @ + 1,
                          !.plan = IF action = "redirect" THEN @ + 1 ELSE @,
                          !.state = IF last THEN "exhausted" ELSE Steered(action),
                          !.controls = @ + 1]
    /\ live' = [plan |-> FALSE, preview |-> FALSE]
    /\ loop' = Signalled
    /\ UNCHANGED <<preview, steps, Journaled, Times>>

-----------------------------------------------------------------------------
\* Altered: a plan is taken while an operation is pending.
LoopTopHasty ==
    /\ loop.at = "top"
    /\ app' = Expired
    /\ ExpireCancels
    /\ loop' = IF Expired.state \in Terminal THEN [loop EXCEPT !.at = "done"]
               ELSE IF app.state = "paused" \/ app.uncertain
               THEN [loop EXCEPT !.at = "waiting", !.woken = FALSE]
               ELSE [loop EXCEPT !.at = "reassessing", !.revision = app.revision,
                                 !.plan = app.plan, !.source = 1]
    /\ UNCHANGED <<preview, steps, Journaled, Times>>

\* run, from the top of its loop: it ends, waits for a change, or takes the plan.
LoopTop ==
    /\ loop.at = "top"
    /\ app' = Expired
    /\ ExpireCancels
    /\ loop' = IF Expired.state \in Terminal THEN [loop EXCEPT !.at = "done"]
               ELSE IF app.state = "paused" \/ app.pending # 0 \/ app.uncertain
               THEN [loop EXCEPT !.at = "waiting", !.woken = FALSE]
               ELSE [loop EXCEPT !.at = "reassessing", !.revision = app.revision,
                                 !.plan = app.plan, !.source = 1]
    /\ UNCHANGED <<preview, steps, Journaled, Times>>

\* Altered: the loop waits for a change only.
LoopWakesOnChange == /\ loop.at = "waiting" /\ loop.woken
                     /\ loop' = [loop EXCEPT !.at = "top", !.woken = FALSE]
                     /\ UNCHANGED <<app, preview, live, steps, Journaled, Times>>

LoopWakes == /\ loop.at = "waiting"
             /\ loop.woken \/ ended
             /\ loop' = [loop EXCEPT !.at = "top", !.woken = FALSE]
             /\ UNCHANGED <<app, preview, live, steps, Journaled, Times>>

\* After the authorization and the validation outside the lock.
LoopReassessed(denied) ==
    /\ loop.at = "reassessing"
    /\ IF loop.revision # app.revision \/ loop.plan # app.plan \/ app.state = "paused"
       THEN loop' = [loop EXCEPT !.at = "top"] /\ UNCHANGED <<app, live>>
       ELSE IF denied
       THEN /\ app' = [app EXCEPT !.state = "failed"]
            /\ loop' = [loop EXCEPT !.at = "done"]
            /\ UNCHANGED live
       ELSE IF app.state \in Terminal
       THEN loop' = [loop EXCEPT !.at = "done"] /\ UNCHANGED <<app, live>>
       ELSE /\ app' = [app EXCEPT !.state = "running"]
            /\ loop' = [loop EXCEPT !.at = "between"]
            /\ live' = [live EXCEPT !.plan = TRUE]
    /\ UNCHANGED <<preview, steps, Journaled, Times>>

NewStep(kind, t) == [kind |-> kind, revision |-> t.revision, plan |-> t.plan, source |-> t.source,
                     at |-> "start", n |-> 0, outcome |-> "unknown", ok |-> FALSE]
StepOf(kind, t) == {g \in steps : g.kind = kind /\ g.revision = t.revision /\ g.source = t.source}

\* What an abandoned task leaves behind: the steps that are inside an operation.
Strays(kind, t) == {g \in steps : g \in StepOf(kind, t) => g.at \in Inside}

\* RunTask starts the next step, unless its context ended.
TaskNext ==
    /\ loop.at = "between"
    /\ IF live.plan /\ ~ended
       THEN /\ steps' = steps \cup {NewStep("plan", loop)}
            /\ loop' = [loop EXCEPT !.at = "stepping"]
            /\ UNCHANGED live
       ELSE /\ loop' = [loop EXCEPT !.at = "planned", !.ok = FALSE]
            /\ live' = [live EXCEPT !.plan = FALSE]
            /\ UNCHANGED steps
    /\ UNCHANGED <<app, preview, Journaled, Times>>

\* runStep takes the answer; a result that came after the end is discarded.
TaskAnswered ==
    /\ loop.at = "stepping"
    /\ live.plan /\ ~ended
    /\ \E g \in StepOf("plan", loop) :
         /\ g.at = "answered"
         /\ steps' = steps \ {g}
         /\ loop' = IF g.ok /\ g.source <= Sources
                    THEN [loop EXCEPT !.at = "between", !.source = @ + 1]
                    ELSE [loop EXCEPT !.at = "planned", !.ok = g.ok]
         /\ live' = [live EXCEPT !.plan = g.ok /\ g.source <= Sources]
    /\ UNCHANGED <<app, preview, Journaled, Times>>

TaskAbandons ==
    /\ loop.at = "stepping"
    /\ ~live.plan \/ ended
    /\ steps' = Strays("plan", loop)
    /\ loop' = [loop EXCEPT !.at = "planned", !.ok = FALSE]
    /\ live' = [live EXCEPT !.plan = FALSE]
    /\ UNCHANGED <<app, preview, Journaled, Times>>

\* The workflow's own fifteen seconds.
TaskTimesOut == /\ loop.at = "stepping"
                /\ live.plan
                /\ live' = [live EXCEPT !.plan = FALSE]
                /\ UNCHANGED <<app, loop, preview, steps, Journaled, Times>>

\* Altered: the status of the task is not looked at.
LoopPlannedAnyway ==
    /\ loop.at = "planned"
    /\ app' = IF loop.revision = app.revision /\ loop.plan = app.plan /\ app.state = "running"
              THEN [app EXCEPT !.state =
                      IF ended THEN "expired"
                      ELSE IF app.uncertain \/ app.pending # 0 THEN "failed" ELSE "prepared"]
              ELSE app
    /\ loop' = [loop EXCEPT !.at = "top", !.ok = FALSE]
    /\ UNCHANGED <<preview, live, steps, Journaled, Times>>

\* prepare returned: the result counts only for the revision and plan it had.
LoopPlanned ==
    /\ loop.at = "planned"
    /\ app' = IF loop.revision = app.revision /\ loop.plan = app.plan /\ app.state = "running"
              THEN [app EXCEPT !.state =
                      IF ended THEN "expired"
                      ELSE IF ~loop.ok \/ app.uncertain \/ app.pending # 0 THEN "failed"
                      ELSE "prepared"]
              ELSE app
    /\ loop' = [loop EXCEPT !.at = "top", !.ok = FALSE]
    /\ UNCHANGED <<preview, live, steps, Journaled, Times>>
-----------------------------------------------------------------------------
\* The context of the task a step belongs to.
Live(g) == /\ ~ended
           /\ g.revision = (IF g.kind = "plan" THEN loop.revision ELSE preview.revision)
           /\ g.kind = "plan" => live.plan /\ loop.at = "stepping"
           /\ g.kind = "preview" => live.preview /\ preview.at = "stepping"

Awaited(g) == \/ g.kind = "plan" /\ loop.at = "stepping" /\ g \in StepOf("plan", loop)
              \/ g.kind = "preview" /\ preview.at = "stepping" /\ g \in StepOf("preview", preview)

Become(g, new) == steps' = (steps \ {g}) \cup {new}
Advance(g, at) == Become(g, [g EXCEPT !.at = at])
Leaving(g) == Become(g, [g EXCEPT !.at = "leaving", !.ok = FALSE])

\* The step returned; an answer nobody waits for is gone.
Answers(g, ok) == IF Awaited(g) THEN Become(g, [g EXCEPT !.at = "answered", !.ok = ok])
                  ELSE steps' = steps \ {g}

\* The state and the revisions the step was made for, in the application a.
Current(g, a) == /\ a.state = IF g.kind = "plan" THEN "running" ELSE "paused"
                 /\ a.revision = g.revision
                 /\ a.plan = g.plan

\* Altered: one read more than the limit is claimed.
ClaimOneMore(g, allowed) ==
    /\ g.at = "start" /\ allowed
    /\ IF ~(Live(g) /\ Current(g, Expired)) \/ g.source > Sources \/ app.reads > Reads
       THEN Answers(g, g.source > Sources) /\ UNCHANGED app
       ELSE /\ app' = [app EXCEPT !.reads = @ + 1, !.pending = @ + 1]
            /\ Become(g, [g EXCEPT !.at = IF g.kind = "plan" THEN "entered" ELSE "reading",
                                   !.n = app.reads + 1])
    /\ UNCHANGED <<loop, live, preview, Journaled, Times>>

\* The first section of a step.  A read of a check needs no journal, and its
\* authorization (allowed) came before the section.
Claim(g, allowed) ==
    LET may == allowed /\ Live(g) /\ Current(g, Expired) IN
    /\ g.at = "start"
    /\ g.kind = "plan" => allowed
    /\ IF ~may
       THEN /\ app' = IF allowed THEN Expired ELSE app
            /\ IF allowed THEN ExpireCancels ELSE UNCHANGED live
            /\ Answers(g, FALSE)
       ELSE IF g.source > Sources
       THEN UNCHANGED <<app, live>> /\ \E ok \in BOOLEAN : Answers(g, ok)
       ELSE IF app.reads >= Reads
       THEN /\ app' = [app EXCEPT !.state = "exhausted"]
            /\ UNCHANGED live
            /\ Answers(g, FALSE)
       ELSE /\ app' = [app EXCEPT !.reads = @ + 1, !.pending = @ + 1]
            /\ UNCHANGED live
            /\ Become(g, [g EXCEPT !.at = IF g.kind = "plan" THEN "entered" ELSE "reading",
                                   !.n = app.reads + 1])
    /\ loop' = IF app' = app THEN loop ELSE Signalled
    /\ UNCHANGED <<preview, Journaled, Times>>

\* Authorize for the execution of the read, with its own look at the state.
Authorize(g, allowed) ==
    /\ g.at = "entered"
    /\ IF allowed /\ Live(g) /\ Current(g, app) THEN Advance(g, "authorized") ELSE Leaving(g)
    /\ UNCHANGED <<app, loop, preview, live, Journaled, Times>>

\* A journal call under the step's context, which reaches the journal or not; the
\* step goes on only with a confirmed answer.
Recorded(g, at, call) ==
    /\ \/ Live(g) /\ call /\ Advance(g, at)
       \/ (call \/ UNCHANGED <<phase, sent>>) /\ Leaving(g)
    /\ UNCHANGED <<app, loop, preview, live, receipts, Times>>

Begin(g)    == g.at = "authorized" /\ Recorded(g, "begun", Journal!Prepare(g.n))
Dispatch(g) == g.at = "begun" /\ Recorded(g, "dispatched", Journal!Dispatch(g.n))

\* Altered: the context is not looked at again.
ProceedUnchecked(g) ==
    /\ g.at = "dispatched"
    /\ Advance(g, "reading")
    /\ UNCHANGED <<app, loop, preview, live, Journaled, Times>>

\* The read begins with this last look at the context; had it ended, the attempt
\* is marked interrupted.  A control accepted between that look and the call of
\* the source lets the read run under an ended context, with any outcome.
Proceed(g) ==
    /\ g.at = "dispatched"
    /\ IF Live(g)
       THEN Advance(g, "reading") /\ UNCHANGED <<phase, sent>>
       ELSE Leaving(g) /\ (Journal!Interrupt(g.n) \/ UNCHANGED <<phase, sent>>)
    /\ UNCHANGED <<app, loop, preview, live, receipts, Times>>

\* The source answers, or the transport gives up.
Returns(g, outcome) ==
    /\ g.at = "reading"
    /\ IF g.kind = "plan"
       THEN Become(g, [g EXCEPT !.at = "observing", !.outcome = outcome])
       ELSE Become(g, [g EXCEPT !.at = "leaving", !.ok = outcome = "succeeded"])
    /\ UNCHANGED <<app, loop, preview, live, Journaled, Times>>

\* Altered: an application that ended is exhausted too.
ExceededAfterEnd(a, big) == IF big THEN [a EXCEPT !.state = "exhausted"] ELSE a

Exceeded(a, big) == IF big /\ a.state \notin Terminal THEN [a EXCEPT !.state = "exhausted"] ELSE a

\* The receipt is recorded outside the cancelled context, and Settled is told.
Settle(g, confirmed, big) ==
    /\ g.at = "observing"
    /\ \/ g.outcome # "unknown" /\ Journal!Settle(g.n)
       \/ (g.outcome = "unknown" \/ ~confirmed) /\ UNCHANGED <<phase, sent>>
    /\ receipts' = [receipts EXCEPT ![g.n] =
          [revision |-> g.revision, plan |-> g.plan, source |-> g.source,
           outcome |-> g.outcome, confirmed |-> confirmed]]
    /\ app' = [Exceeded(app, big) EXCEPT !.uncertain = @ \/ ~confirmed \/ g.outcome = "unknown"]
    /\ loop' = Signalled
    /\ Become(g, [g EXCEPT !.at = "leaving", !.ok = confirmed /\ g.outcome = "succeeded"])
    /\ UNCHANGED <<preview, live, Times>>

\* Altered: the loop is not told.
LeaveSilently(g, big) ==
    /\ g.at = "leaving"
    /\ app' = [Exceeded(app, big /\ g.kind = "preview") EXCEPT !.pending = @ - 1]
    /\ Answers(g, g.ok)
    /\ UNCHANGED <<loop, preview, live, Journaled, Times>>

\* The last section of a step that claimed a read.
Leave(g, big) ==
    /\ g.at = "leaving"
    /\ app' = [Exceeded(app, big /\ g.kind = "preview") EXCEPT !.pending = @ - 1]
    /\ loop' = Signalled
    /\ Answers(g, g.ok)
    /\ UNCHANGED <<preview, live, Journaled, Times>>

Step(g) ==
    \/ \E allowed \in BOOLEAN : Claim(g, allowed) \/ Authorize(g, allowed)
    \/ Begin(g) \/ Dispatch(g) \/ Proceed(g)
    \/ \E outcome \in Outcomes : Returns(g, outcome)
    \/ \E confirmed, big \in BOOLEAN : Settle(g, confirmed, big)
    \/ \E big \in BOOLEAN : Leave(g, big)

-----------------------------------------------------------------------------
\* Preview: one at a time, of a paused application with nothing pending.
PreviewStart ==
    /\ ~Expirable
    /\ app.state = "paused" /\ app.pending = 0 /\ ~app.uncertain
    /\ preview.at = "off"
    /\ preview' = [at |-> "between", revision |-> app.revision, plan |-> app.plan, source |-> 1]
    /\ live' = [live EXCEPT !.preview = TRUE]
    /\ UNCHANGED <<app, loop, steps, Journaled, Times>>

PreviewNext ==
    /\ preview.at = "between"
    /\ IF live.preview /\ ~ended /\ preview.source <= Sources
       THEN /\ steps' = steps \cup {NewStep("preview", preview)}
            /\ preview' = [preview EXCEPT !.at = "stepping"]
       ELSE /\ preview' = [preview EXCEPT !.at = "ending"]
            /\ UNCHANGED steps
    /\ UNCHANGED <<app, loop, live, Journaled, Times>>

PreviewAnswered ==
    /\ preview.at = "stepping"
    /\ live.preview /\ ~ended
    /\ \E g \in StepOf("preview", preview) :
         /\ g.at = "answered"
         /\ steps' = steps \ {g}
         /\ preview' = IF g.ok THEN [preview EXCEPT !.at = "between", !.source = @ + 1]
                       ELSE [preview EXCEPT !.at = "ending"]
    /\ UNCHANGED <<app, loop, live, Journaled, Times>>

PreviewAbandons ==
    /\ preview.at = "stepping"
    /\ ~live.preview \/ ended
    /\ steps' = Strays("preview", preview)
    /\ preview' = [preview EXCEPT !.at = "ending"]
    /\ UNCHANGED <<app, loop, live, Journaled, Times>>

\* The caller goes away, or the task's deadline passes.
PreviewCancelled == /\ live.preview
                    /\ preview.at # "off"
                    /\ live' = [live EXCEPT !.preview = FALSE]
                    /\ UNCHANGED <<app, loop, preview, steps, Journaled, Times>>

\* The deferred section.
PreviewEnds == /\ preview.at = "ending"
               /\ preview' = [at |-> "off", revision |-> 0, plan |-> 0, source |-> 1]
               /\ live' = [live EXCEPT !.preview = FALSE]
               /\ loop' = Signalled
               /\ UNCHANGED <<app, steps, Journaled, Times>>

-----------------------------------------------------------------------------
\* The deadline is reached, and then the timers of the contexts fire.
DeadlinePasses == ~over /\ over' = TRUE /\ UNCHANGED <<app, loop, preview, live, steps, Journaled, ended>>
ContextsEnd == over /\ ~ended /\ ended' = TRUE /\ UNCHANGED <<app, loop, preview, live, steps, Journaled, over>>

LoopStep == \/ LoopTop \/ LoopWakes
            \/ \E denied \in BOOLEAN : LoopReassessed(denied)
            \/ TaskNext \/ TaskAnswered \/ TaskAbandons \/ LoopPlanned

Next == \/ Start \/ Status
        \/ \E action \in {"redirect", "pause", "resume", "cancel"} : Control(action)
        \/ LoopStep \/ TaskTimesOut
        \/ \E g \in steps : Step(g)
        \/ PreviewStart \/ PreviewNext \/ PreviewAnswered \/ PreviewAbandons
        \/ PreviewCancelled \/ PreviewEnds
        \/ DeadlinePasses \/ ContextsEnd

\* The run loop's goroutine is scheduled; nothing else has to happen: a read may
\* never return, and the deadline is the environment's.
Spec == Init /\ [][Next]_vars /\ WF_vars(LoopStep)

-----------------------------------------------------------------------------
TypeOK ==
    /\ app \in [state : Terminal \cup {"created", "reassessing", "running", "paused"},
                revision : 0..(Controls + 1), plan : 0..(Controls + 1), pending : 0..Reads,
                uncertain : BOOLEAN, reads : 0..Reads, controls : 0..Controls]
    /\ loop \in [at : {"none", "top", "waiting", "reassessing", "between", "stepping", "planned", "done"},
                 revision : 0..(Controls + 1), plan : 0..(Controls + 1), source : 1..(Sources + 1),
                 ok : BOOLEAN, woken : BOOLEAN]
    /\ preview \in [at : {"off", "between", "stepping", "ending"}, revision : 0..(Controls + 1),
                    plan : 0..(Controls + 1), source : 1..(Sources + 1)]
    /\ live \in [plan : BOOLEAN, preview : BOOLEAN]
    /\ steps \subseteq [kind : {"plan", "preview"}, revision : 1..(Controls + 1), plan : 1..(Controls + 1),
                        source : 1..(Sources + 1), at : Inside \cup {"start", "answered"},
                        n : 0..Reads, outcome : Outcomes, ok : BOOLEAN]
    /\ Journal!TypeOK
    /\ receipts \in [Attempts -> Receipts \cup {None}]
    /\ over \in BOOLEAN /\ ended \in BOOLEAN

\* Plans replaced, tasks abandoned and candidates checked included, at most one
\* operation is under way, and the count that gates the next one is exact.
\* (knowledge-source-steering.md: no new reads while an earlier step is pending.)
OneReadAtATime ==
    LET inside == {g \in steps : g.at \in Inside} IN
    Cardinality(inside) <= 1 /\ app.pending = Cardinality(inside)

\* A read begins, by its last look at the context, only for the revision and the
\* plan accepted last, while the application is running and certain, and after
\* its dispatch was recorded: a control accepted before that stops it.
ReadsStartCurrent ==
    [][\A g \in steps : g.kind = "plan" /\ g.at = "dispatched" /\ [g EXCEPT !.at = "reading"] \in steps'
         => /\ app.state = "running" /\ ~app.uncertain
            /\ app.revision = g.revision /\ app.plan = g.plan
            /\ phase[g.n] = "dispatched"]_vars

\* What is published as prepared rests on a confirmed, successful receipt for each
\* source, of this very revision and plan, that the journal settled.
PreparedOnReceipts ==
    app.state = "prepared" =>
        /\ app.pending = 0
        /\ \A i \in 1..Sources : \E n \in Attempts :
             /\ receipts[n] # None
             /\ receipts[n] = [revision |-> app.revision, plan |-> app.plan, source |-> i,
                               outcome |-> "succeeded", confirmed |-> TRUE]
             /\ phase[n] = "settled"

\* An ended application stays ended as it was, whatever is still on its way.  The
\* one exception: an expiry that Status reports while the loop is being refused.
TerminalStays ==
    [][app.state \in Terminal =>
         \/ app'.state = app.state
         \/ app.state = "expired" /\ app'.state = "failed" /\ loop.at = "reassessing"]_app

\* No wakeup is lost: an application that waits for nothing is taken up again,
\* though no deadline wakes the loop.  (The channel of signalLocked.)
Replans == (app.state = "reassessing" /\ app.pending = 0 /\ ~app.uncertain)
              ~> (app.state # "reassessing")

\* After the deadline the application ends, even if a read never returns.
EndsAfterDeadline == (ended /\ app.state # "created") ~> (app.state \in Terminal)
=============================================================================
