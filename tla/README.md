# NingoDokja in TLA+

Specifications of the NingoDokja assistant, translated from the sources of this
repository, with the TLC configurations that check them and the TLAPS proofs
of what matters most. Paths are relative to `src/`.

Contents: [the system](#the-system) · [modules](#modules) · [runs](#runs) ·
[fairness](#fairness) · [proofs](#proofs) · [disagreements found](#disagreements-found) ·
[not modelled](#not-modelled) · [plan](#plan)

## The system

An interface (desktop, CLI, WhatsApp, Discord) sends an event or a request to the
orchestrator (`dokja_orch`, Go). It routes it to a domain (`dokja_domain`, Go),
which uses services (`dokja_services`, Go, Python, TypeScript). `PROJECT.json`
lists every component with its sources.

The core of the assistant is the owner's archived conversations: whatever the
interface, a message is recorded before the model is asked, waits for the earlier
messages of its conversation, is answered with their replies as its context, and
ends completed or failed. These parts keep that promise together:

| Component | Keeps | Operations | Correct when |
|---|---|---|---|
| Ordered queue (`core/ordered_queue.go`) | one lane per key: its mutex, its entries, its users | `Admit`, `Blocked`, `Wait`, `Release` | users of one key share a lane; admissions of a key never overlap; the bound holds; entries run in position order; nobody waits for ever |
| Running sends (`core/running_sends.go`) | the cancel function of each send being answered | `Track` and its done, `Stop` | a stop reaches the current attempt, never an older one's remains |
| Answering (`handlers/chat_archive.go`) | per request: its turn, its ticket, its context | `answerArchived`, `waitForTurn`, `failArchived` | every pending turn has exactly one request answering it; a reply's context is complete; a send is asked of the model once per attempt |
| Archive (`dokja_conversation/conversation.go`, `infrastructure/conversations/store.go`) | conversations with revisions; turns with attempts and states | begin, finish, retry, start, rename, touch, delete, list, recover | a reply is final; only the latest turn is retried; a change names the version it saw |
| Self-chat (`handlers/chat_self_chat*.go`) | the phone's lock, the numbered list, the pending deletion | a message, seven commands | two first messages start one conversation; nothing the owner wrote meanwhile is renamed away or deleted |
| Conversation commands (`handlers/conversation_domain_handler.go`) | nothing | start, rename, delete, stop, reads | they use the archive without the phone's lock |
| Start (`cmd/va/main.go`) | nothing | `Recover`, then serving | no pending turn survives a restart |

How they interact. `handleArchived` and `handleSelfChat` call `answerArchived`,
which calls `OrderedQueue.Admit` with a callback that records the turn; the
admission holds the lane's mutex while the archive is written, but not the queue's
own. The ticket's position is the turn's place in the transcript. The request is
then tracked, waits, asks the model, settles the turn on a context that cannot
end, and gives up the tracking and the ticket in that order. `conversation.stop`
and `conversation.delete` come in from other requests at any moment.

What is hard here: the queue's own mutex is released between looking up a lane
and locking it; the fullness of a lane is read before the turn is recorded; a
request's context may end between any two statements; a failed attempt's clean-up
may overlap the retry of the same turn; the desktop changes what the phone has just
read; a restart forgets everything but the archive. `PROJECT.json` lists each as a
hazard with its line and the properties aimed at it.

Two more parts of the orchestrator and one that spans two processes are modelled as
well:

| Component | Keeps | Operations | Correct when |
|---|---|---|---|
| Application journal (`dokja_memory/application`, `application_journal/postgres.go`) | rows of episodes, their revisions, operations by key | `Begin`, `MarkDispatched`, `MarkInterrupted`, `Observe`, `Forget`, `RecoverUnsettled` | one operation has one effect and one answer; an attempt has one episode; deletion is final; recovery misses nothing |
| Source supervision (`knowledge_source_supervisor.go`, `knowledge_source_receipts.go`, `core/task_runner.go`) | one application: state, revisions, pending reads | `Start`, `Status`, `Control`, `Preview`, the run loop, its steps | one read at a time, for the plan accepted last; prepared on receipts; no wakeup lost; an end after the deadline |
| Music (`music_queue.go`, `music_desk.go`, the Discord adapter's `commands.ts`, `reconcile.ts`, `voice.ts`) | the queue in the orchestrator, the player in the adapter | the desk's commands and reports, the adapter's replies and callbacks | each play leaves the queue once; when nothing is on its way the speakers play what the queue plays (they may not, see [`music_overtaken`](#disagreements-found)) |

A supervised application prepares a knowledge source's context step by step: its run
loop starts a task, the task runner runs each step in a goroutine it may abandon, and
a step reads one source, recording the attempt in the journal before the read and its
receipt after it. A restarted orchestrator marks what was left unsettled as
interrupted. Here it is hard that an abandoned step still runs; that a control may be
accepted between any two of the step's journal calls; that a commit may take effect
without the caller hearing of it; and that recovery lists without a lock what it marks
later.

The music desk answers every command and report with the queue's whole state and its
version; the adapter applies the newest it has seen, and reports the ends of tracks it
plays. Replies and reports overlap, are lost, and outlive an orchestrator whose epoch
and entry numbers begin again.

The components that have no module:

| Component | Keeps | Hard behaviour | Correct when |
|---|---|---|---|
| Service and workflows (`core/service.go`, `workflow_engine.go`, `dispatcher.go`, `controls.go`) | switches, routes | a switch turned during a step | a disabled feature runs nothing |
| Process-local chat sessions (`handlers/chat_session_manager.go`, `chat_sessions/store.go`) | turns and expiry of a session | expiry against a late reply | a reply never enters a session that ended |
| Realtime observer (`realtime.go`) | revisions of messages, evidence | edits and deletions out of order | the latest revision wins, evidence is bounded |
| Runtime controller (`dokja_runtime`) | modules, journal, settings | replacing the running daemon | one owner per module; replacement waits for active requests |
| Feeds, scheduler | caches, job runs | overlapping runs | a job never overlaps itself |
| WhatsApp, Discord deliveries | connections, duplicates, deliveries | reconnection, retried deliveries | a message is handled once |

## Modules

| Module | Is |
|---|---|
| `PositionOrder` | what the queue promises, without lanes, locks and channels |
| `OrderedQueue` | the queue as written: one action per critical section of `q.mu`, per lock and unlock of `lane.admit`, and per return of the callback |
| `OrderedQueue_proofs` | its theorems, the refinement of `PositionOrder` included |
| `Transcript` | the turns of a conversation and what each statement of the store makes of them |
| `ArchivedSends` | requests answering one conversation: queue lane, running sends and `Transcript` composed |
| `ArchivedSends_proofs` | its theorems, with the lemmas about `Transcript`'s statements they need |
| `SelfChat` | the archive of conversations as the phone and a desktop use it at once |
| `SelfChat_proofs` | its theorems |
| `AttemptLog` | what the journal promises of one attempt, whoever writes and however often |
| `AttemptJournal` | the journal over its store: one action per transaction, and recovery's pages |
| `AttemptJournal_proofs` | its theorems, the refinement of `AttemptLog` included |
| `Supervision` | one supervised application: controls, run loop, task runner, steps; it uses the journal through `AttemptLog` |
| `Supervision_proofs` | its theorems |
| `Music` | the desk's queue and the adapter's player, with what travels between them |
| `Music_proofs` | its theorems |
| `MC…` | the instances TLC checks |

Operators marked `Altered:` are plausible mistakes in the code; each makes one
property fail when it stands in for the definition below it. No specification uses
them.

**OrderedQueue.** `lanes`, `users` and `entries` are the fields of the same names;
lane objects are taken from the finite set `LaneObject`, and `Join` takes one nobody
refers to, as allocation does. A caller passes through `Join` (lookup or allocation,
count the user), `Lock`, `ReadFull` (`q.mu` held), `RecordEnrolls` or `RecordRefuses`
(the callback), `Enroll`, or `Refuse` with the user dropped, `Unlock`, `Wait`
(snapshot of the open channels ahead), `Dispatch` or `GiveUp`, `Release`, `EndUse`.
`Release` closes the ticket's channel, so the ticket leaves every snapshot. The
callback is the caller's: it may answer any position not before an entry of the lane,
the contract stated at `ordered_queue.go:53`; `ArchivedSends` checks that
`answerArchived` keeps it (`JoinsInOrder`).

**ArchivedSends.** One conversation. `pc` follows `answerArchived` statement by
statement. The lane is the abstract one: `admitting` is its mutex, `queue` the
enrolled positions, which `OrderedQueue` is proved to offer. Contents, replies and
readings are left out; what is kept of a reply is which turns were in its context.
The queue's `Enroll` and `Unlock` are one action because nothing between them touches
anything but the lane. `Restart` is the end of the process and `Recover` in the next
one, before it serves. `ReadFails` and `NoReply` may happen whatever the context is:
every read and every provider may fail. `Faults` names the failures a run allows.

**SelfChat.** Several conversations. A conversation is its title (present or not), its
revision and the send ids of its turns; the list's order is the order of the last
changes. The phone's handlers hold `h.selfChat` (`lock`); a message takes the steps
`Choose`, `StartForMessage` or `NameChosen`, `RecordMessage`, and `GiveUp` is every error
or refusal that ends it before; a command whose one
archive statement decides it is one step, `/renomear` is two. The desktop's commands
come between any two of them. Reading discussions are not kept in this model; what
follows the recording of a message is `ArchivedSends`.

**AttemptJournal.** One scope. `claim` is the attempt reference of an episode's row,
`revisions` its stored snapshots, `operations` the rows by key, `forgotten` the flag
that `Forget` sets. A call runs in one transaction under the scope's advisory lock, so
`Store` is one step: the key is unused, the current snapshot is of the revision
expected (`Matches`), the clock is not before it (`InOrder`), and the phase admits the
change (`Admits`, `Changes`, `Written`). `Repeat` is the same call again. A refused or
rolled-back call changes nothing and is no step. A commit whose answer is lost took
effect; `answered` holds each answer given, whether it was heard or not, and is used by
`SameAnswer` alone. A request stands for its own digest. Recovery lists one episode per
step (`ListNext`), without a lock, and then marks each at the revision it read
(`MarkNext`); `RecoveryFails` is every error that ends it, with the last call in effect
or not. The field `touched` remembers the episodes others wrote since the start, `by`
the operation behind a snapshot; nothing in the code's steps reads them.

**Supervision.** `app` is the snapshot of the supervisor; `loop` the run loop and
the `RunTask` it calls; `preview` the check of a candidate and its task; `steps` the
goroutines of `runStep`, abandoned ones included for as long as they are inside an
operation. A step passes `Claim`, `Authorize`, `Begin`, `Dispatch`, `Proceed`,
`Returns`, `Settle`, `Leave`: one section under the supervisor's lock or one call
outside it each. `Proceed` is the last look at the context
(`knowledge_source_receipts.go:135`), with which a read counts as begun; a control
accepted between that look and the call of the source (line 144) lets the read run under
an ended context, and its outcome is any of those `Returns` offers. The journal is `AttemptLog`, with attempt *n* for the *n*-th read;
`AttemptJournal_proofs` shows that the journal lives up to it. A journal call either
reaches the journal or does not, and the step goes on only if it was confirmed. Whether
a read crosses the byte ceiling is chosen as it settles (`big`); a receipt and what
`Settled` is told of it are one step. `over` is the clock past the deadline, `ended`
the contexts that follow.

**Music.** `desk` is the queue with its epoch and version; `replies` and `reports` are
what travels, in any order; `taken` is the adapter's `lastState`; `awaiting` holds the
states whose play waits for the voice connection, the await that lets replies overlap;
`music` is the player. A command is handled where it reaches the desk, and its reply
travels. A search is abstracted: any number may be under way, so an addition may come
at any moment, with the room looked at then. `history` remembers how often each play
was noted; whether the adapter was `disturbed`, that is a reply or a report was lost, a
play failed, or a reply of an ended process was taken after one of its successor; and
whether a play that waited for the connection came after the newest state had been acted
on (`overtaken`), until a newer state is taken. The properties alone read it, and `Lose`
for its bound.

## Runs

| Run | Instance | Shows |
|---|---|---|
| `ordered_queue` | 3 callers, 2 keys, 3 lane objects, positions 0–2, bound 2 | `LaneShared`, `NoIdleLane`, `AdmissionsSerialized`, `BoundHeld`, `InPositionOrder`, and that the queue implements `PositionOrder` |
| `ordered_queue_live` | the same callers on one key | every admission and every wait ends |
| `archived_sends` | 3 requests, 2 sends, 2 attempts, bound 2, deletion and restart | pending turns are owned, contexts complete, replies final and in order, the current attempt stoppable |
| `archived_sends_full` | the same with bound 1 | never more pending turns than the bound, although a turn is recorded before its ticket counts |
| `archived_sends_live` | 2 requests, 2 sends, lost writes, cut retries, deletion | every request ends |
| `retry_cut` | 2 requests, cut retries | **violates** `PendingOwned`, see below |
| `self_chat` | 2 phone goroutines, 1 message delivered any number of times, a desktop, 2 conversations, revisions to 3, lists of 2 | one conversation per first message, only an untitled empty one is named, `/sim` deletes only what the list showed |
| `attempt_journal` | 2 attempts, 2 episodes, 3 keys and the 2 of interruptions, 1 report of either kind, a clock of two instants that moves both ways | one effect and one answer per operation, one episode per attempt, final deletion, a recovery that misses nothing, and that the journal implements `AttemptLog` |
| `supervision` | 2 sources, 3 reads, 3 controls | one read at a time, reads and preparations of the current plan only, ended applications stay ended, no lost wakeup, an end after the deadline |
| `music` | 2 processes with 1 and 4 changes of their queues, 3 tracks, 1 waiting, 2 replies, 1 report, 1 loss | each play leaves the queue once and is remarked on once; with nothing lost or on its way the adapter is in step with the queue unless a play was overtaken |
| `music_volume` | 1 process with 5 changes, 2 volumes, 1 reply | **violates** `VolumeFollows`, see below |
| `music_overtaken` | the same with 1 volume | **violates** `SpeakersFollow`, see below |

Why these bounds. Three callers are one in a lane, one looking it up and one
refused, the case in which a dropped lane could be made twice; a third position lets
a wait skip over an equal one. Three requests are an attempt ending, its retry, and
another send waiting behind both; two attempts let an older attempt's remains meet
the newer one. Two conversations let the one the phone chose differ from the one
that is latest by then; three revisions are its creation and two changes after it was
read. `MaxAttempts`, `MaxTurns` and `MaxRevision` bound the models only, in the guards
of the steps that would exceed them; the code has no such limits. `SYMMETRY` is used
in safety runs alone, over sets whose members the specification never tells apart.

In `attempt_journal` two episodes are one that holds an attempt and one that would
claim it too; three free keys are a start, a change, and a call to repeat or to race
with recovery, whose keys are its own. One report per episode lets a second one be
refused at the limit. One attempt is recovery's to interrupt and the other is not.
In `supervision` the third control is the one that exhausts the application, so a plan
is replaced twice before it; the third read lets a replaced plan meet the limit of
reads. The three limits are the code's own. In `music` the first process exists to leave
a player and late replies behind; four changes in the second are an addition, its end,
another addition and a late report. One volume is enough there, since the volume is
the subject of its own run. `MaxEpochs`, `MaxVersion`, `MaxEntries`, `MaxReplies` and
`MaxReports` are bounds of the model only; so are `MaxClock` and `LastEpisode` of the
journal, while `MaxEvidence` and `Limit` stand for limits of the code.

`archived_sends_live`, `attempt_journal`, `supervision` and the runs of `Music` disable
the deadlock check: a conversation that was deleted, an application that ended, and a
queue at a bound of the model, have nothing left to do. In the other runs a queue or a
request that stops with work left would be reported. (In `SelfChat` and in
`ArchivedSends` with restarts, a restart is always possible, so the check says little
there; `EveryRequestEnds` is checked without restarts, and reports a request that stops.)

## Fairness

`OrderedQueue!Fairness`: `Lock` is strongly fair because Go's `sync.Mutex` hands
itself to a goroutine that has waited a millisecond; every other step is weakly fair
because it is code that runs to its next blocking point. `Release` is fair only after
a wait has ended (`pc # "admitted"`): a caller that was admitted need not wait.

`ArchivedSends!Fairness`: the same for `BeginAdmit`; archive statements return and the
model's client has a deadline, so `Record`, `Bump`, `Proceed`, `Answer` and `Leave` are
weakly fair as groups: which of their outcomes happens is not assumed. Nothing is
assumed of submissions, stops, deletions, ended contexts or restarts.

`Supervision!Spec`: `LoopStep` is weakly fair, because the run loop and the task runner
are one goroutine that Go schedules and that blocks only where the model's guards say.
Nothing else is: a read may never return, a step may never be scheduled, a deadline may
never pass. `Replans` and `EndsAfterDeadline` hold all the same, the first because
each change of the snapshot signals the channel the loop waits on, the second because
`runStep` waits for its context as well as for its step.

`AttemptJournal` and `Music` state safety only and assume no fairness.

## Proofs

`OrderedQueue_proofs` holds for every finite set of callers, any keys, lane objects
and positions, and any bound of at least one. It assumes the named assumptions of
`OrderedQueue`: callers are finitely many, positions are naturals with 0 among them,
the bound is positive, and the nil pointer is none of the values it stands beside.

The inductive invariant `IInv` is `Lanes /\ Order`.

* `Lanes`: what the map, the lane objects and the callers say of each other. A caller
  between `Join` and its leaving uses the very object the map has for its key; `users`
  counts exactly those callers; `entries` are exactly those whose ticket is enrolled;
  a dropped lane has no user. It is preserved by itself. `TypeOK` alone is not
  inductive: that `users` stays a number needs the count to be exact.
* `Order`: what an admission and a wait may rely on. The mutex is held by whoever is
  between `Lock` and `Unlock`; a lane read as not full stays so while the admission
  holds the mutex, since entries only leave; the position recorded lies behind every
  entry; a wait's snapshot holds every earlier entry still enrolled.

One lemma per action shows that it keeps each half; `Invariance` combines them.
From it follow `TypeCorrect`, `LaneSharedHolds`, `NoIdleLaneHolds`,
`AdmissionsSerializedHolds`, `BoundHeldHolds`, `InPositionOrderHolds`, and
`QueueImplementsOrder`: each step of the queue is a `Join`, a `Run` or a `Leave` of
`PositionOrder`, or changes nothing there.

`AttemptJournal_proofs` holds for any attempts, keys, references and recoverable
attempts, any positive number of episodes and any limits. It assumes what
`AttemptJournal` names: the key of an interruption belongs to one attempt and to no
caller, and `None` is none of the values it stands beside.

Its inductive invariant is `Sound`: `TypeOK`, `OneClaimEach`, `OneEffectPerOperation`
and `SameAnswer`, joined by what they need of one another.

* `OperationsLinked`: an operation row that was not fenced names its own request's
  episode and, unless that was deleted, a revision the episode has. Without it an
  operation could name a revision still to be written, and `SameAnswer` would answer
  with it.
* `AnswersRecorded`: the key of an answer is never free again, so a later call under it
  cannot be recorded anew.
* `ForgottenEmpty`: a forgotten episode has no revisions, which with the claim it keeps
  makes `DeletedForGood` a fact of every step.
* `SentKnown`: what was dispatched is not prepared any more, which `LifeOfAnAttempt`
  needs to map each write to a step of `AttemptLog`.

`SoundAlways` proves it. What `Store` keeps is proved once and shared by a caller's call,
by recovery, and by a recovery that fails after its commit. `TypeCorrect`, `ClaimsApart`,
`OneEffect`, `AnswersStand`, `DeletionIsFinal` and `JournalImplementsLife` follow: a write
maps to the step its action names, a call that changes nothing to a stutter, and
`Forget` to `Forget` of the attempt the episode holds.

`RecoveryMissesNothing` needs a second inductive invariant, `Covered`. It says that an
interruption whose key was used left its attempt interrupted or settled, so recovery's own
call is never answered from an older one while there is still something to mark; and
that every row before the cursor that is still to be marked, and that nobody wrote since
the start, is in the list as it stands, at its current revision.

So each of the seven properties of `attempt_journal` is a theorem as well.

`ArchivedSends_proofs` holds for any finite set of requests, any send ids, any bound
of at least one and any number of attempts; deletions and restarts are included. It
starts from what each statement of the store makes of a transcript (`FinishedKeeps` and
the lemmas behind it), and has two invariants.

* `Sound` holds whatever fails. It ties the lane to the requests (`LaneHeld`), says
  that a request at work answers the current attempt of a turn still pending and that no
  two answer the same (`WorkCurrent`, `WorkApart`), that a tracked send is a request's
  that can be stopped (`StopsTracked`), that what is about to join the lane is the last
  turn (`JoinsLast`), that what was dispatched is first in it (`FirstInLane`), and that
  the model was not yet asked for what is on its way to it (`AskedFresh`).
  `CurrentAttemptStoppable`, `AskedOncePerAttempt`, `JoinsInOrder` and `RepliesKept`
  follow: none of them depends on every write succeeding.
* `Answered` adds what does: that every pending turn has a request at work on it. It
  assumes `NothingLost`, that `Faults` holds neither `"LostWrite"` (an outcome that could
  not be stored) nor `"RetryCut"` (a request that ends between the statements of a
  retry). The instances of the passing safety runs satisfy it, and the run `retry_cut`
  shows that the second half is needed; a turn whose outcome was lost stays pending in
  the same way. `ContextComplete`, `NoLateReply`, `PendingOwned` and `PendingBounded` are
  theorems under this hypothesis, and named so.

`JoinsInOrderAlways` is the contract `OrderedQueue` asks of its callers, so the two
proofs meet there.

`SelfChat_proofs` holds for any conversations, phone goroutines and messages, and any
sizes of the list, the transcripts and the revisions. It assumes that `None` is none of
the values it stands beside. `Sound` says that whoever is between two steps of the phone
holds its lock and has what it needs (`Locked`); that every version remembered, by a
goroutine, in the list and for the deletion, has a smaller revision than the archive's or
is exactly what the archive holds (`Recalled`), because every change that the phone could
miss moves the revision; and that while a goroutine that found nothing has not started
its conversation, only the desktop has started any (`NoneContinued`). With them a delete
or a rename that names a version is a delete or a rename of what was seen:
`StartsOnceAlways`, `NamesOnlyUntitledAlways` and `DeletesAsSeenAlways`.

`Supervision_proofs` holds for any numbers of sources, reads and controls, each
positive. It assumes that `None` is no receipt. That one read is under way is hard here
because the run loop looks at `pending` only when it takes a plan, the check of a
candidate only when it starts, and a step only at the state and the revision. `Sound`
therefore says which task a step is of and that a step without one is inside its
operation (`StepsOwned`); that `pending` counts the one step inside (`InsideCounted`);
that while the loop works on the current plan no check reads, and the other way round
(`PlanAlone`, `PreviewAlone`); that a live context of a plan's task belongs to the
current revision (`PlanLive`); what the journal holds of a read that is not settled yet
(`Unsettled`); and that what the loop went past has its settled receipt (`ReadsKept`).
`OneReadAlways`, `PreparedAlways`, `ReadsStartCurrentAlways` and `TerminalStaysAlways`
follow.

`Music_proofs` holds for any sizes of the queue and any numbers of processes, replies and
reports. `Sound` has a part for the queue (what plays and what waits stands in the order of
the entry numbers, so a play that left is below what plays: `Ordered`, `Reached`), one for
the counts of each play (`Counted`), one for what is known of the queue elsewhere (a
version the adapter holds is one the queue had: `Outside`, `PlayerKnown`), and one that is
claimed only while nothing disturbed the adapter (`Undisturbed`): the newest state is
taken or on its way, the player followed what was taken last, and what it does not do for
that state, because its track ended or it is gone, a report on its way says. The last two,
`EndKnown` and `GoneKnown`, are needed for the rest to say anything with nothing on its
way: without them a player silent at the newest state would be possible.
`EachPlayOnceAlways` and `FollowsUnlessOvertakenAlways` follow. The second covers
overtaken plays too: with nothing on its way the newest state was taken and a queue that
plays has a player; `Follows` shows that only a play that came after that state can leave
the player at an older one, and that taking a newer state ends it, since the player's
state is never newer than the one taken (`Behind`).

Each of these inductive invariants was model-checked on the instance of its run before it
was proved, `Sound` of `ArchivedSends` with every kind of fault.

Only model-checked. Every invariant and every action property of a passing run is a
theorem. Liveness is not: `EveryAdmissionEnds` and `EveryWaitEnds` of the queue,
`EveryRequestEnds` of the requests, `Replans` and `EndsAfterDeadline` of the supervision
rest on fairness, which the prover does not handle. `SpeakersFollow` and `VolumeFollows`
are false, and `PendingOwned` is without `NothingLost`, as the runs that violate them show.

## Disagreements found

* **A cut retry leaves a turn nobody answers** (`retry_cut`). `retryTurn` reopens the
  turn in one statement, moves the revision in a second and rereads the turn in a
  third, outside a transaction and on the request's context (`store.go:358-378`). When
  that context ends in between, the request answers an error and the turn stays
  pending until the next restart; it cannot be retried, since it is pending, and a
  repeat of the send is told it is on its way.
* **A play overtaken by a stop plays on** (`music_overtaken`). `applyMusic` compares the
  state with what plays locally before it awaits the voice connection (`voice.ts:579-584`)
  and does not look again after it. When `/play` waits for the connection and a skip or a
  stop is applied meanwhile, there is no player yet to stop; then the track plays, and
  `music.local = step.next` (`voice.ts:621`) goes back to the older state. Its end is
  reported and ignored, since no entry plays, so it plays out on an empty queue unless a
  reply of a still newer version comes. `commands.ts:115` says that a late reply changes
  nothing on the speakers, `reconcile.ts:75-76` that an older state is ignored.
* **A volume set while nothing plays is not heard** (`music_volume`). For a new track
  `reconcile` emits a volume only when it is not 100, and while nothing plays it emits
  none (`reconcile.ts:81-86`), but the player starts a track at the volume it was last
  told (`voice.ts:591`). After `/volume 40`, the track's end and `/volume 100`, the next
  track plays at 40 while the panel says 100.

More that the models show, none of it a fault against the design. An
application that `Status` reported expired may end as failed, when the run loop is being
refused at that moment (`knowledge_source_supervisor.go:342-364`); `TerminalStays`
excepts it by name. And entry numbers begin again with each orchestrator, so a report
from before its restart may advance the first track of the new queue; `EachPlayOnce`
speaks of one process's reports only. In the same way a delayed reply of the ended process
is taken for newer than those of its successor (`reconcile.ts:76`, `commands.ts:116`), until
the next one comes; the properties of the speakers exclude it as a disturbance. A send id
is looked for in the conversation the phone continues now, not in the one that recorded
it (`store.go:294`), so a message delivered again after `/nova` or a newer desktop
conversation is a new turn there: `dokja_docs/conversation-history-plan.md:203-207` says
so, and the comment at `chat_self_chat.go:31-32` ("the archive answers it once") promises
more than that design.

## Not modelled

Of the conversations: text, that is what a prompt grounds a reply with (readings, facts,
lookups, persona), titles, catalogs, budgets of the context (the model's context is every
earlier completed turn). The progress reports of a waiting send. Clocks: expiry may come
at any moment, and recovery interrupts every pending turn whatever its creation time.
Reading discussions in the list, and its pages: `Continued` sees all general
conversations here, in the code those among the first fifty of both kinds. A failing
`Recover`. Failures of SQLite other than those in `Faults`.

Of the journal: the contents of attempts, observations and predictions, and their
validation; rows that cannot be read (recovery counts and skips them); which past
attempts are eligible evidence (`eligibility.go`, which changes no state); scopes, which
share nothing but the database.

Of the supervision: the replay of a control by its operation key, which answers from a
table and changes nothing; acknowledgements and the desktop's events; the host's start,
at which `AttemptJournal`'s recovery runs; the end of the process, after which a
supervised application is gone. Retries, subscribers and states of the task runner that
the supervisor does not use.

Of the music: the stream prepared ahead of its play (it is looked up by entry alone,
`voice.ts:587`, so whether it may outlive an orchestrator's queue is open), the panel, the text of a remark on its
way back, the radio, a restart of the adapter, more than one server. At most one loss
disturbs a run; after it only `EachPlayOnce` and the types are claimed. What ends a
disturbance in the code (a newer reply, or a skip after a lost report) is not stated.

The components of the table above without a module. Most of them (services, feeds,
interfaces, runtime) are request-by-request code around a database, a network client or
a terminal, whose correctness is in their text, their SQL and their layout; the ones
with behaviour of their own are in the plan.

## Plan

1. *(done)* `PositionOrder`, `OrderedQueue`, its proofs; `Transcript`, `ArchivedSends`;
   `SelfChat`.
2. *(done)* `AttemptLog`, `AttemptJournal` with its proofs; `Supervision` on top of
   `AttemptLog`; `Music`.
3. *(done)* Proofs of `ArchivedSends`, `SelfChat`, `Supervision` and `Music`.
4. Proofs left: that the lane of `ArchivedSends` (`admitting`, `queue`) is, between two
   restarts, the lane `PositionOrder` promises. `JoinsInOrder`, `Room` and `FirstInLane` are
   its parts; a refinement needs to remember, besides, which waits ended.
5. Where room is left: chat sessions, the replacement of the runtime daemon, deliveries,
   and the task runner's retries and subscribers as a module of its own.

Every property aims at a hazard of `PROJECT.json`.
