--------------------------- MODULE AttemptJournal ---------------------------
(***************************************************************************)
(* The application journal (dokja_memory/application/journal.go) over its  *)
(* PostgreSQL store (application_journal/postgres.go).  Every call is one  *)
(* transaction under the scope's advisory lock, so it is one step here; a  *)
(* call that is refused, denied, or rolled back changes nothing and is a   *)
(* stuttering step.  A commit whose answer is lost on the way is a call    *)
(* that took effect and that the caller may repeat.  The callers are any   *)
(* callers, with keys of their own or with the key of an interruption;     *)
(* recovery is RecoverUnsettled, run when an orchestrator starts.          *)
(*                                                                         *)
(* One scope.  A request stands for its own digest.  Attempt contents are  *)
(* left out: the claim of an attempt reference stands for them.            *)
(***************************************************************************)
EXTENDS Integers, Sequences, FiniteSets

CONSTANTS
    Attempts,     \* attempt references
    Free,         \* operation keys callers invent
    InterruptKey, \* InterruptKey[a]: the operation key "<a>:interrupt"
    LastEpisode,  \* episodes are 1..LastEpisode, in the order of their references
    Refs,         \* references of observations
    Recoverable,  \* attempts recovery's admission accepts
    MaxEvidence,  \* most observations an episode holds
    Limit,        \* most unsettled attempts one recovery lists
    MaxClock,     \* bound of the wall clock, which may move either way
    None

Episodes == 1..LastEpisode
Keys == Free \cup {InterruptKey[a] : a \in Attempts}
Time == 0..MaxClock

ASSUME EpisodesAssumption == LastEpisode \in Nat \ {0}
ASSUME EvidenceAssumption == MaxEvidence \in Nat /\ Limit \in Nat /\ MaxClock \in Nat
ASSUME KeysAssumption == /\ None \notin Keys \cup Attempts
                         /\ \A a, b \in Attempts : InterruptKey[a] = InterruptKey[b] => a = b
                         /\ \A a \in Attempts : InterruptKey[a] \notin Free

VARIABLES
    claim,      \* claim[e]: the attempt episode row e holds, None without a row
    revisions,  \* revisions[e]: the stored snapshots, the last one current
    forgotten,  \* episodes whose content was deleted
    operations, \* operations[k]: the operation row of key k, or None
    clock,      \* the wall clock
    recovery,   \* RecoverUnsettled as it stands
    answered    \* every answer given, heard or lost: <<request, revision>> (history)

store == <<claim, revisions, forgotten, operations>>
vars == <<store, clock, recovery, answered>>

Reports == [ref : Refs, known : BOOLEAN]
Snapshots == [phase : {"prepared", "dispatched", "interrupted", "settled"}, sent : BOOLEAN,
              reports : SUBSET Reports, begun : Time, at : Time, by : Keys]
    \* by: the operation that wrote it (history)

\* What a request holds, and what the row of an operation holds.
Actions == {"begin", "dispatch", "interrupt", "observe"}
RequestRows == [action : Actions, key : Keys, episode : Episodes, attempt : Attempts,
                expected : Nat, report : Reports \cup {None}]
OperationRows == [episode : Episodes, request : RequestRows \cup {None}, revision : Nat]

ASSUME RowsAssumption == None \notin RequestRows /\ None \notin OperationRows

\* No episode has more revisions than a start, a dispatch, an interruption and
\* its reports write, so no caller expects more.
Expected == 1..(MaxEvidence + 3)

\* The requests callers make, with keys of their own or an interruption's.
RequestsOf(actions, keys, attempts, expected, reports) ==
    [action : actions, key : keys, episode : Episodes, attempt : attempts,
     expected : expected, report : reports]

Requests == RequestsOf({"begin"}, Free, Attempts, {0}, {None})
            \cup RequestsOf({"dispatch", "interrupt"}, Free, Attempts, Expected, {None})
            \cup RequestsOf({"observe"}, Free, Attempts, Expected, Reports)
            \cup UNION {RequestsOf({"interrupt"}, {InterruptKey[a]}, {a}, Expected, {None}) :
                        a \in Attempts}

Off == [stage |-> "off", before |-> 0, cursor |-> 0, listed |-> <<>>, touched |-> {}]

Init == /\ claim = [e \in Episodes |-> None]
        /\ revisions = [e \in Episodes |-> <<>>]
        /\ forgotten = {}
        /\ operations = [k \in Keys |-> None]
        /\ clock = 0
        /\ recovery = Off
        /\ answered = {}

-----------------------------------------------------------------------------
Held(e) == Len(revisions[e])
Current(e) == revisions[e][Held(e)]

\* Altered: the claim of the attempt is not looked at.
MatchesUnclaimed(q) == /\ q.expected = Held(q.episode)
                       /\ Held(q.episode) > 0 => claim[q.episode] = q.attempt

\* The compare-and-swap of apply: the current snapshot is the attempt's, at the
\* revision expected, and no other episode claimed the attempt.
Matches(q) == /\ q.expected = Held(q.episode)
              /\ Held(q.episode) > 0 => claim[q.episode] = q.attempt
              /\ \A e \in Episodes : claim[e] = q.attempt => e = q.episode

\* The clock is not before the current snapshot.
InOrder(q) == Held(q.episode) > 0 => clock >= Current(q.episode).at

\* Altered: a settled attempt may be interrupted.
AdmitsLateInterrupt(q) ==
    CASE q.action = "begin"     -> TRUE
      [] q.action = "dispatch"  -> Current(q.episode).phase = "prepared"
      [] q.action = "interrupt" -> TRUE
      [] q.action = "observe"   ->
           /\ Current(q.episode).sent
           /\ Cardinality(Current(q.episode).reports \cup {q.report}) <= MaxEvidence

\* What the requested change needs of the current snapshot.
Admits(q) ==
    CASE q.action = "begin"     -> TRUE
      [] q.action = "dispatch"  -> Current(q.episode).phase = "prepared"
      [] q.action = "interrupt" -> Current(q.episode).phase # "settled"
      [] q.action = "observe"   ->
           LET now == Current(q.episode) IN
           /\ now.sent
           /\ \A r \in now.reports : r.ref = q.report.ref => r = q.report
           /\ Cardinality(now.reports \cup {q.report}) <= MaxEvidence

\* An interruption of what is interrupted, and a report known already, change nothing.
Changes(q) == /\ ~(q.action = "interrupt" /\ Current(q.episode).phase = "interrupted")
              /\ ~(q.action = "observe" /\ q.report \in Current(q.episode).reports)

\* The snapshot the change writes.
Written(q) ==
    IF q.action = "begin"
    THEN [phase |-> "prepared", sent |-> FALSE, reports |-> {}, begun |-> clock,
          at |-> clock, by |-> q.key]
    ELSE LET now == [Current(q.episode) EXCEPT !.at = clock, !.by = q.key] IN
         CASE q.action = "dispatch"  -> [now EXCEPT !.phase = "dispatched", !.sent = TRUE]
           [] q.action = "interrupt" -> [now EXCEPT !.phase = "interrupted"]
           [] q.action = "observe"   ->
                [now EXCEPT !.reports = @ \cup {q.report},
                            !.phase = IF q.report.known THEN "settled" ELSE @]

\* Altered: the operation row names the revision that was read.
StoreRevisionRead(q) ==
    /\ operations[q.key] = None
    /\ q.episode \notin forgotten
    /\ Matches(q) /\ InOrder(q) /\ Admits(q)
    /\ revisions' = IF Changes(q) THEN [revisions EXCEPT ![q.episode] = Append(@, Written(q))]
                                  ELSE revisions
    /\ operations' = [operations EXCEPT ![q.key] =
          [episode |-> q.episode, request |-> q, revision |-> q.expected]]
    /\ claim' = [claim EXCEPT ![q.episode] = q.attempt]
    /\ UNCHANGED forgotten

\* The first call under its key, committed.
Store(q) ==
    /\ operations[q.key] = None
    /\ q.episode \notin forgotten
    /\ Matches(q) /\ InOrder(q) /\ Admits(q)
    /\ LET history == IF Changes(q) THEN Append(revisions[q.episode], Written(q))
                                    ELSE revisions[q.episode]
       IN  /\ revisions' = [revisions EXCEPT ![q.episode] = history]
           /\ operations' = [operations EXCEPT ![q.key] =
                 [episode |-> q.episode, request |-> q, revision |-> Len(history)]]
           /\ claim' = [claim EXCEPT ![q.episode] = q.attempt]
    /\ UNCHANGED forgotten

\* Altered: a key that was used answers any request.
RecordedAnyDigest(q) == /\ operations[q.key] # None
                        /\ operations[q.key].request # None
                        /\ q.episode \notin forgotten

\* The same call again: the recorded result, and nothing is written.
Recorded(q) == /\ operations[q.key] # None
               /\ operations[q.key].request = q
               /\ q.episode \notin forgotten

Answer(q) == answered' = answered \cup {<<q, operations'[q.key].revision>>}

Touch(e) == recovery' = IF recovery.stage = "off" THEN recovery
                        ELSE [recovery EXCEPT !.touched = @ \cup {e}]

\* Begin, MarkDispatched, MarkInterrupted and Observe of a caller.
Call(q) == /\ Store(q)
           /\ Answer(q)
           /\ Touch(q.episode)
           /\ UNCHANGED clock

Repeat(q) == /\ Recorded(q)
             /\ UNCHANGED store
             /\ Answer(q)
             /\ UNCHANGED <<clock, recovery>>

\* What stays of an operation of a deleted episode.
Fence(e) == [episode |-> e, request |-> None, revision |-> 0]

\* Altered: the keys of the deleted episode are deleted with it.
ForgetKeys(e) ==
    /\ claim[e] # None
    /\ e \notin forgotten
    /\ operations' = [k \in Keys |->
          IF operations[k] # None /\ operations[k].episode = e THEN None ELSE operations[k]]
    /\ revisions' = [revisions EXCEPT ![e] = <<>>]
    /\ forgotten' = forgotten \cup {e}
    /\ Touch(e)
    /\ UNCHANGED <<claim, clock, answered>>

\* Forget deletes the content and keeps the fences: the row, its claim, its keys.
Forget(e) ==
    /\ claim[e] # None
    /\ e \notin forgotten
    /\ operations' = [k \in Keys |->
          IF operations[k] # None /\ operations[k].episode = e
          THEN Fence(e) ELSE operations[k]]
    /\ revisions' = [revisions EXCEPT ![e] = <<>>]
    /\ forgotten' = forgotten \cup {e}
    /\ Touch(e)
    /\ UNCHANGED <<claim, clock, answered>>

ClockMoves == /\ clock' \in Time
              /\ UNCHANGED <<store, recovery, answered>>

-----------------------------------------------------------------------------
\* Altered: the instant of the start is taken after it.
RestartLater == /\ recovery' = [Off EXCEPT !.stage = "listing", !.before = clock + 1]
                /\ UNCHANGED <<store, clock, answered>>

\* An orchestrator starts: what the last one held is gone, the store is not.
Restart == /\ recovery' = [Off EXCEPT !.stage = "listing", !.before = clock]
           /\ UNCHANGED <<store, clock, answered>>

\* Altered: only attempts that were dispatched are listed.
UnsettledDispatched(e) == /\ Held(e) > 0
                          /\ Current(e).phase = "dispatched"
                          /\ Current(e).begun < recovery.before

Unsettled(e) == /\ Held(e) > 0
                /\ Current(e).phase \in {"prepared", "dispatched"}
                /\ Current(e).begun < recovery.before

\* Unsettled reads without a lock, one page (here one episode) at a time.
ListNext ==
    /\ recovery.stage = "listing"
    /\ recovery.cursor < LastEpisode
    /\ Len(recovery.listed) < Limit
    /\ LET e == recovery.cursor + 1
           found == [episode |-> e, attempt |-> claim[e], revision |-> Held(e)]
       IN  recovery' = [recovery EXCEPT !.cursor = e,
                          !.listed = IF Unsettled(e) THEN Append(@, found) ELSE @]
    /\ UNCHANGED <<store, clock, answered>>

ListDone ==
    /\ recovery.stage = "listing"
    /\ recovery.cursor = LastEpisode \/ Len(recovery.listed) >= Limit
    /\ recovery' = [recovery EXCEPT !.stage = "marking"]
    /\ UNCHANGED <<store, clock, answered>>

MarkRequest(m) == [action |-> "interrupt", key |-> InterruptKey[m.attempt], episode |-> m.episode,
                   attempt |-> m.attempt, expected |-> m.revision, report |-> None]

\* MarkInterrupted at the revision listed; interrupted, replayed, conflicting and
\* not admitted attempts are all left behind for the next one.
MarkNext ==
    /\ recovery.stage = "marking"
    /\ recovery.listed # <<>>
    /\ LET q == MarkRequest(Head(recovery.listed)) IN
       /\ q.episode \notin forgotten
       /\ \/ q.attempt \in Recoverable /\ Store(q)
          \/ /\ \/ operations[q.key] # None /\ operations[q.key].revision > 0
                \/ operations[q.key] = None /\ ~Matches(q)
                \/ /\ operations[q.key] = None
                   /\ Matches(q) /\ InOrder(q)
                   /\ ~Admits(q) \/ q.attempt \notin Recoverable
             /\ UNCHANGED store
    /\ recovery' = [recovery EXCEPT !.listed = Tail(@)]
    /\ UNCHANGED <<clock, answered>>

\* Any other error ends it, and the rest stays as it was: a forgotten record, a
\* clock behind the record, storage, the ten seconds, a commit that was not heard.
RecoveryFails ==
    /\ recovery.stage = "listing" \/ (recovery.stage = "marking" /\ recovery.listed # <<>>)
    /\ \/ UNCHANGED store
       \/ /\ recovery.stage = "marking"
          /\ Head(recovery.listed).attempt \in Recoverable
          /\ Store(MarkRequest(Head(recovery.listed)))
    /\ recovery' = Off
    /\ UNCHANGED <<clock, answered>>

RecoveryEnds ==
    /\ recovery.stage = "marking"
    /\ recovery.listed = <<>>
    /\ recovery' = Off
    /\ UNCHANGED <<store, clock, answered>>

Next == \/ \E q \in Requests : Call(q) \/ Repeat(q)
        \/ \E e \in Episodes : Forget(e)
        \/ ClockMoves \/ Restart \/ ListNext \/ ListDone
        \/ MarkNext \/ RecoveryFails \/ RecoveryEnds

Spec == Init /\ [][Next]_vars

-----------------------------------------------------------------------------
\* Rows have the shapes the schema gives them.  (Schema: postgres.go:117.)
TypeOK ==
    /\ claim \in [Episodes -> Attempts \cup {None}]
    /\ revisions \in [Episodes -> Seq(Snapshots)]
    /\ forgotten \subseteq Episodes
    /\ operations \in [Keys -> OperationRows \cup {None}]
    /\ clock \in Time
    /\ recovery \in [stage : {"off", "listing", "marking"}, before : Time,
                     cursor : 0..LastEpisode, touched : SUBSET Episodes,
                     listed : Seq([episode : Episodes, attempt : Attempts, revision : Nat \ {0}])]
    /\ answered \subseteq RequestRows \X Nat

\* An attempt belongs to one episode for good, a deleted one too: no two rows hold
\* it, and a row without a claim holds nothing.  (The claim that is checked at
\* journal.go:151.)
OneClaimEach ==
    /\ \A e, f \in Episodes : claim[e] = claim[f] /\ claim[e] # None => e = f
    /\ \A e \in Episodes : (claim[e] # None) <=> (revisions[e] # <<>> \/ e \in forgotten)

\* One operation writes one revision, however often the call is repeated after a
\* lost answer, a restart, or by recovery: each stored snapshot is the recorded
\* result of the operation that wrote it.  (Replay and CAS share one boundary,
\* journal.go:19-26.)
OneEffectPerOperation ==
    \A e \in Episodes : \A n \in 1..Held(e) :
        LET k == revisions[e][n].by IN
        operations[k] # None /\ operations[k].episode = e /\ operations[k].revision = n

\* What a caller was told stays the answer to that call until the record is
\* deleted, and then no answer is given: the first call and every repetition name
\* one revision.  (Replay, journal.go:119-134.)
SameAnswer ==
    \A given \in answered :
        LET q == given[1] IN
        \/ q.episode \in forgotten
        \/ /\ operations[q.key].request = q
           /\ operations[q.key].revision = given[2]
           /\ given[2] <= Held(q.episode)

\* Deleted content never comes back under any key, old or new, and the keys and
\* the claim of a deleted episode are never free again.  (Forget's fences,
\* postgres.go:383-385.)
DeletedForGood ==
    [][/\ forgotten \subseteq forgotten'
       /\ \A e \in forgotten : revisions'[e] = <<>> /\ claim'[e] = claim[e]
       /\ \A k \in Keys : operations[k] # None =>
            \/ operations'[k] = operations[k]
            \/ /\ operations[k].episode \in forgotten'
               /\ operations'[k] = Fence(operations[k].episode)]_vars

\* Recovery that looked at every row and met no error leaves no attempt of its
\* capability prepared or dispatched from before the start, except in an episode
\* somebody changed since.  (RecoverUnsettled, journal.go:316-347.)
RecoveryComplete ==
    [][RecoveryEnds /\ recovery.cursor = LastEpisode =>
         \A e \in Episodes :
            /\ Held(e) > 0 /\ claim[e] \in Recoverable
            /\ Current(e).phase \in {"prepared", "dispatched"}
            /\ Current(e).begun < recovery.before
            => e \in recovery.touched]_vars

\* The journal implements the life of an attempt.
Holder(a) == CHOOSE e \in Episodes : claim[e] = a
Claimed(a) == \E e \in Episodes : claim[e] = a
PhaseOf(a) == IF ~Claimed(a) THEN "none"
              ELSE IF Holder(a) \in forgotten THEN "forgotten"
              ELSE Current(Holder(a)).phase
SentOf(a) == Claimed(a) /\ Holder(a) \notin forgotten /\ Current(Holder(a)).sent

Log == INSTANCE AttemptLog WITH phase <- [a \in Attempts |-> PhaseOf(a)],
                                sent <- [a \in Attempts |-> SentOf(a)]

\* Whatever callers, recovery and deletion do, an attempt is prepared once,
\* dispatched at most once, interrupted at most once, settled only after its
\* dispatch, and settled for good.  (The phases of journal.go.)
LifeOfAnAttempt == Log!Spec
=============================================================================
