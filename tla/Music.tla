-------------------------------- MODULE Music --------------------------------
(***************************************************************************)
(* Music in one server's voice channel.  The orchestrator's music desk     *)
(* keeps the queue; each reply carries the queue's state, and the Discord  *)
(* adapter makes the speakers follow the newest state it has seen.         *)
(* Commands of people are handled where they reach the desk; what travels  *)
(* is the desk's replies and the adapter's own reports (a track ended, the *)
(* voice connection is gone).  They arrive in any order and may be lost.   *)
(* The orchestrator may restart: its queue is empty again, under a new     *)
(* epoch.                                                                  *)
(***************************************************************************)
EXTENDS Naturals, Sequences, FiniteSets

CONSTANTS MaxWaiting,   \* how many tracks wait behind the one playing
          Loudest,      \* the volume a queue starts with
          Volumes,      \* the volumes people ask for
          MaxEpochs,    \* bound: orchestrator processes, one after another
          MaxVersion,   \* bound: MaxVersion[e] changes of the queue of process e
          MaxEntries,   \* bound: additions to one process's queue
          MaxReplies,   \* bound: replies, or states awaiting a connection, at once
          MaxReports    \* bound: reports at once

ASSUME BoundsAssumption ==
  /\ {MaxWaiting, MaxEpochs, MaxEntries, MaxReplies, MaxReports} \subseteq Nat /\ MaxEpochs > 0
  /\ MaxVersion \in [1..MaxEpochs -> Nat]
  /\ Loudest \in Volumes

VARIABLES
  desk,       \* the orchestrator's queue of the server, and its process's epoch
  replies,    \* queue states on their way to the adapter
  reports,    \* the adapter's reports on their way to the desk
  taken,      \* the newest state the adapter took (lastState); None before the first
  awaiting,   \* states whose play waits for the voice connection
  music,      \* the adapter's player of the server; None without one
  alone,      \* only bots in the channel, the timer to leave is set
  history     \* what happened to each play, and to the adapter

vars == <<desk, replies, reports, taken, awaiting, music, alone, history>>

adapterVars == <<taken, awaiting, music, alone>>

None == [none |-> TRUE]
Nothing == 0
Epochs == 1..MaxEpochs
Entries == 1..MaxEntries

\* A new process's queue: entries and versions start again.
NewQueue(e) ==
  [epoch |-> e, now |-> Nothing, waiting |-> <<>>, paused |-> FALSE,
   volume |-> Loudest, entries |-> 0, version |-> 0, commented |-> 0]

\* The queue as a reply carries it.
State(q) == [epoch |-> q.epoch, version |-> q.version, now |-> q.now,
             paused |-> q.paused, volume |-> q.volume]

QueueStates == [epoch : Epochs, version : Nat, now : 0..MaxEntries,
                paused : BOOLEAN, volume : Volumes]

Idle == [epoch |-> 0, version |-> 0, now |-> Nothing, paused |-> FALSE, volume |-> Loudest]

NewPlayer ==
  [local |-> Idle, playing |-> Nothing, userPaused |-> FALSE, volume |-> Loudest,
   away |-> FALSE, speaking |-> FALSE, status |-> "idle"]

\* How often each play of this process was noted and remarked on, whether a
\* report ever advanced another play of the process it was about; whether the
\* adapter was ever disturbed, and whether a play undid the newest state taken.
NewHistory(disturbed, overtaken) ==
  [noted |-> [e \in Entries |-> 0], remarked |-> [e \in Entries |-> 0],
   misled |-> FALSE, disturbed |-> disturbed, overtaken |-> overtaken]

Init ==
  /\ desk = NewQueue(1)
  /\ replies = {} /\ reports = {}
  /\ taken = None /\ awaiting = {} /\ music = None /\ alone = FALSE
  /\ history = NewHistory(FALSE, FALSE)
------------------------------------------------------------------------------
(* The queue's rules. *)

Full(q) == q.now # Nothing /\ Len(q.waiting) >= MaxWaiting

Bumped(q) == [q EXCEPT !.version = @ + 1]

\* Ends what plays and starts the next track, if any.
Advanced(q) ==
  IF q.waiting = <<>>
  THEN [Bumped(q) EXCEPT !.paused = FALSE, !.now = Nothing]
  ELSE [Bumped(q) EXCEPT !.paused = FALSE, !.now = Head(q.waiting), !.waiting = Tail(q.waiting)]

Added(q) ==
  LET new == [Bumped(q) EXCEPT !.entries = @ + 1]
  IN IF q.now = Nothing
     THEN [new EXCEPT !.now = new.entries, !.paused = FALSE]
     ELSE [new EXCEPT !.waiting = Append(@, new.entries)]

Stopped(q) == [Bumped(q) EXCEPT !.now = Nothing, !.waiting = <<>>, !.paused = FALSE]

\* Altered: whatever plays is taken to be what ended.
IsPlayingAnything(q, entry) == q.now # Nothing

\* Whether a report about an entry is about the track playing.
IsPlaying(q, entry) == q.now # Nothing /\ q.now = entry

CommentDue(entry) == entry > 0 /\ (entry - 1) % 3 = 0

\* The queue is changed to q and the reply carries it.
Answer(q) ==
  /\ q.version <= MaxVersion[q.epoch]
  /\ desk' = q
  /\ replies' = replies \cup {State(q)}
  /\ Cardinality(replies') <= MaxReplies

\* The memory of a person's songs is told of the play that left the queue.
Noted(h) == IF desk.now = Nothing THEN h
            ELSE [h EXCEPT !.noted[desk.now] = @ + 1]
------------------------------------------------------------------------------
(* The desk: each operation holds the server's queue, except a search. *)

\* Altered: room is not looked at again after the search.
AddBlindly ==
  /\ desk.entries < MaxEntries
  /\ Answer(Added(desk))
  /\ UNCHANGED <<reports, adapterVars, history>>

\* A play command searches without holding the queue.  Any number of searches
\* that began while there was room, at the latest while the queue was empty,
\* may be under way; the track one finds is added if there is still room.
Add ==
  /\ ~Full(desk) /\ desk.entries < MaxEntries
  /\ Answer(Added(desk))
  /\ UNCHANGED <<reports, adapterVars, history>>

Skip ==
  /\ desk.now # Nothing
  /\ Answer(Advanced(desk))
  /\ history' = Noted(history)
  /\ UNCHANGED <<reports, adapterVars>>

Stop ==
  /\ Answer(Stopped(desk))
  /\ history' = Noted(history)
  /\ UNCHANGED <<reports, adapterVars>>

PauseOrResume ==
  /\ desk.now # Nothing
  /\ \E paused \in BOOLEAN : Answer([Bumped(desk) EXCEPT !.paused = paused])
  /\ UNCHANGED <<reports, adapterVars, history>>

SetVolume ==
  /\ \E v \in Volumes : Answer([Bumped(desk) EXCEPT !.volume = v])
  /\ UNCHANGED <<reports, adapterVars, history>>

Show ==
  /\ Answer(desk)
  /\ UNCHANGED <<reports, adapterVars, history>>

\* A report that a track ended advances the queue when that entry plays; it
\* names the entry, not the process the entry was counted by.
TrackReported ==
  \E r \in reports :
    /\ r.kind = "ended"
    /\ reports' = reports \ {r}
    /\ \/ /\ IsPlaying(desk, r.entry)
          /\ Answer(Advanced(desk))
          /\ history' = [Noted(history) EXCEPT
                           !.misled = @ \/ (r.epoch = desk.epoch /\ r.entry # desk.now)]
       \/ /\ ~IsPlaying(desk, r.entry)
          /\ Answer(desk)
          /\ UNCHANGED history
    /\ UNCHANGED <<adapterVars>>

GoneReported ==
  \E r \in reports :
    /\ r.kind = "gone"
    /\ reports' = reports \ {r}
    /\ Answer(Stopped(desk))
    /\ history' = Noted(history)
    /\ UNCHANGED <<adapterVars>>

\* A client asks for a remark on an entry; the model is asked when it plays, is
\* due one and had none.
Remark ==
  \E entry \in Entries :
    /\ entry = desk.now /\ desk.commented # entry /\ CommentDue(entry)
    /\ desk' = [desk EXCEPT !.commented = entry]
    /\ history' = [history EXCEPT !.remarked[entry] = @ + 1]
    /\ UNCHANGED <<replies, reports, adapterVars>>

\* The orchestrator restarts; its searches end, replies already sent still arrive.
Restart ==
  /\ desk.epoch < MaxEpochs
  /\ desk' = NewQueue(desk.epoch + 1)
  /\ history' = NewHistory(history.disturbed, history.overtaken)
  /\ UNCHANGED <<replies, reports, adapterVars>>

Disturbed(h) == [h EXCEPT !.disturbed = TRUE]

\* A reply or report is lost: a timeout, a broken connection.  It is only
\* logged.  Bound: nothing more is lost once the adapter was disturbed.
Lose ==
  /\ ~history.disturbed
  /\ \/ \E r \in replies : replies' = replies \ {r} /\ UNCHANGED reports
     \/ \E r \in reports : reports' = reports \ {r} /\ UNCHANGED replies
  /\ history' = Disturbed(history)
  /\ UNCHANGED <<desk, adapterVars>>

Report(kind, entry, epoch) ==
  /\ reports' = reports \cup {[kind |-> kind, entry |-> entry, epoch |-> epoch]}
  /\ Cardinality(reports') <= MaxReports
------------------------------------------------------------------------------
(* The adapter: every step runs to its next await. *)

SameTrack(local, s) ==
  /\ local.epoch = s.epoch /\ local.now # Nothing /\ local.now = s.now

Older(s, than) == s.epoch = than.epoch /\ s.version <= than.version

\* What the player keeps of the state it followed.
Followed(s) == [s EXCEPT !.paused = s.now # Nothing /\ s.paused]

\* player.unpause() and player.pause() act on a track that plays.
Unpaused(m) == IF m.status = "paused" THEN [m EXCEPT !.status = "playing"] ELSE m
PlayerPaused(m) == IF m.status = "playing" THEN [m EXCEPT !.status = "paused"] ELSE m

Silenced(m) == [m EXCEPT !.playing = Nothing, !.status = "idle"]

UserPaused(m) == PlayerPaused([m EXCEPT !.userPaused = TRUE])
UserResumed(m) ==
  LET resumed == [m EXCEPT !.userPaused = FALSE]
  IN IF m.speaking \/ m.away THEN resumed ELSE Unpaused(resumed)

\* The actions of a state whose track already plays, or that plays nothing.
Adjusted(m, s) ==
  IF s.now = Nothing
  THEN IF m.local.now # Nothing THEN Silenced(m) ELSE m
  ELSE LET louder == IF s.volume # m.local.volume THEN [m EXCEPT !.volume = s.volume] ELSE m
       IN CASE s.paused /\ ~m.local.paused -> UserPaused(louder)
            [] ~s.paused /\ m.local.paused -> UserResumed(louder)
            [] OTHER -> louder

\* The actions of a state that plays another track: play, volume, pause.
Started(m, s) ==
  LET play == [m EXCEPT !.playing = s.now, !.userPaused = FALSE, !.status = "playing",
                        !.volume = IF s.volume # Loudest THEN s.volume ELSE @]
  IN IF s.paused THEN UserPaused(play) ELSE play

\* Altered: a state is late only when a newer one reached the speakers.
LateOnSpeakers(s) == music # None /\ Older(s, music.local)

\* Whether a reply is late for the panel and the speakers.
Late(s) == taken # None /\ Older(s, taken)

DeliverLate ==
  \E s \in replies :
    /\ Late(s)
    /\ replies' = replies \ {s}
    /\ UNCHANGED <<desk, reports, adapterVars, history>>

\* A newer state is taken; a play waits for the voice connection, anything
\* else reaches the player at once.  A state of an older process is taken for
\* newer too, and disturbs the adapter.
Deliver ==
  \E s \in replies :
    /\ ~Late(s)
    /\ replies' = replies \ {s}
    /\ taken' = s
    /\ LET local == IF music = None THEN Idle ELSE music.local
           stale == Older(s, local)
           plays == ~stale /\ s.now # Nothing /\ ~SameTrack(local, s)
       IN /\ IF plays
             THEN /\ awaiting' = awaiting \cup {s}
                  /\ Cardinality(awaiting') <= MaxReplies
                  /\ UNCHANGED music
             ELSE /\ music' = IF music = None \/ stale THEN music
                              ELSE [Adjusted(music, s) EXCEPT !.local = Followed(s)]
                  /\ UNCHANGED awaiting
    /\ history' = [history EXCEPT !.overtaken = FALSE,
                                 !.disturbed = @ \/ (taken # None /\ s.epoch < taken.epoch)]
    /\ UNCHANGED <<desk, reports, alone>>

\* The voice connection is ready: the track plays, and its state becomes the
\* one followed, without another look at what was taken while it waited.  When
\* the newest state taken was acted on before, this one undoes it.
Play ==
  \E s \in awaiting :
    /\ awaiting' = awaiting \ {s}
    /\ music' = [Started(IF music = None THEN NewPlayer ELSE music, s) EXCEPT !.local = Followed(s)]
    /\ history' = [history EXCEPT !.overtaken = @ \/ taken \notin awaiting]
    /\ UNCHANGED <<desk, replies, reports, taken, alone>>

\* The connection closes: its player goes, and a queue playing there is
\* reported stopped, whatever plays by then.
Closed ==
  /\ music # None
  /\ music' = None
  /\ IF music.local.now # Nothing THEN Report("gone", Nothing, 0) ELSE UNCHANGED reports

Gone ==
  /\ Closed
  /\ UNCHANGED <<desk, replies, taken, awaiting, alone, history>>

\* No connection: nobody to follow into a channel, or one that is never ready.
PlayFails ==
  \E s \in awaiting :
    /\ awaiting' = awaiting \ {s}
    /\ IF music = None THEN UNCHANGED <<music, reports>> ELSE Closed
    /\ history' = Disturbed(history)
    /\ UNCHANGED <<desk, replies, taken, alone>>

\* A track ends, or breaks even while it is paused: it is reported once.
TrackEnds ==
  /\ music # None /\ music.playing # Nothing
  /\ Report("ended", music.playing, music.local.epoch)
  /\ music' = Silenced(music)
  /\ UNCHANGED <<desk, replies, taken, awaiting, alone, history>>

\* Ningo speaks: the music waits and goes on when the speech ends.
SpeechStarts ==
  /\ music # None /\ music.playing # Nothing /\ ~music.speaking
  /\ music' = PlayerPaused([music EXCEPT !.speaking = TRUE])
  /\ UNCHANGED <<desk, replies, reports, taken, awaiting, alone, history>>

SpeechEnds ==
  /\ music # None /\ music.speaking
  /\ LET silent == [music EXCEPT !.speaking = FALSE]
     IN music' = IF music.playing = Nothing \/ music.userPaused \/ music.away
                 THEN silent ELSE Unpaused(silent)
  /\ UNCHANGED <<desk, replies, reports, taken, awaiting, alone, history>>

\* The last person leaves: the music waits for company until the timer ends.  A
\* channel Ningo is in without a player is left in the same way.
LeftAlone ==
  /\ ~alone
  /\ alone' = TRUE
  /\ music' = IF music = None \/ music.playing = Nothing THEN music
              ELSE PlayerPaused([music EXCEPT !.away = TRUE])
  /\ UNCHANGED <<desk, replies, reports, taken, awaiting, history>>

CompanyReturns ==
  /\ alone
  /\ alone' = FALSE
  /\ music' = IF music = None \/ ~music.away THEN music
              ELSE IF music.userPaused \/ music.speaking THEN [music EXCEPT !.away = FALSE]
              ELSE Unpaused([music EXCEPT !.away = FALSE])
  /\ UNCHANGED <<desk, replies, reports, taken, awaiting, history>>

LeavesEmptyChannel ==
  /\ alone
  /\ alone' = FALSE
  /\ IF music = None THEN UNCHANGED <<music, reports>> ELSE Closed
  /\ UNCHANGED <<desk, replies, taken, awaiting, history>>

Next ==
  \/ Add \/ Skip \/ Stop \/ PauseOrResume \/ SetVolume \/ Show
  \/ TrackReported \/ GoneReported \/ Remark \/ Restart \/ Lose
  \/ DeliverLate \/ Deliver \/ Play \/ PlayFails
  \/ TrackEnds \/ Gone \/ SpeechStarts \/ SpeechEnds
  \/ LeftAlone \/ CompanyReturns \/ LeavesEmptyChannel

Spec == Init /\ [][Next]_vars
------------------------------------------------------------------------------
(* Properties. *)

\* Every part keeps its shape: no more tracks wait than MaxWaiting, however
\* searches and additions interleave (MusicQueue.Add).
TypeOK ==
  /\ desk \in [epoch : Epochs, now : 0..MaxEntries, waiting : Seq(Entries), paused : BOOLEAN,
               volume : Volumes, entries : 0..MaxEntries, version : Nat,
               commented : 0..MaxEntries]
  /\ Len(desk.waiting) <= MaxWaiting
  /\ replies \subseteq QueueStates
  /\ taken \in QueueStates \cup {None}
  /\ awaiting \subseteq QueueStates
  /\ music = None \/ music.playing \in 0..MaxEntries

\* Each play leaves the queue at most once and is noted once, the model is
\* asked about it at most once, and within one process's queue a report about
\* one play advances no other (musicDesk.handle, MusicQueue.Ended).
EachPlayOnce ==
  /\ \A e \in Entries : history.noted[e] <= 1 /\ history.remarked[e] <= 1
  /\ ~history.misled

Quiet == replies = {} /\ reports = {} /\ awaiting = {}

\* Nothing was lost, failed or came from an ended process too late, nothing is
\* on its way, and the adapter has heard from the process that runs.
Calm == ~history.disturbed /\ Quiet /\ taken # None /\ taken.epoch = desk.epoch

\* The player plays exactly the track the queue plays, paused only by a person,
\* by speech or for want of company.
InStep ==
  /\ desk.now = Nothing => music = None \/ music.playing = Nothing
  /\ desk.now # Nothing =>
       /\ music # None /\ music.playing = desk.now /\ music.userPaused = desk.paused
       /\ desk.paused => music.status = "paused"
       /\ music.status = "paused" => desk.paused \/ music.away \/ music.speaking

\* A calm adapter took the queue's newest state, has a player when the queue
\* plays, and is in step with the queue, so no queue waits on a silent track;
\* unless a play that waited for its connection was overtaken by that very
\* state.  The next newer state ends this (createMusic.apply, reconcile,
\* applyMusic, the Idle handler).
FollowsUnlessOvertaken ==
  Calm => /\ taken = State(desk)
          /\ desk.now # Nothing => music # None
          /\ ~history.overtaken => InStep

\* A late reply changes nothing on the speakers (commands.ts, above apply), and
\* a state older than the last applied is ignored (reconcile.ts): a calm
\* adapter is in step, overtaken or not.  It is not: applyMusic compares before
\* it awaits the connection, so a play that waited undoes the stop after it.
SpeakersFollow == Calm => InStep

\* With nothing lost, failed, overtaken or on its way, what the adapter plays
\* is at the volume of the state it followed (reconcile.ts: the actions bring
\* local playback to the queue's state).  It is not: volumes of the loudest
\* that come with another track, or while nothing plays, are never set.
VolumeFollows ==
  /\ ~history.disturbed /\ ~history.overtaken /\ Quiet
  /\ music # None /\ music.playing # Nothing
  => music.volume = music.local.volume
==============================================================================
