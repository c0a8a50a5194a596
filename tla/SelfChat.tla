------------------------------- MODULE SelfChat -------------------------------
(***************************************************************************)
(* The owner's archive of general conversations, used at once from the     *)
(* phone (dokja_orch/internal/handlers/chat_self_chat.go and its commands) *)
(* and from a desktop (conversation_domain_handler.go).                    *)
(*                                                                         *)
(* The phone's handlers serialize on h.selfChat; the desktop does not take *)
(* that lock, so between two archive statements of the phone anything may  *)
(* happen to the archive.  Every archive statement is one action; only a   *)
(* command whose one statement decides it is a single step with its lock.  *)
(*                                                                         *)
(* What becomes of a recorded message is ArchivedSends; here a turn is its *)
(* send id.  A conversation's update time is its place in the list.        *)
(***************************************************************************)
EXTENDS Naturals, Sequences, FiniteSets

CONSTANTS
    Conversation,  \* conversation ids; random, so never used again
    Phone,         \* the goroutines that answer the phone
    Message,       \* WhatsApp message ids; one may be delivered again
    DesktopSend,   \* the send ids of a desktop's messages
    ListSize,      \* selfChatListSize
    MaxTurns,      \* bound of the model: turns of one conversation
    MaxRevision,   \* bound of the model: revisions of one conversation
    None

ASSUME SizesAssumption == ListSize \in Nat \ {0} /\ MaxTurns \in Nat /\ MaxRevision \in Nat \ {0}
ASSUME NoneAssumption ==
    /\ None \notin Phone \cup Message
    /\ None \notin [id : Conversation, titled : BOOLEAN, revision : 1 .. MaxRevision,
                   turns : 0 .. MaxTurns]

VARIABLES
    order,    \* the kept conversations, most recently changed first
    created,  \* every conversation ever created
    conv,     \* what is kept of each conversation
    lock,     \* h.selfChat: the phone goroutine that holds it, or None
    pc,       \* where each phone goroutine is
    message,  \* the message it answers, or None
    held,     \* the conversation it chose, as it was read, or None
    listed,   \* state.listed: the conversations the owner was shown, numbered
    pending   \* state.pending: the one to delete on /sim, or None

archive == <<order, created, conv>>
phone   == <<lock, pc, message, held>>
memory  == <<listed, pending>>
vars    == <<order, created, conv, lock, pc, message, held, listed, pending>>

Blank == [titled |-> FALSE, by |-> "desktop", revision |-> 0, sends |-> <<>>]

Init ==
    /\ order = <<>> /\ created = {} /\ conv = [id \in Conversation |-> Blank]
    /\ lock = None
    /\ pc = [p \in Phone |-> "idle"]
    /\ message = [p \in Phone |-> None]
    /\ held = [p \in Phone |-> None]
    /\ listed = <<>> /\ pending = None
-------------------------------------------------------------------------------
\* The archive's statements.

Kept == {order[i] : i \in DOMAIN order}

\* The list without one of the conversations in it.
Without(seq, id) ==
    LET at == CHOOSE i \in DOMAIN seq : seq[i] = id
    IN  SubSeq(seq, 1, at - 1) \o SubSeq(seq, at + 1, Len(seq))

\* A conversation as List and Start return it: its count of turns, not the turns.
Seen(id) ==
    [id |-> id, titled |-> conv[id].titled, revision |-> conv[id].revision, turns |-> Len(conv[id].sends)]

\* Create
Create(id, titled, by) ==
    /\ id \notin created
    /\ created' = created \cup {id}
    /\ conv' = [conv EXCEPT ![id] = [titled |-> titled, by |-> by, revision |-> 1, sends |-> <<>>]]
    /\ order' = <<id>> \o order

\* Altered: the changed conversation stays in its old place of the list too.
ChangeListedTwice(id, changed) ==
    /\ conv[id].revision < MaxRevision
    /\ conv' = [conv EXCEPT ![id] = [changed EXCEPT !.revision = @ + 1]]
    /\ order' = <<id>> \o order
    /\ UNCHANGED created

\* A change moves the revision and the update time.
Change(id, changed) ==
    /\ conv[id].revision < MaxRevision
    /\ conv' = [conv EXCEPT ![id] = [changed EXCEPT !.revision = @ + 1]]
    /\ order' = <<id>> \o Without(order, id)
    /\ UNCHANGED created

\* Altered: the version is not compared.
CurrentAnyVersion(seen) == seen.id \in Kept

\* The condition of Rename, Touch and Delete: the version that was read.
Current(seen) == seen.id \in Kept /\ conv[seen.id].revision = seen.revision

\* Rename and Touch, refused when the conversation moved on.
Edit(seen, titled) ==
    IF Current(seen) THEN Change(seen.id, [conv[seen.id] EXCEPT !.titled = titled])
                     ELSE UNCHANGED archive

\* Delete, refused when the conversation moved on.
Delete(seen) ==
    /\ order' = IF Current(seen) THEN Without(order, seen.id) ELSE order
    /\ UNCHANGED <<created, conv>>

\* The turns of a conversation a send id already names.
Recorded(id, send) == {i \in DOMAIN conv[id].sends : conv[id].sends[i] = send}

\* BeginTurn of a send with no turn yet.
Begin(id, send) ==
    /\ Len(conv[id].sends) < MaxTurns
    /\ Change(id, [conv[id] EXCEPT !.sends = Append(@, send)])

\* Archive.Continued
Continued == IF order = <<>> THEN None ELSE Seen(order[1])
-------------------------------------------------------------------------------
\* Altered: the conversation is chosen before the lock is taken.
ChooseUnlocked(p, m) ==
    /\ pc[p] = "idle"
    /\ lock' = p
    /\ message' = [message EXCEPT ![p] = m]
    /\ held' = [held EXCEPT ![p] = Continued]
    /\ pc' = [pc EXCEPT ![p] = "chosen"]
    /\ UNCHANGED <<archive, memory>>

\* A message from the phone: the lock, then the conversation it continues.
Choose(p, m) ==
    /\ pc[p] = "idle" /\ lock = None
    /\ lock' = p
    /\ message' = [message EXCEPT ![p] = m]
    /\ held' = [held EXCEPT ![p] = Continued]
    /\ pc' = [pc EXCEPT ![p] = "chosen"]
    /\ UNCHANGED <<archive, memory>>

\* With none to continue, one is started and titled from the message.
StartForMessage(p) ==
    /\ pc[p] = "chosen" /\ held[p] = None
    /\ \E id \in Conversation :
          /\ Create(id, TRUE, "phone")
          /\ held' = [held EXCEPT ![p] = Seen(id)']
    /\ pc' = [pc EXCEPT ![p] = "ready"]
    /\ UNCHANGED <<lock, message, memory>>

\* One that was started empty is titled by its first message; a rename that is
\* refused or fails is ignored.
NameChosen(p) ==
    /\ pc[p] = "chosen" /\ held[p] # None
    /\ \/ held[p].turns = 0 /\ ~held[p].titled /\ Edit(held[p], TRUE)
       \/ UNCHANGED archive
    /\ pc' = [pc EXCEPT ![p] = "ready"]
    /\ UNCHANGED <<lock, message, held, memory>>

\* answerArchived records the message, or finds it recorded, or finds its
\* conversation gone; the lock is given up either way.
RecordMessage(p) ==
    /\ pc[p] = "ready"
    /\ IF held[p].id \in Kept /\ Recorded(held[p].id, message[p]) = {}
       THEN Begin(held[p].id, message[p])
       ELSE UNCHANGED archive
    /\ lock' = None
    /\ message' = [message EXCEPT ![p] = None]
    /\ held' = [held EXCEPT ![p] = None]
    /\ pc' = [pc EXCEPT ![p] = "idle"]
    /\ UNCHANGED memory

\* An archive statement fails, the message's request ended, or too many wait in
\* its conversation: nothing is recorded, and the lock is given up.
GiveUp(p) ==
    /\ pc[p] \in {"ready", "renaming"} \/ (pc[p] = "chosen" /\ held[p] = None)
    /\ lock' = None
    /\ message' = [message EXCEPT ![p] = None]
    /\ held' = [held EXCEPT ![p] = None]
    /\ pc' = [pc EXCEPT ![p] = "idle"]
    /\ UNCHANGED <<archive, memory>>

\* /nova
CommandNew ==
    /\ lock = None
    /\ \E id \in Conversation : Create(id, FALSE, "phone")
    /\ UNCHANGED <<phone, memory>>

\* /conversas
CommandList ==
    /\ lock = None
    /\ listed' = [i \in 1 .. (IF Len(order) < ListSize THEN Len(order) ELSE ListSize) |-> Seen(order[i])]
    /\ UNCHANGED <<archive, phone, pending>>

\* /abrir n: done or refused, the numbers are used up.
CommandOpen(n) ==
    /\ lock = None
    /\ Edit(listed[n], conv[listed[n].id].titled)
    /\ listed' = <<>>
    /\ UNCHANGED <<phone, pending>>

\* /renomear reads the conversation it continues, under the lock,
CommandRename(p) ==
    /\ pc[p] = "idle" /\ lock = None
    /\ Continued # None
    /\ lock' = p
    /\ held' = [held EXCEPT ![p] = Continued]
    /\ pc' = [pc EXCEPT ![p] = "renaming"]
    /\ UNCHANGED <<archive, message, memory>>

\* and renames it as it was read.
RenameContinued(p) ==
    /\ pc[p] = "renaming"
    /\ Edit(held[p], TRUE)
    /\ lock' = None
    /\ held' = [held EXCEPT ![p] = None]
    /\ pc' = [pc EXCEPT ![p] = "idle"]
    /\ listed' = <<>>
    /\ UNCHANGED <<message, pending>>

\* /apagar n asks first.
CommandDelete(n) ==
    /\ lock = None
    /\ pending' = listed[n]
    /\ UNCHANGED <<archive, phone, listed>>

\* /sim
CommandYes ==
    /\ lock = None
    /\ pending # None
    /\ Delete(pending)
    /\ pending' = None
    /\ listed' = <<>>
    /\ UNCHANGED phone

\* selfChatListLifetime and selfChatConfirmTime pass: what is older is refused.
\* A /sim whose deletion fails forgets the question in the same way.
ListExpires ==
    /\ listed # <<>>
    /\ listed' = <<>>
    /\ UNCHANGED <<archive, phone, pending>>

ConfirmExpires ==
    /\ pending # None
    /\ pending' = None
    /\ UNCHANGED <<archive, phone, listed>>
-------------------------------------------------------------------------------
\* conversation.start
DesktopStart(id) ==
    /\ \E titled \in BOOLEAN : Create(id, titled, "desktop")
    /\ UNCHANGED <<phone, memory>>

\* conversation.rename (an empty title is one too) and conversation.delete at
\* the version they name; at any other they change nothing.
DesktopRename(id) ==
    /\ id \in Kept
    /\ \E titled \in BOOLEAN : Change(id, [conv[id] EXCEPT !.titled = titled])
    /\ UNCHANGED <<phone, memory>>

DesktopDelete(id) ==
    /\ id \in Kept
    /\ Delete(Seen(id))
    /\ UNCHANGED <<phone, memory>>

\* A message sent from the desktop.
DesktopWrites(id) ==
    /\ id \in Kept
    /\ Begin(id, DesktopSend)
    /\ UNCHANGED <<phone, memory>>

\* A turn of the conversation sent again.
Retry(id) ==
    /\ id \in Kept /\ conv[id].sends # <<>>
    /\ Change(id, conv[id])
    /\ UNCHANGED <<phone, memory>>

\* The orchestrator starts again: what it remembered is gone.
Restart ==
    /\ lock' = None
    /\ pc' = [p \in Phone |-> "idle"]
    /\ message' = [p \in Phone |-> None]
    /\ held' = [p \in Phone |-> None]
    /\ listed' = <<>> /\ pending' = None
    /\ UNCHANGED archive

Next ==
    \/ \E p \in Phone :
          \/ \E m \in Message : Choose(p, m)
          \/ StartForMessage(p) \/ NameChosen(p) \/ RecordMessage(p)
          \/ GiveUp(p) \/ CommandRename(p) \/ RenameContinued(p)
    \/ CommandNew \/ CommandList \/ CommandYes
    \/ \E n \in DOMAIN listed : CommandOpen(n) \/ CommandDelete(n)
    \/ ListExpires \/ ConfirmExpires
    \/ \E id \in Conversation :
          DesktopStart(id) \/ DesktopRename(id) \/ DesktopDelete(id) \/ DesktopWrites(id) \/ Retry(id)
    \/ Restart

Spec == Init /\ [][Next]_vars
-------------------------------------------------------------------------------
Record == [titled : BOOLEAN, by : {"phone", "desktop"}, revision : 0 .. MaxRevision,
           sends : Seq(Message \cup {DesktopSend})]
SeenRecord == [id : created, titled : BOOLEAN, revision : 1 .. MaxRevision, turns : 0 .. MaxTurns]

\* Every variable holds a value of its kind, and the list names each kept
\* conversation once.
TypeOK ==
    /\ order \in Seq(created) /\ Cardinality(Kept) = Len(order)
    /\ created \subseteq Conversation
    /\ conv \in [Conversation -> Record]
    /\ lock \in Phone \cup {None}
    /\ pc \in [Phone -> {"idle", "chosen", "ready", "renaming"}]
    /\ message \in [Phone -> Message \cup {None}]
    /\ held \in [Phone -> SeenRecord \cup {None}]
    /\ listed \in Seq(SeenRecord)
    /\ pending \in SeenRecord \cup {None}

\* handleSelfChat: "two first messages cannot start two conversations".  When a
\* message starts one, every conversation there is was started on the desktop
\* since the message looked.
StartsOnce ==
    [][\A p \in Phone :
          pc[p] = "chosen" /\ held[p] = None /\ pc'[p] = "ready"
          => \A id \in Kept : conv[id].by = "desktop"]_vars

\* "A conversation started empty is named by its first message": one the owner
\* titled or wrote in meanwhile, from the desktop, is left as it is.
NamesOnlyUntitled ==
    [][\A p \in Phone :
          /\ pc[p] = "chosen" /\ held[p] # None /\ pc'[p] = "ready"
          /\ conv' # conv
          => ~conv[held[p].id].titled /\ conv[held[p].id].sends = <<>>]_vars

\* "A rename or a delete names the version it saw" (Revision): nothing was
\* titled or sent in what /sim deletes since the list showed it, however long
\* ago and whatever else happened to it.
DeletesAsSeen ==
    [][\A seen \in {pending} \ {None} :
          pending' = None /\ seen.id \in Kept /\ seen.id \notin Kept'
          => Seen(seen.id) = seen]_vars
===============================================================================
