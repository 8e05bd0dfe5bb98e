------------------------------- MODULE Ingest -------------------------------
(***************************************************************************)
(* How a paired account becomes rows.  The same message reaches the        *)
(* archive twice: in the history, whose pages were read a while ago, and   *)
(* in the live updates, which run in between and may be about a message    *)
(* the history has not delivered yet.  There is one message per chat; its  *)
(* text is a version number.                                               *)
(*                                                                         *)
(* recordMessage, applyEdit and applyDelete are one transaction each; the  *)
(* attachment of a new row is queued in a statement of its own, after it.  *)
(***************************************************************************)
EXTENDS Naturals, Sequences, FiniteSets

CONSTANTS
    Chats,      \* the chats of the account
    Common,     \* those in Telegram's common id space
    ExternalId, \* the channel's id of each chat's message
    MaxVersion, \* BOUND on the edits of a message
    MaxUpdates  \* BOUND on the updates on their way

ASSUME IngestAssumption ==
    /\ Common \subseteq Chats /\ DOMAIN ExternalId = Chats
    \* what makes the id space common
    /\ \A c, d \in Common : ExternalId[c] = ExternalId[d] => c = d
    /\ MaxVersion \in Nat \ {0} /\ MaxUpdates \in Nat

VARIABLES
    channel,    \* telegram or whatsapp
    source,     \* the message as its author last left it
    listening,  \* the session is open and its callbacks are registered
    updates,    \* live updates, in the order they will be handled
    todo,       \* chats the history has not reached
    page,       \* the version a page in flight holds, or 0
    backfilled, \* the history has been read to its end
    resolved,   \* WhatsApp has told which number the sender's LID is
    archive,    \* the row of each chat's message
    enqueueing, \* rows whose attachment is about to be queued
    missed,     \* messages the archive was told about too early (history variable)
    unqueued    \* rows whose attachment no one will queue (history variable)

historyVars == <<todo, page, backfilled>>
archiveVars == <<archive, enqueueing, missed, unqueued>>
ingestVars == <<channel, source, listening, updates, historyVars, resolved, archiveVars>>

Versions == 1..MaxVersion
Forged == MaxVersion + 1
NoMessage == [version |-> 0, gone |-> FALSE]
NoArchived == [version |-> 0, deleted |-> FALSE, sender |-> "none", queued |-> FALSE]
Update == [kind: {"new", "edit", "delete"}, chat: Chats, version: 0..Forged, own: BOOLEAN]

IngestInit ==
    /\ channel \in {"telegram", "whatsapp"}
    /\ source = [c \in Chats |-> NoMessage]
    /\ listening = FALSE
    /\ updates = <<>>
    /\ todo = {} /\ page = [c \in Chats |-> 0] /\ backfilled = FALSE
    /\ resolved = FALSE
    /\ archive = [c \in Chats |-> NoArchived]
    /\ enqueueing = {} /\ missed = {} /\ unqueued = {}

-----------------------------------------------------------------------------
(* The account: what its owner and the others do to the messages.          *)

IsArchived(c) == archive[c].version # 0

\* An update that is dropped matters when the row, or a page that will
\* become it, is older than the update.
Stale(c) == IsArchived(c) \/ page[c] # 0

\* WhatsApp keeps what happens while nobody listens; Telegram's client does
\* not, for its update state is not stored.
Notify(kind, c, version) ==
    IF listening \/ channel = "whatsapp"
    THEN /\ Len(updates) < MaxUpdates
         /\ updates' = Append(updates, [kind |-> kind, chat |-> c, version |-> version,
                                        own |-> TRUE])
         /\ UNCHANGED missed
    ELSE /\ missed' = IF Stale(c) THEN missed \cup {c} ELSE missed
         /\ UNCHANGED updates

unheard == <<channel, listening, historyVars, resolved, archive, enqueueing, unqueued>>

Said(c) ==
    /\ source[c].version = 0
    /\ source' = [source EXCEPT ![c].version = 1]
    /\ Notify("new", c, 1)
    /\ UNCHANGED unheard

Changed(c) ==
    /\ source[c].version \in 1..(MaxVersion - 1) /\ ~source[c].gone
    /\ source' = [source EXCEPT ![c].version = @ + 1]
    /\ Notify("edit", c, source[c].version + 1)
    /\ UNCHANGED unheard

Removed(c) ==
    /\ source[c].version # 0 /\ ~source[c].gone
    /\ source' = [source EXCEPT ![c].gone = TRUE]
    /\ Notify("delete", c, 0)
    /\ UNCHANGED unheard

\* An edit or a revoke of somebody else's message, which WhatsApp's protocol
\* lets a client write.
Pretended(kind, c) ==
    /\ channel = "whatsapp" /\ listening /\ source[c].version # 0
    /\ Len(updates) < MaxUpdates
    /\ updates' = Append(updates, [kind |-> kind, chat |-> c, version |-> Forged, own |-> FALSE])
    /\ UNCHANGED <<source, unheard, missed>>

\* A LID pairing arrives: what follows names the sender by the number.
Resolved ==
    /\ channel = "whatsapp" /\ ~resolved
    /\ resolved' = TRUE
    /\ UNCHANGED <<channel, source, listening, updates, historyVars, archiveVars>>

-----------------------------------------------------------------------------
(* The session.                                                            *)

Listen ==
    /\ ~listening
    /\ listening' = TRUE
    /\ todo' = Chats /\ backfilled' = FALSE
    /\ UNCHANGED <<channel, source, updates, page, resolved, archiveVars>>

Lost == {updates[i].chat : i \in {j \in DOMAIN updates :
                                    updates[j].own /\ updates[j].kind # "new"}}

\* What is on its way when the session ends is not handled.
Unlisten ==
    /\ listening
    /\ listening' = FALSE
    /\ updates' = <<>>
    /\ page' = [c \in Chats |-> 0] /\ todo' = {}
    /\ missed' = missed \cup {c \in Lost : IsArchived(c)}
    /\ UNCHANGED <<channel, source, backfilled, resolved, archive>>

SessionEnds == Unlisten /\ UNCHANGED <<enqueueing, unqueued>>

WorkerDies ==
    /\ Unlisten
    /\ enqueueing' = {}
    /\ unqueued' = unqueued \cup enqueueing

-----------------------------------------------------------------------------
(* Rows.                                                                   *)

\* The name the sender has at this moment.
SenderName == IF channel = "whatsapp" /\ ~resolved THEN "lid" ELSE "number"

NewRow(version) ==
    [version |-> version, deleted |-> FALSE, sender |-> SenderName, queued |-> FALSE]

\* FAULTY: a message that comes again replaces what is stored.
RecordedLast(c, version) == [archive EXCEPT ![c] = NewRow(version)]

\* recordMessage: the first writer wins.
Recorded(c, version) ==
    IF IsArchived(c) THEN archive ELSE [archive EXCEPT ![c] = NewRow(version)]

\* FAULTY: a delete without a chat is looked for in every chat.
TargetsEverywhere(c) == {d \in Chats : ExternalId[d] = ExternalId[c]}

\* Telegram names no chat when the message is in the common id space.
Targets(c) ==
    {d \in IF channel = "telegram" /\ c \in Common THEN Common ELSE {c} :
        ExternalId[d] = ExternalId[c]}

\* FAULTY: whoever asks is taken for the author.
AuthoredByAnybody(c, own) == TRUE

\* authoredBy: a port that names the actor has it compared with the row's own
\* author, under the name each was stored with.
Authored(c, own) == channel = "whatsapp" => own /\ archive[c].sender = SenderName

Matches(c, own) == IsArchived(c) /\ ~archive[c].deleted /\ Authored(c, own)

\* ingest: the row, and then its attachment's place in the queue.
Record(c, version) ==
    /\ archive' = Recorded(c, version)
    /\ enqueueing' = IF IsArchived(c) THEN enqueueing ELSE enqueueing \cup {c}
    /\ UNCHANGED <<missed, unqueued>>

\* An edit that finds no row: Telegram's is the whole message and is stored,
\* with no attachment queued for it; WhatsApp's is dropped.
EditUnmatched(c, u) ==
    IF channel = "telegram"
    THEN /\ archive' = Recorded(c, u.version)
         /\ unqueued' = IF IsArchived(c) THEN unqueued ELSE unqueued \cup {c}
         /\ UNCHANGED missed
    ELSE /\ missed' = IF u.own /\ Stale(c) THEN missed \cup {c} ELSE missed
         /\ UNCHANGED <<archive, unqueued>>

Edit(c, u) ==
    /\ IF Matches(c, u.own)
       THEN /\ archive' = [archive EXCEPT ![c].version = u.version]
            /\ UNCHANGED <<missed, unqueued>>
       ELSE EditUnmatched(c, u)
    /\ UNCHANGED enqueueing

Delete(c, u) ==
    /\ archive' = [d \in Chats |->
                    IF d \in Targets(c) /\ Matches(d, u.own)
                    THEN [archive[d] EXCEPT !.deleted = TRUE] ELSE archive[d]]
    /\ missed' = IF u.own /\ ~Matches(c, TRUE) /\ Stale(c) THEN missed \cup {c} ELSE missed
    /\ UNCHANGED <<enqueueing, unqueued>>

Deliver ==
    /\ listening /\ updates # <<>>
    /\ updates' = Tail(updates)
    /\ LET u == Head(updates) IN
        \/ u.kind = "new" /\ Record(u.chat, u.version)
        \/ u.kind = "edit" /\ Edit(u.chat, u)
        \/ u.kind = "delete" /\ Delete(u.chat, u)
    /\ UNCHANGED <<channel, source, listening, historyVars, resolved>>

Enqueue(c) ==
    /\ c \in enqueueing
    /\ archive' = [archive EXCEPT ![c].queued = TRUE]
    /\ enqueueing' = enqueueing \ {c}
    /\ UNCHANGED <<channel, source, listening, updates, historyVars, resolved, missed, unqueued>>

-----------------------------------------------------------------------------
(* The history: iterateBackfill on Telegram, a pushed batch on WhatsApp.   *)

FetchPage(c) ==
    /\ listening /\ c \in todo
    /\ todo' = todo \ {c}
    /\ page' = [page EXCEPT ![c] = IF source[c].gone THEN 0 ELSE source[c].version]
    /\ UNCHANGED <<channel, source, listening, updates, backfilled, resolved, archiveVars>>

RecordPage(c) ==
    /\ listening /\ page[c] # 0
    /\ Record(c, page[c])
    /\ page' = [page EXCEPT ![c] = 0]
    /\ UNCHANGED <<channel, source, listening, updates, todo, backfilled, resolved>>

\* runBackfill returns; WhatsApp's backfill yields nothing.
BackfillDone ==
    /\ listening /\ ~backfilled
    /\ channel = "telegram" => todo = {} /\ \A c \in Chats : page[c] = 0
    /\ backfilled' = TRUE
    /\ UNCHANGED <<channel, source, listening, updates, todo, page, resolved, archiveVars>>

-----------------------------------------------------------------------------
IngestNext ==
    \/ \E c \in Chats : \/ Said(c) \/ Changed(c) \/ Removed(c)
                        \/ Enqueue(c) \/ FetchPage(c) \/ RecordPage(c)
                        \/ \E kind \in {"edit", "delete"} : Pretended(kind, c)
    \/ Resolved \/ Listen \/ SessionEnds \/ WorkerDies \/ Deliver \/ BackfillDone

IngestSpec == IngestInit /\ [][IngestNext]_ingestVars

-----------------------------------------------------------------------------
IngestTypeOK ==
    /\ channel \in {"telegram", "whatsapp"}
    /\ source \in [Chats -> [version: 0..MaxVersion, gone: BOOLEAN]]
    /\ listening \in BOOLEAN /\ backfilled \in BOOLEAN /\ resolved \in BOOLEAN
    /\ updates \in Seq(Update)
    /\ todo \subseteq Chats /\ page \in [Chats -> 0..MaxVersion]
    /\ archive \in [Chats -> [version: 0..MaxVersion, deleted: BOOLEAN,
                              sender: {"none", "lid", "number"}, queued: BOOLEAN]]
    /\ enqueueing \subseteq Chats /\ missed \subseteq Chats /\ unqueued \subseteq Chats

Pending(c) == \E i \in DOMAIN updates : updates[i].chat = c /\ updates[i].own

\* A row never says what its author did not write, and is never tombstoned
\* while the message stands.
NothingInvented ==
    \A c \in Chats :
        /\ archive[c].version <= source[c].version
        /\ archive[c].deleted => source[c].gone

\* Once its updates are handled a row says what its author last left, unless
\* one of them was dropped while the row, or the page it came from, was older.
CatchesUp ==
    \A c \in Chats : IsArchived(c) /\ ~Pending(c) /\ c \notin missed =>
        archive[c].version = source[c].version /\ archive[c].deleted = source[c].gone

\* When the history has been read to its end no message that stands is absent.
NothingSkipped ==
    \A c \in Chats :
        /\ channel = "telegram" /\ listening /\ backfilled
        /\ source[c].version # 0 /\ ~source[c].gone /\ ~Pending(c)
        => IsArchived(c)

\* Every row has its attachment queued, but for a crash and an edit.
AttachmentsQueued ==
    \A c \in Chats : IsArchived(c) /\ c \notin enqueueing \cup unqueued => archive[c].queued

\* However history and updates interleave, through closed sessions and
\* crashes, the rows follow the messages.
RowsFaithful == NothingInvented /\ CatchesUp /\ NothingSkipped /\ AttachmentsQueued
=============================================================================
