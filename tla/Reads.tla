--------------------------------- MODULE Reads ---------------------------------
(***************************************************************************)
(* A reader walks one list of the archive page by page (the transcript of  *)
(* a chat, the inbox, a search by date, the chats, the address book, the   *)
(* history download) or downloads a chat, while the worker, pushes and the *)
(* owner change the rows under it.  Every list is ordered by a key and an  *)
(* id, and a page starts strictly after the (key, id) of the last row of   *)
(* the page before: there is no snapshot and no offset.                    *)
(*                                                                         *)
(* A row is its place in the order: its key is the time of the message, of *)
(* the chat's last message or of the event, or the name of the person.     *)
(* Left out: the columns of a row, the labels that are looked up for the   *)
(* rows of a page, bounds and filters that do not change during a walk     *)
(* (they make the list smaller), and the order by relevance, whose ranks   *)
(* move with every write and which promises nothing.                       *)
(***************************************************************************)
EXTENDS Integers, Sequences, FiniteSets

CONSTANTS
    Rows,   \* the ids rows can have; an id is compared like a number
    SortKeys,   \* the keys they can be sorted by
    Limits  \* rows on a page: each call may ask for another number

ASSUME ReadsAssumption ==
    /\ Rows \subseteq Nat \ {0} /\ IsFiniteSet(Rows)
    /\ SortKeys \subseteq Nat \ {0} /\ Limits \subseteq Nat \ {0}

VARIABLES
    list,   \* the list that is walked
    key,    \* of each row: its key, or Never or Gone
    aside,  \* rows a condition of the list leaves out: they are in a broadcast
            \* channel (the inbox), their text does not match (the search)
    owner,  \* the person that is the owner, or Never
    here,   \* the chat that is read exists
    walk,   \* where the reader is
    stood   \* rows that have been listed, and not moved, since the walk began

readsVars == <<list, key, aside, owner, here, walk, stood>>

Never == 0
Gone  == -1
Top   == <<>>       \* no cursor

Tools == {"chat", "recent", "search", "chats", "people"}
Lists == Tools \cup {"events", "export"}

There  == {r \in Rows : key[r] \in SortKeys}
Listed == There \ aside

\* The line of row r in an answer; the third part tells the owner's own line,
\* which another statement reads, from the same person among the others.
Entry(r)      == <<key[r], r, 0>>
OwnerEntry(r) == <<key[r], r, 1>>

\* desc(key), desc(id).
Sooner(a, b) ==
    \/ a[1] > b[1]
    \/ a[1] = b[1] /\ a[2] > b[2]
    \/ a[1] = b[1] /\ a[2] = b[2] /\ a[3] < b[3]

\* FAULTY: the cursor is the key alone.
BeyondKeyOnly(entries, cursor) ==
    {e \in entries : cursor = Top \/ e[1] < cursor[1]}

\* FAULTY: the row the cursor names is read again.
BeyondInclusive(entries, cursor) ==
    {e \in entries : \/ cursor = Top
                     \/ e[1] < cursor[1]
                     \/ e[1] = cursor[1] /\ e[2] <= cursor[2]}

\* What comes strictly after the cursor.
Beyond(entries, cursor) ==
    {e \in entries : \/ cursor = Top
                     \/ e[1] < cursor[1]
                     \/ e[1] = cursor[1] /\ e[2] < cursor[2]}

\* The first n of them.
Page(entries, n) ==
    {e \in entries : Cardinality({f \in entries : Sooner(f, e)}) < n}

\* The last line of a page as a cursor.
Cursor(page) ==
    LET last == CHOOSE e \in page : \A f \in page : f = e \/ Sooner(f, e)
    IN  <<last[1], last[2]>>

\* FAULTY: the extra row, which is read to learn whether there is more, makes
\* the cursor.
NextCursorOfExtra(entries, n) == Cursor(Page(entries, n + 1))

\* The next page starts after the last row that was shown.
NextCursor(entries, n) == Cursor(Page(entries, n))

Lines(page, r) == Cardinality({e \in page : e[2] = r})

Least(m, n) == IF m < n THEN m ELSE n

\* A page is shown; the walk goes on if a row was left over.
Turn(entries) ==
    \E n \in Limits :
        LET left == Beyond(entries, walk.at)
            page == Page(left, n)
            more == Cardinality(left) > n
        IN  walk' = [walk EXCEPT
                !.shown  = [r \in Rows |-> Least(2, @[r] + Lines(page, r))],
                !.at     = IF more THEN NextCursor(left, n) ELSE Top,
                !.others = {},
                !.status = IF more THEN "asked" ELSE "over"]

Start == [status |-> "asked", at |-> Top, until |-> Top, others |-> {},
          dropped |-> {}, shown |-> [r \in Rows |-> 0]]

ReadsInit ==
    /\ list \in Lists
    /\ key \in [Rows -> SortKeys \cup {Never}]
    /\ aside \in SUBSET Rows
    /\ aside # {} => list \in {"recent", "search"}
    /\ owner = Never
    /\ here = TRUE
    /\ walk = Start
    /\ stood = Listed

------------------------------------------------------------------------------
(* What the others do to the rows.                                         *)

\* A message arrives, as old as the history it belongs to; a chat appears with
\* its first one; a person is made.
Insert(r, k) ==
    /\ list # "events"
    /\ key[r] = Never
    /\ here
    /\ key' = [key EXCEPT ![r] = k]
    /\ UNCHANGED <<list, aside, owner, here, walk, stood>>

\* An event is recorded, dated now, or back to the start of its five minutes
\* when it counts live changes.
Happen(r, k) ==
    /\ list = "events"
    /\ key[r] = Never
    /\ key' = [key EXCEPT ![r] = k]
    /\ UNCHANGED <<list, aside, owner, here, walk, stood>>

\* The history is trimmed from its old end, but for runs that have not ended:
\* any row may be the next to go.
Trim(r) ==
    /\ list = "events"
    /\ r \in There
    /\ key' = [key EXCEPT ![r] = Gone]
    /\ stood' = stood \ {r}
    /\ UNCHANGED <<list, aside, owner, here, walk>>

\* A message is deleted (its tombstone is left out of every read), a person is
\* hidden or merged into another one, a chat goes with its connection.
Remove(r) ==
    /\ list # "events"
    /\ r \in There
    /\ key' = [key EXCEPT ![r] = Gone]
    /\ owner' = IF owner = r THEN Never ELSE owner
    /\ stood' = stood \ {r}
    /\ UNCHANGED <<list, aside, here, walk>>

\* The chat itself goes with its connection and takes its rows along.
DeleteChat ==
    /\ list \in {"chat", "export"}
    /\ here
    /\ here' = FALSE
    /\ key' = [r \in Rows |-> Gone]
    /\ stood' = {}
    /\ UNCHANGED <<list, aside, owner, walk>>

\* A message arrives in a listed chat: last_message_at moves forward only.
Bump(r, k) ==
    /\ list = "chats"
    /\ r \in There /\ k > key[r]
    /\ key' = [key EXCEPT ![r] = k]
    /\ stood' = stood \ {r}
    /\ UNCHANGED <<list, aside, owner, here, walk>>

\* A person gets another name.
Rename(r, k) ==
    /\ list = "people"
    /\ r \in There /\ k # key[r]
    /\ key' = [key EXCEPT ![r] = k]
    /\ stood' = stood \ {r}
    /\ UNCHANGED <<list, aside, owner, here, walk>>

\* The contact that holds the account's own number becomes the owner.
Promote(r) ==
    /\ list = "people"
    /\ owner = Never
    /\ r \in There
    /\ owner' = r
    /\ stood' = stood \ {r}
    /\ UNCHANGED <<list, key, aside, here, walk>>

\* An edit, or the analysis of an attachment, changes what a message matches.
Reword(r) ==
    /\ list = "search"
    /\ r \in There
    /\ aside' = IF r \in aside THEN aside \ {r} ELSE aside \cup {r}
    /\ stood' = stood \ {r}
    /\ UNCHANGED <<list, key, owner, here, walk>>

------------------------------------------------------------------------------
(* The walk.                                                               *)

Asked(l) == list = l /\ walk.status = "asked"

Reader == UNCHANGED <<list, key, aside, owner, here, stood>>

Entries(rows) == {Entry(r) : r \in rows}

\* getMessages: the chat is looked up first, by a statement of its own.
GetMessages ==
    /\ Asked("chat")
    /\ IF here THEN Turn(Entries(Listed))
               ELSE walk' = [walk EXCEPT !.status = "refused"]
    /\ Reader

RecentMessages == Asked("recent") /\ Turn(Entries(Listed)) /\ Reader

SearchMessages == Asked("search") /\ Turn(Entries(Listed)) /\ Reader

PageChats == Asked("chats") /\ Turn(Entries(Listed)) /\ Reader

\* publicPeople reads everybody but the owner ...
ListPeople ==
    /\ Asked("people")
    /\ walk' = [walk EXCEPT !.status = "owner",
                            !.others = Entries(Listed \ {owner})]
    /\ Reader

\* ... and then the owner, and cuts its page from the two together.
PublicPeople ==
    /\ list = "people" /\ walk.status = "owner"
    /\ Turn(walk.others \cup {OwnerEntry(r) : r \in There \cap {owner}})
    /\ Reader

\* historyCsv looks up the newest event: the download ends there, whatever is
\* recorded while it runs.
FirstEvent ==
    /\ Asked("events")
    /\ walk.until = Top
    /\ walk' = IF There = {}
               THEN [walk EXCEPT !.status = "over"]
               ELSE [walk EXCEPT !.until = Cursor(Page(Entries(There), 1))]
    /\ Reader

\* Its pages: up to that event, and strictly after the page before.
HistoryCsv ==
    /\ Asked("events")
    /\ walk.until # Top
    /\ LET later == {e \in Entries(There) : Sooner(e, walk.until \o <<0>>)}
       IN  Turn(Entries(There) \ later)
    /\ Reader

\* exportChat takes every live message in one statement ...
ExportMessages ==
    /\ Asked("export")
    /\ walk' = IF here
               THEN [walk EXCEPT !.status = "deletes",
                        !.shown = [r \in Rows |-> IF r \in There THEN 1 ELSE 0]]
               ELSE [walk EXCEPT !.status = "refused"]
    /\ Reader

\* ... and the tombstones in another: a message that was deleted in between is
\* in both, and the push door applies the deletes last.
ExportDeletes ==
    /\ list = "export" /\ walk.status = "deletes"
    /\ walk' = [walk EXCEPT !.status = "over",
                            !.dropped = {r \in Rows : key[r] = Gone}]
    /\ Reader

\* A tool answers with one sentence, and no page, when nothing is connected and
\* no chat is archived.
NothingToServe ==
    /\ list \in Tools
    /\ walk.status = "asked"
    /\ list # "people" => There = {}
    /\ walk' = [walk EXCEPT !.status = "refused"]
    /\ Reader

\* A cursor that nobody minted, or of another order: the walk starts at the top.
StartOver ==
    /\ list \in Tools
    /\ walk' = Start
    /\ stood' = Listed
    /\ UNCHANGED <<list, key, aside, owner, here>>

ReadsNext ==
    \/ \E r \in Rows, k \in SortKeys :
           Insert(r, k) \/ Happen(r, k) \/ Bump(r, k) \/ Rename(r, k)
    \/ \E r \in Rows : Remove(r) \/ Trim(r) \/ Promote(r) \/ Reword(r)
    \/ DeleteChat
    \/ GetMessages \/ RecentMessages \/ SearchMessages \/ PageChats
    \/ ListPeople \/ PublicPeople
    \/ FirstEvent \/ HistoryCsv
    \/ ExportMessages \/ ExportDeletes
    \/ NothingToServe \/ StartOver

ReadsSpec == ReadsInit /\ [][ReadsNext]_readsVars

------------------------------------------------------------------------------
\* The shape of the state, and: who has stood is listed.
ReadsTypeOK ==
    /\ list \in Lists
    /\ key \in [Rows -> SortKeys \cup {Never, Gone}]
    /\ aside \subseteq Rows
    /\ owner \in There \cup {Never}
    /\ here \in BOOLEAN
    /\ walk.status \in {"asked", "owner", "deletes", "over", "refused"}
    /\ walk.shown \in [Rows -> 0 .. 2]
    /\ stood \subseteq Listed

\* No line comes twice in one walk: what moves in the order meanwhile, a chat
\* that got a message or a message that was edited out of a search and back
\* into it, included.  Only a person who was renamed, or became the owner
\* between the two statements of a page, may be met again.
NothingTwice ==
    \A r \in Rows :
        (list = "people" => r \in stood) => walk.shown[r] <= 1

\* A finished walk has shown everything that stood in the list, where it was,
\* from its beginning to its end; an exported chat does not delete it either.
NothingMissed ==
    walk.status = "over" =>
        \A r \in stood : walk.shown[r] = 1 /\ r \notin walk.dropped

\* A walk over a list that others write to neither repeats nor loses a row.
ReadsFaithful == NothingTwice /\ NothingMissed
================================================================================
