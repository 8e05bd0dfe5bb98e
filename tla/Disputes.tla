------------------------------ MODULE Disputes ------------------------------
(***************************************************************************)
(* Messages pushed into one source by the holders of push keys, the        *)
(* disputes their disagreements leave, and the owner who settles them or   *)
(* purges a revoked key.                                                   *)
(*                                                                         *)
(* A batch is one immediate transaction, so it works on a copy of the      *)
(* store that a commit publishes.  The owner decides on a page that shows  *)
(* the store as it was when the page was rendered.                         *)
(***************************************************************************)
EXTENDS Integers, FiniteSets

CONSTANTS
    Messages,    \* the (chat, external id) pairs of the source
    Keys,        \* push keys
    Texts,       \* message texts
    MaxStamp,    \* the newest edit time; 0 is "never edited"
    None,        \* no key, no page, no transaction
    MaxPending,  \* MAX_PENDING_CANDIDATES
    MaxBatches,  \* BOUND on the batches begun
    MaxItems     \* BOUND on the entries of a batch

ASSUME DisputesAssumption ==
    /\ MaxStamp \in Nat /\ MaxPending \in Nat /\ MaxBatches \in Nat /\ MaxItems \in Nat
    /\ None \notin Keys /\ None \notin Texts
    /\ IsFiniteSet(Keys) /\ IsFiniteSet(Messages) /\ IsFiniteSet(Texts)

VARIABLES
    store,    \* the committed source, messages and message_disputes
    tx,       \* the import in its transaction, or None
    admitted, \* keys the door has verified for a request it is still reading
    revoked,  \* keys with revoked_at
    purged,   \* keys whose contributions were removed
    page,     \* the dispute page the owner has open, or None
    preview,  \* the purge page the owner has open, or None
    batches   \* how many batches have begun

vars == <<store, tx, admitted, revoked, purged, page, preview, batches>>

Stamps == 0..MaxStamp

\* messages.id is fresh for each row: the number of the batch that inserts it.
Row == [id: Nat, state: {"absent", "live", "deleted"}, text: Texts \cup {None}, edited: Stamps,
        conflicted: BOOLEAN, revision: Nat, by: Keys \cup {None}]
Candidate == [message: Messages, key: Keys, text: Texts, revision: Nat, occurrences: Nat]
Store == [source: BOOLEAN, messages: [Messages -> Row], disputes: SUBSET Candidate]

NoRow == [id |-> 0, state |-> "absent", text |-> None, edited |-> 0,
          conflicted |-> FALSE, revision |-> 0, by |-> None]

Init ==
    /\ store = [source |-> FALSE, messages |-> [m \in Messages |-> NoRow], disputes |-> {}]
    /\ tx = None
    /\ admitted = {} /\ revoked = {} /\ purged = {}
    /\ page = None /\ preview = None
    /\ batches = 0

-----------------------------------------------------------------------------
(* What the statements of an import do to a store.                         *)

DisputesOf(s, m) == {c \in s.disputes : c.message = m}

\* FAULTY: the row is settled and its candidates stay.
SettledKeepingCandidates(s, m, row) == [s EXCEPT !.messages[m] = row]

\* The row that settles a message, with clearDisputes.
Settled(s, m, row) ==
    [s EXCEPT !.messages[m] = row, !.disputes = {c \in s.disputes : c.message # m}]

\* recordMessageSync, for a message not stored yet.
Inserted(s, m, k, text, at) ==
    [s EXCEPT !.messages[m] =
        [id |-> batches, state |-> "live", text |-> text, edited |-> at,
         conflicted |-> FALSE, revision |-> 0, by |-> k]]

\* FAULTY: an edit with the stamp of the stored one replaces it.
EditAppliesNoOlder(row, at) == row.state = "live" /\ row.edited <= at

\* applyPushedEditSync's condition, and what it sets.
EditApplies(row, at) == row.state = "live" /\ row.edited < at

PushedEdit(s, m, text, at) ==
    Settled(s, m, [s.messages[m] EXCEPT !.text = text, !.edited = at, !.conflicted = FALSE,
                                        !.revision = @ + 1])

\* applyDeleteSync: the row stays as a tombstone.
Tombstone(s, m) ==
    Settled(s, m, [s.messages[m] EXCEPT !.state = "deleted", !.conflicted = FALSE,
                                        !.revision = @ + 1])

\* captureDispute: the candidate this key already has of this text, if any.
Known(s, m, k, text) ==
    {c \in DisputesOf(s, m) :
        c.revision = s.messages[m].revision /\ c.key = k /\ c.text = text}

Flagged(s, m, disputes) ==
    [s EXCEPT !.messages[m].conflicted = TRUE, !.disputes = disputes]

SeenAgain(s, m, c) ==
    Flagged(s, m, (s.disputes \ {c}) \cup {[c EXCEPT !.occurrences = @ + 1]})

NewCandidate(s, m, k, text) ==
    Flagged(s, m, s.disputes \cup
        {[message |-> m, key |-> k, text |-> text,
          revision |-> s.messages[m].revision, occurrences |-> 1]})

\* The in-batch count only grows, so it is read again when it says full.
Budget == IF tx.budget < MaxPending THEN tx.budget ELSE Cardinality(tx.store.disputes)

\* FAULTY: the candidates of this batch are not counted.
BudgetForgotten(n) == n

BudgetAfter(n) == n + 1

-----------------------------------------------------------------------------
(* The door and importBatch.  A crash is a rollback.                       *)

\* verifyAccessKey, before the body of the request is read.
Admit(k) ==
    /\ k \notin revoked
    /\ admitted' = admitted \cup {k}
    /\ UNCHANGED <<store, tx, revoked, purged, page, preview, batches>>

\* FAULTY: the door's check is trusted.
MayPushOnceAdmitted(k) == TRUE

\* The transaction's own check of the key.
MayPush(k) == k \notin revoked

\* The transaction opens, checks the key again and finds or makes the source.
ImportBegin(k) ==
    /\ tx = None /\ k \in admitted
    /\ MayPush(k)
    /\ batches < MaxBatches
    /\ batches' = batches + 1
    /\ tx' = [key |-> k, items |-> 0, deleting |-> FALSE, budget |-> Cardinality(store.disputes),
              store |-> [store EXCEPT !.source = TRUE]]
    /\ admitted' = admitted \ {k}
    /\ UNCHANGED <<store, revoked, purged, page, preview>>

ImportRefused(k) ==
    /\ tx = None /\ k \in admitted
    /\ ~MayPush(k)
    /\ admitted' = admitted \ {k}
    /\ UNCHANGED <<store, tx, revoked, purged, page, preview, batches>>

\* One more entry of the batch: the store and the budget it leaves.
Item(s, budget, deleting) ==
    /\ tx.items < MaxItems
    /\ tx' = [key |-> tx.key, items |-> tx.items + 1, deleting |-> deleting,
              budget |-> budget, store |-> s]
    /\ UNCHANGED <<store, admitted, revoked, purged, page, preview, batches>>

MessageItem(s, budget) == ~tx.deleting /\ Item(s, budget, FALSE)

ImportNew(m, text, at) ==
    /\ tx # None
    /\ tx.store.messages[m].state = "absent"
    /\ MessageItem(Inserted(tx.store, m, tx.key, text, at), tx.budget)

\* A tombstone, the stored text again, or an edit no newer than the stored.
ImportDuplicate(m, text, at) ==
    /\ tx # None
    /\ LET row == tx.store.messages[m] IN
        \/ row.state = "deleted"
        \/ row.state = "live" /\ at > 0 /\ ~EditApplies(row, at)
        \/ row.state = "live" /\ at = 0 /\ row.text = text
    /\ MessageItem(tx.store, tx.budget)

ImportEdit(m, text, at) ==
    /\ tx # None
    /\ at > 0 /\ EditApplies(tx.store.messages[m], at)
    /\ MessageItem(PushedEdit(tx.store, m, text, at), tx.budget)

Disagrees(m, text) ==
    /\ tx # None
    /\ tx.store.messages[m].state = "live"
    /\ tx.store.messages[m].text # text

ImportConflictAgain(m, text) ==
    /\ Disagrees(m, text)
    /\ \E c \in Known(tx.store, m, tx.key, text) :
        MessageItem(SeenAgain(tx.store, m, c), tx.budget)

ImportConflict(m, text) ==
    /\ Disagrees(m, text)
    /\ Known(tx.store, m, tx.key, text) = {}
    /\ Budget < MaxPending
    /\ MessageItem(NewCandidate(tx.store, m, tx.key, text), BudgetAfter(Budget))

\* The batch's deletes come after its messages.
ImportDelete(m) ==
    /\ tx # None
    /\ LET live == tx.store.messages[m].state = "live" IN
       Item(IF live THEN Tombstone(tx.store, m) ELSE tx.store, tx.budget, TRUE)

ImportCommit ==
    /\ tx # None
    /\ store' = tx.store
    /\ tx' = None
    /\ UNCHANGED <<admitted, revoked, purged, page, preview, batches>>

\* DisputeCapacityError, any other error, or the end of the process.
ImportRollback ==
    /\ tx # None
    /\ tx' = None
    /\ UNCHANGED <<store, admitted, revoked, purged, page, preview, batches>>

-----------------------------------------------------------------------------
(* The owner.  His writes wait for an import's transaction to end.         *)

Revoke(k) ==
    /\ tx = None /\ k \notin revoked
    /\ revoked' = revoked \cup {k}
    /\ UNCHANGED <<store, tx, admitted, purged, page, preview, batches>>

\* getDispute, as rendered: the page carries a token of what it shows.
OpenPage(m) ==
    /\ page = None
    /\ store.messages[m].state = "live" /\ store.messages[m].conflicted
    /\ page' = [message |-> m, row |-> store.messages[m], disputes |-> DisputesOf(store, m)]
    /\ UNCHANGED <<store, tx, admitted, revoked, purged, preview, batches>>

\* FAULTY: the candidates are not part of the token.
TokenOfRow(row, disputes) == <<row.revision, row.conflicted>>

\* candidateToken: the revision and mark of the row, and its candidates.
Token(row, disputes) == <<row.revision, row.conflicted, disputes>>

IsCurrent ==
    LET row == store.messages[page.message] IN
    /\ row.id = page.row.id
    /\ row.state = "live" /\ row.conflicted
    /\ Token(row, DisputesOf(store, page.message)) = Token(page.row, page.disputes)

\* resolveDispute, for a page still current: it sets the row it settles on.
Resolve(row) ==
    /\ page # None /\ tx = None
    /\ IsCurrent
    /\ store' = Settled(store, page.message,
                        [row EXCEPT !.conflicted = FALSE, !.revision = @ + 1])
    /\ page' = None
    /\ UNCHANGED <<tx, admitted, revoked, purged, preview, batches>>

Keep == Resolve(store.messages[page.message])

\* An accepted text is stamped with the clock, or the stored edit if later.
Accept(c, clock) ==
    /\ page # None /\ c \in DisputesOf(store, page.message)
    /\ LET row == store.messages[page.message] IN
       Resolve([row EXCEPT !.text = c.text,
                           !.edited = IF clock > row.edited THEN clock ELSE row.edited])

Delete == Resolve([store.messages[page.message] EXCEPT !.state = "deleted"])

\* A stale token, or the owner goes elsewhere.
ClosePage ==
    /\ page # None
    /\ page' = None
    /\ UNCHANGED <<store, tx, admitted, revoked, purged, preview, batches>>

\* purgePreview: the live messages the key delivered, and every candidate of
\* the key or on one of its messages.
DeliveredBy(k) ==
    {m \in Messages : store.messages[m].state = "live" /\ store.messages[m].by = k}
PurgeCandidates(k) ==
    {c \in store.disputes : c.key = k \/ store.messages[c.message].by = k}
Listed(k) ==
    [rows |-> {<<m, store.messages[m].id, store.messages[m].revision>> : m \in DeliveredBy(k)},
     candidates |-> {<<c.message, store.messages[c.message].id, c.key, c.text, c.revision>> :
                        c \in PurgeCandidates(k)}]

OpenPreview(k) ==
    /\ preview = None /\ k \in revoked
    /\ preview' = [key |-> k, listed |-> Listed(k)]
    /\ UNCHANGED <<store, tx, admitted, revoked, purged, page, batches>>

\* The messages that lose their last candidate settle under a new revision.
WithoutCandidates(k) ==
    LET left == {c \in store.disputes : c.key # k}
        freed == {m \in Messages : /\ \E c \in store.disputes \ left : c.message = m
                                   /\ \A c \in left : c.message # m}
    IN [m \in Messages |->
            IF m \in freed
            THEN [store.messages[m] EXCEPT !.conflicted = FALSE, !.revision = @ + 1]
            ELSE store.messages[m]]

\* Tombstones survive a purge, and a source with any message left.
Purge(k) ==
    /\ tx = None /\ k \in revoked
    /\ LET rows == [m \in Messages |->
                        IF m \in DeliveredBy(k) THEN NoRow ELSE WithoutCandidates(k)[m]]
           fed == DeliveredBy(k) # {} \/ PurgeCandidates(k) # {}
       IN store' = [source |-> store.source /\
                        ~(fed /\ \A m \in Messages : rows[m].state = "absent"),
                    messages |-> rows,
                    disputes |-> {c \in store.disputes :
                                    c.key # k /\ c.message \notin DeliveredBy(k)}]
    /\ purged' = purged \cup {k}
    /\ UNCHANGED <<tx, admitted, revoked, page, batches>>

\* revokeAccessKeyAndPurge, once the key is revoked.
PurgeAtOnce(k) == Purge(k) /\ UNCHANGED preview

PurgeShown ==
    /\ preview # None
    /\ Listed(preview.key) = preview.listed
    /\ Purge(preview.key)
    /\ preview' = None

ClosePreview ==
    /\ preview # None
    /\ preview' = None
    /\ UNCHANGED <<store, tx, admitted, revoked, purged, page, batches>>

-----------------------------------------------------------------------------
ImportStep ==
    \/ \E k \in Keys : ImportBegin(k) \/ ImportRefused(k)
    \/ \E m \in Messages, text \in Texts, at \in Stamps :
        ImportNew(m, text, at) \/ ImportDuplicate(m, text, at) \/ ImportEdit(m, text, at)
    \/ \E m \in Messages, text \in Texts :
        ImportConflictAgain(m, text) \/ ImportConflict(m, text)
    \/ \E m \in Messages : ImportDelete(m)
    \/ ImportCommit
    \/ ImportRollback

OwnerStep ==
    \/ \E k \in Keys : Revoke(k) \/ OpenPreview(k) \/ PurgeAtOnce(k)
    \/ \E m \in Messages : OpenPage(m)
    \/ page # None /\ (Keep \/ Delete)
    \/ \E c \in store.disputes, clock \in Stamps : Accept(c, clock)
    \/ PurgeShown
    \/ ClosePage
    \/ ClosePreview

Next == (\E k \in Keys : Admit(k)) \/ ImportStep \/ OwnerStep

Spec == Init /\ [][Next]_vars

-----------------------------------------------------------------------------
\* The types, and the budget: the disputes stored or about to be are never
\* more than MAX_PENDING_CANDIDATES, whatever a batch inserts and clears.
TypeOK ==
    /\ store \in Store /\ Cardinality(store.disputes) <= MaxPending
    /\ tx = None \/
        /\ tx \in [key: Keys, items: Nat, deleting: BOOLEAN, budget: Nat, store: Store]
        /\ Cardinality(tx.store.disputes) <= MaxPending
    /\ admitted \subseteq Keys /\ revoked \subseteq Keys /\ purged \subseteq revoked
    /\ page = None \/
        page \in [message: Messages, row: Row, disputes: SUBSET Candidate]
    /\ preview = None \/ preview.key \in revoked
    /\ batches \in Nat

\* A message is marked exactly as long as another version of it is stored, a
\* candidate is of a live message at its present revision, and never repeats
\* the text it would replace: the marks and the candidates are changed by the
\* imports, the edits, the deletes, the owner and the purges, each its own way.
DisputesReal(s) ==
    /\ \A m \in Messages :
        s.messages[m].conflicted <=> \E c \in s.disputes : c.message = m
    /\ \A c \in s.disputes :
        /\ s.messages[c.message].state = "live"
        /\ s.messages[c.message].revision = c.revision
        /\ s.messages[c.message].text # c.text

DisputesAreReal == DisputesReal(store) /\ (tx # None => DisputesReal(tx.store))

\* Whatever came in since the page was rendered, the owner's answer takes
\* effect only on the text and the candidates he was shown, and a purge from
\* its page removes the very messages it listed.
DecidesWhatWasShown ==
    [][/\ page # None /\ page' = None /\ store' # store =>
            /\ page.row = store.messages[page.message]
            /\ page.disputes = DisputesOf(store, page.message)
       /\ preview # None /\ preview' = None /\ store' # store =>
            {m \in Messages : store'.messages[m] = NoRow /\ store.messages[m] # NoRow}
                = {r[1] : r \in preview.listed.rows}]_vars

\* Once a key is revoked and purged, no live message it delivered and no
\* candidate of it is stored, not by a request its door had let in before.
PurgedLeavesNothing ==
    \A k \in purged : DeliveredBy(k) = {} /\ \A c \in store.disputes : c.key # k

\* The store implements the promise of MessageLife: imports in any order and
\* number keep the newest edit, and what is deleted stays deleted.
Life == INSTANCE MessageLife WITH
    Versions <- [text: Texts \cup {None}, edited: Stamps],
    stage <- [m \in Messages |-> store.messages[m].state],
    version <- [m \in Messages |->
        [text |-> store.messages[m].text, edited |-> store.messages[m].edited]],
    disputed <- [m \in Messages |-> store.messages[m].conflicted]

ImplementsMessageLife == Life!Spec
=============================================================================
