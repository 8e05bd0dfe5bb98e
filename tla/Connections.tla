---------------------------- MODULE Connections ----------------------------
(***************************************************************************)
(* The connections table of the archive, the WhatsApp auth directories on  *)
(* the data volume, and the portal operations that write both.             *)
(*                                                                         *)
(* One SQL statement (or one db.transaction) is one step.  The portal and  *)
(* the worker are two processes on one SQLite file, so any step of one may *)
(* fall between two statements of the other; SessionManager.tla adds the   *)
(* worker.                                                                 *)
(***************************************************************************)
EXTENDS Naturals, FiniteSets

CONSTANTS
    Conns,      \* connection ids; each is inserted at most once (randomUUID)
    Channels,   \* the live channels
    WhatsApp,   \* the channel whose credential is a directory on the volume
    ChannelOf,  \* the channel an id is created on
    Requests,   \* portal requests that may be in flight at once
    None        \* "no connection" / "no channel"

ASSUME ConnectionsAssumption ==
    /\ ChannelOf \in [Conns -> Channels]
    /\ WhatsApp \in Channels
    /\ None \notin Conns \cup Channels

VARIABLES
    status,     \* connections.status, or "unborn"/"deleted" when no row exists
    revokedAt,  \* the rows whose revoked_at is not null
    cipher,     \* the rows whose session_ciphertext is not null
    archived,   \* the rows that own at least one chat
    dirs,       \* the connections whose auth directory is on the volume
    req         \* the portal requests in flight

rowVars == <<status, revokedAt, cipher, archived>>
portalVars == <<status, revokedAt, cipher, archived, dirs, req>>

Statuses == {"unborn", "pending", "active", "error", "revoked", "deleted"}

\* Where a request stands: the create request has read the live row ("look"),
\* decided to keep or to drop it ("replace"/"discard"), is about to insert;
\* the delete request still has the row, then the auth directory, to remove.
Stages == {"idle", "look", "replace", "discard", "insert", "drop", "unlink"}

Idle == [at |-> "idle", conn |-> None, channel |-> None]

Exists(c) == status[c] \notin {"unborn", "deleted"}

\* A LIVE row is one with revoked_at IS NULL.
Live(c) == Exists(c) /\ c \notin revokedAt

LiveOn(ch) == {c \in Conns : ChannelOf[c] = ch /\ Live(c)}

UsesDir(c) == ChannelOf[c] = WhatsApp

-----------------------------------------------------------------------------
(* Row statements.  Each is one UPDATE or DELETE with the guard of its      *)
(* WHERE clause; a statement that matches no row changes nothing.           *)

\* FAULTY: The revoke as an UPDATE of the status columns alone, credential kept.
RevokeRowKeepsCipher(c) ==
    \/ /\ Live(c)
       /\ status' = [status EXCEPT ![c] = "revoked"]
       /\ revokedAt' = revokedAt \cup {c}
       /\ UNCHANGED cipher
    \/ /\ ~Live(c)
       /\ UNCHANGED <<status, revokedAt, cipher>>

\* The single revoke authority: status, revoked_at and the credential move
\* together, and only on a live row.
RevokeRow(c) ==
    \/ /\ Live(c)
       /\ status' = [status EXCEPT ![c] = "revoked"]
       /\ revokedAt' = revokedAt \cup {c}
       /\ cipher' = cipher \ {c}
    \/ /\ ~Live(c)
       /\ UNCHANGED <<status, revokedAt, cipher>>

\* DELETE FROM connections: the row goes, with its chats by cascade.
DeleteRow(c) ==
    /\ status' = [status EXCEPT ![c] = IF Exists(c) THEN "deleted" ELSE @]
    /\ revokedAt' = revokedAt \ {c}
    /\ cipher' = cipher \ {c}
    /\ archived' = archived \ {c}

\* FAULTY: The insert on a table without the partial unique index.
InsertRowNoIndex(c) ==
    /\ status[c] = "unborn"
    /\ status' = [status EXCEPT ![c] = "pending"]
    /\ UNCHANGED <<revokedAt, cipher, archived>>

\* INSERT of a pending row, refused by the partial unique index while another
\* live row holds the channel's slot.
InsertRow(c) ==
    /\ status[c] = "unborn"
    /\ LiveOn(ChannelOf[c]) = {}
    /\ status' = [status EXCEPT ![c] = "pending"]
    /\ UNCHANGED <<revokedAt, cipher, archived>>

-----------------------------------------------------------------------------
(* Portal operations *)

Goto(r, stage) == req' = [req EXCEPT ![r].at = stage]

Finish(r) == req' = [req EXCEPT ![r] = Idle]

\* createConnection: read the live archive rows of the channel.  An active
\* row blocks the attempt, which then changes nothing and is not a step here.
\* BOUND: no attempt starts on a channel that has run out of fresh ids.
CreateBegin(r, ch) ==
    /\ req[r] = Idle
    /\ \E c \in Conns : status[c] = "unborn" /\ ChannelOf[c] = ch
    /\ \A c \in LiveOn(ch) : status[c] # "active"
    /\ \/ /\ LiveOn(ch) = {}
          /\ req' = [req EXCEPT ![r] = [at |-> "insert", conn |-> None, channel |-> ch]]
       \/ \E c \in LiveOn(ch) :
            req' = [req EXCEPT ![r] = [at |-> "look", conn |-> c, channel |-> ch]]
    /\ UNCHANGED <<rowVars, dirs>>

\* Does the row that was read hold an archive?
CreateLook(r) ==
    /\ req[r].at = "look"
    /\ Goto(r, IF req[r].conn \in archived THEN "replace" ELSE "discard")
    /\ UNCHANGED <<rowVars, dirs>>

\* Free the slot: revoke a row that holds an archive, delete one that holds
\* nothing.  The DELETE names the id alone; it does not look at the status
\* again.
CreateReplace(r) ==
    /\ req[r].at = "replace"
    /\ RevokeRow(req[r].conn)
    /\ Goto(r, "insert")
    /\ UNCHANGED <<archived, dirs>>

CreateDiscard(r) ==
    /\ req[r].at = "discard"
    /\ DeleteRow(req[r].conn)
    /\ Goto(r, "insert")
    /\ UNCHANGED dirs

\* Insert the new pending row, or answer already_connected when another
\* request took the slot between the read and here.
CreateInsert(r) ==
    /\ req[r].at = "insert"
    /\ \E c \in Conns : ChannelOf[c] = req[r].channel /\ InsertRow(c)
    /\ Finish(r)
    /\ UNCHANGED dirs

CreateRefused(r) ==
    /\ req[r].at = "insert"
    /\ \/ LiveOn(req[r].channel) # {}
       \/ \A c \in Conns : ChannelOf[c] = req[r].channel => status[c] # "unborn" \* BOUND
    /\ Finish(r)
    /\ UNCHANGED <<rowVars, dirs>>

\* Disconnect, and Cancel of an attempt that never completed.
Disconnect(c) ==
    /\ Live(c)
    /\ RevokeRow(c)
    /\ UNCHANGED <<archived, dirs, req>>

\* deleteConnection: revoke first, then drop the row with everything it
\* archived, then remove the auth directory.
DeleteBegin(r, c) ==
    /\ req[r] = Idle
    /\ Exists(c)
    /\ RevokeRow(c)
    /\ req' = [req EXCEPT ![r] = [at |-> "drop", conn |-> c, channel |-> None]]
    /\ UNCHANGED <<archived, dirs>>

DeleteDrop(r) ==
    /\ req[r].at = "drop"
    /\ DeleteRow(req[r].conn)
    /\ IF UsesDir(req[r].conn) THEN Goto(r, "unlink") ELSE Finish(r)
    /\ UNCHANGED dirs

DeleteUnlink(r) ==
    /\ req[r].at = "unlink"
    /\ dirs' = dirs \ {req[r].conn}
    /\ Finish(r)
    /\ UNCHANGED rowVars

PortalInit ==
    /\ status = [c \in Conns |-> "unborn"]
    /\ revokedAt = {}
    /\ cipher = {}
    /\ archived = {}
    /\ dirs = {}
    /\ req = [r \in Requests |-> Idle]

PortalStep(r) ==
    \/ \E ch \in Channels : CreateBegin(r, ch)
    \/ CreateLook(r)
    \/ CreateReplace(r)
    \/ CreateDiscard(r)
    \/ CreateInsert(r)
    \/ CreateRefused(r)
    \/ \E c \in Conns : DeleteBegin(r, c)
    \/ DeleteDrop(r)
    \/ DeleteUnlink(r)

PortalTypeOK ==
    /\ status \in [Conns -> Statuses]
    /\ revokedAt \subseteq Conns
    /\ cipher \subseteq Conns
    /\ archived \subseteq Conns
    /\ dirs \subseteq Conns
    /\ req \in [Requests -> [at : Stages, conn : Conns \cup {None},
                             channel : Channels \cup {None}]]
    /\ \A r \in Requests :
        /\ req[r].at \in {"look", "replace", "discard", "drop", "unlink"} => req[r].conn \in Conns
        /\ req[r].at \in {"look", "replace", "discard", "insert"} => req[r].channel \in Channels

=============================================================================
