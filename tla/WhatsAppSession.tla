-------------------------- MODULE WhatsAppSession --------------------------
(***************************************************************************)
(* One WhatsApp device, as the port drives it: the pairing, the sockets a  *)
(* session builds and loses, the chain of event batches, the history the   *)
(* phone streams, and the marker that says it need not be asked again.     *)
(*                                                                         *)
(* A step runs from one await to the next: building a socket, resolving an *)
(* identity inside a batch, writing the marker and draining the chain may  *)
(* each be separated from what follows by any other event.                 *)
(***************************************************************************)
EXTENDS Integers, Sequences, FiniteSets

CONSTANTS
    Chunks,      \* how many batches the history comes in
    PerChunk,    \* how many messages are in a batch
    MaxSockets,  \* BOUND on the sockets built
    MaxAttempts  \* BOUND on the logins and the opened sessions

ASSUME WhatsAppAssumption ==
    /\ Chunks \in Nat \ {0} /\ PerChunk \in Nat \ {0}
    /\ MaxSockets \in Nat /\ MaxAttempts \in Nat

VARIABLES
    disk,      \* the auth directory
    phase,     \* what the port's caller is waiting for
    attempt,   \* the number of the login or session
    closing,   \* a login that has settled, a session that is closing
    dead,      \* WhatsApp will not have the device back
    leaving,   \* why the chain is drained
    restarted, \* the login has had its one restart
    asking,    \* historyPending
    sockets,   \* every socket built
    sock,      \* the one in use, or 0
    connected,
    retry,     \* the reconnect timer is set
    sent,      \* how much of the history came over this socket
    chain,     \* batches that wait
    batch,     \* the batch that runs
    straggler, \* a batch a closed session has left behind, by its number
    wired,     \* the manager has registered its callbacks
    buffer,    \* messages that wait for them
    archived,  \* messages handed to the manager, ever
    cut        \* what has cut a batch short, ever (history variable)

socketVars == <<sockets, sock, connected, retry, sent>>
batchVars == <<chain, batch, straggler, wired, buffer, archived, cut>>
flags == <<attempt, closing, dead, leaving, restarted, asking>>
vars == <<disk, phase, flags, socketVars, batchVars>>

Sockets == 1..MaxSockets
Messages == 1..(Chunks * PerChunk)
FirstOf(chunk) == (chunk - 1) * PerChunk + 1
LastOf(chunk) == chunk * PerChunk

Phases == {"idle", "pairing", "connecting", "waiting", "open", "draining"}
NoSocket == [state |-> "none", attempt |-> 0, sync |-> FALSE]
Socket == [state: {"none", "making", "live", "ended", "ejected"}, attempt: 0..MaxAttempts, sync: BOOLEAN]
NoBatch == [chunk |-> 0, next |-> 0]

Init ==
    /\ disk = [creds |-> FALSE, marker |-> FALSE]
    /\ phase = "idle"
    /\ attempt = 0 /\ closing = TRUE /\ dead = FALSE
    /\ leaving = "close" /\ restarted = FALSE /\ asking = FALSE
    /\ sockets = [s \in Sockets |-> NoSocket]
    /\ sock = 0 /\ connected = FALSE /\ retry = FALSE /\ sent = 0
    /\ chain = <<>> /\ batch = NoBatch /\ straggler = 0
    /\ wired = FALSE /\ buffer = {} /\ archived = {} /\ cut = {}

-----------------------------------------------------------------------------
(* Sockets.                                                                *)

Built == {s \in Sockets : sockets[s].state # "none"}
Next1 == Cardinality(Built) + 1
Making == {s \in Sockets : sockets[s].state = "making" /\ sockets[s].attempt = attempt}

\* makeSocket is called for this attempt; it answers later.
Make(all, n, sync) ==
    [all EXCEPT ![Next1] = [state |-> "making", attempt |-> n, sync |-> sync]]

Ended(all, s) ==
    [t \in Sockets |-> IF t = s /\ all[t].state # "ejected" THEN [all[t] EXCEPT !.state = "ended"]
                       ELSE all[t]]

\* FAULTY: what makeSocket answers is always taken.
WantedAlways(s) == TRUE

\* The check after the await: the session or the login may be over by now.
Wanted(s) == sockets[s].attempt = attempt /\ ~closing /\ ~dead

SocketMade(s) ==
    /\ sockets[s].state = "making"
    /\ IF Wanted(s)
       THEN /\ sockets' = [sockets EXCEPT ![s].state = "live"]
            /\ sock' = s /\ sent' = 0
            /\ phase' = IF phase = "connecting" THEN "waiting" ELSE phase
       ELSE /\ sockets' = Ended(sockets, s)
            /\ UNCHANGED <<sock, sent, phase>>
    /\ UNCHANGED <<disk, flags, connected, retry, batchVars>>

\* FAULTY: only the loss of a connection is retried, not a failed attempt.
SchedulesOnceConnected == ~closing /\ ~dead /\ connected

\* scheduleReconnect, for a close that is not terminal; one timer at a time.
Schedules == ~closing /\ ~dead

-----------------------------------------------------------------------------
(* login.  Its one restart comes with the pairing's own close.             *)

LoginStart ==
    /\ phase = "idle" /\ ~disk.creds
    /\ attempt < MaxAttempts /\ Next1 \in Sockets
    /\ disk' = [creds |-> FALSE, marker |-> FALSE]
    /\ phase' = "pairing"
    /\ attempt' = attempt + 1 /\ closing' = FALSE /\ dead' = FALSE
    /\ leaving' = "close" /\ restarted' = FALSE /\ asking' = TRUE
    /\ sockets' = Make(sockets, attempt + 1, TRUE)
    /\ sock' = 0 /\ connected' = FALSE /\ retry' = FALSE /\ sent' = 0
    /\ UNCHANGED batchVars

\* The phone scanned the code: the credentials are saved, and the server
\* closes with restart-required.
LoginRestart ==
    /\ phase = "pairing" /\ sock # 0 /\ ~restarted
    /\ Next1 \in Sockets
    /\ disk' = [disk EXCEPT !.creds = TRUE]
    /\ restarted' = TRUE
    /\ sockets' = Make(Ended(sockets, sock), attempt, TRUE)
    /\ sock' = 0
    /\ UNCHANGED <<phase, attempt, closing, dead, leaving, asking, connected, retry, sent,
                   batchVars>>

LoginOver(creds) ==
    /\ closing' = TRUE
    /\ phase' = "idle"
    /\ sockets' = Ended(sockets, sock) /\ sock' = 0
    /\ disk' = [creds |-> creds, marker |-> FALSE]
    /\ UNCHANGED <<attempt, dead, leaving, restarted, asking, connected, retry, sent, batchVars>>

\* 'open': the credentials are flushed and the login's own socket is closed.
LoginSucceeds == phase = "pairing" /\ sock # 0 /\ restarted /\ LoginOver(TRUE)

\* The timeout, a close, a second restart, or a socket that cannot be built.
\* Its row never becomes active, so nothing opens what is in the directory.
LoginFails == phase = "pairing" /\ LoginOver(FALSE)

-----------------------------------------------------------------------------
(* open, and the connection a session keeps.                               *)

Open ==
    /\ phase = "idle" /\ disk.creds
    /\ attempt < MaxAttempts /\ Next1 \in Sockets
    /\ phase' = "connecting"
    /\ attempt' = attempt + 1 /\ closing' = FALSE /\ dead' = FALSE
    /\ leaving' = "close" /\ restarted' = FALSE
    /\ asking' = ~disk.marker
    /\ sockets' = Make(sockets, attempt + 1, ~disk.marker)
    /\ sock' = 0 /\ connected' = FALSE /\ retry' = FALSE /\ sent' = 0
    /\ chain' = <<>> /\ batch' = NoBatch /\ wired' = FALSE /\ buffer' = {}
    /\ straggler' = IF batch.chunk # 0 THEN batch.chunk ELSE straggler
    /\ UNCHANGED <<disk, archived, cut>>

\* A session that closes cuts short the batch that runs.
Cuts == IF batch = NoBatch THEN {} ELSE {"closed"}

\* teardown and logOut begin: the doors shut, the timers go.
Leave(why) ==
    /\ phase' = "draining"
    /\ closing' = TRUE /\ dead' = (dead \/ why = "logout")
    /\ leaving' = why
    /\ retry' = FALSE
    /\ cut' = cut \cup Cuts

\* The first connect throws, or nothing is open within the timeout.
OpenFails ==
    /\ phase \in {"connecting", "waiting"}
    /\ Leave("close")
    /\ sockets' = IF phase = "connecting"
                  THEN [s \in Sockets |-> IF s \in Making THEN Ended(sockets, s)[s] ELSE sockets[s]]
                  ELSE sockets
    /\ UNCHANGED <<disk, attempt, restarted, asking, sock, connected, sent, chain, batch,
                   straggler, wired, buffer, archived>>

\* connection: 'open'.
Connected ==
    /\ phase \in {"waiting", "open"} /\ sock # 0 /\ sockets[sock].state = "live"
    /\ ~connected
    /\ connected' = TRUE
    /\ phase' = "open"
    /\ UNCHANGED <<disk, flags, sockets, sock, retry, sent, batchVars>>

\* The manager registers in the turn in which open() resolves.
Wire ==
    /\ phase = "open" /\ ~wired
    /\ wired' = TRUE
    /\ archived' = archived \cup buffer
    /\ buffer' = {}
    /\ UNCHANGED <<disk, phase, flags, socketVars, chain, batch, straggler, cut>>

\* A close with any other code: a reconnect is scheduled.
Dropped ==
    /\ phase \in {"waiting", "open", "draining"} /\ sock # 0 /\ sockets[sock].state = "live"
    /\ sockets' = Ended(sockets, sock)
    /\ connected' = FALSE
    /\ retry' = (retry \/ Schedules)
    /\ UNCHANGED <<disk, phase, flags, sock, sent, batchVars>>

\* FAULTY: the code of a session that was replaced is not in the list.
DiesUnlessReplaced(code) == code # "replaced"

\* TERMINAL_CLOSE_CODES.
Dies(code) == code \in {"unlinked", "refused", "replaced"}

\* WhatsApp closes for good: the device is unlinked, refused or replaced.
Ejected(code) ==
    /\ phase \in {"waiting", "open"} /\ sock # 0 /\ sockets[sock].state = "live"
    /\ sockets' = [sockets EXCEPT ![sock].state = "ejected"]
    /\ connected' = FALSE
    /\ IF phase = "waiting" /\ Dies(code)
       THEN /\ phase' = "draining" /\ closing' = TRUE /\ dead' = TRUE
            /\ leaving' = "close" /\ retry' = FALSE /\ cut' = cut \cup Cuts
       ELSE /\ dead' = Dies(code)
            /\ retry' = (retry \/ ~Dies(code))
            /\ UNCHANGED <<phase, closing, leaving, cut>>
    /\ UNCHANGED <<disk, attempt, restarted, asking, sock, sent, chain, batch, straggler,
                   wired, buffer, archived>>

\* The timer fires: connect() once more, asking for history if it is owed.
RetryFires ==
    /\ retry /\ Next1 \in Sockets
    /\ retry' = FALSE
    /\ sockets' = IF closing \/ dead THEN sockets ELSE Make(sockets, attempt, asking)
    /\ UNCHANGED <<disk, phase, flags, sock, connected, sent, batchVars>>

MakeFails(s) ==
    /\ s \in Making /\ phase \in {"waiting", "open", "draining"}
    /\ sockets' = Ended(sockets, s)
    /\ retry' = (retry \/ Schedules)
    /\ UNCHANGED <<disk, phase, flags, sock, connected, sent, batchVars>>

\* The manager closes the session, or unlinks the device.
Close(why) ==
    /\ phase = "open" /\ wired
    /\ Leave(why)
    /\ UNCHANGED <<disk, attempt, restarted, asking, sockets, sock, connected, sent, chain,
                   batch, straggler, wired, buffer, archived>>

\* The chain has drained, or five seconds have passed with a batch stuck.
Drained ==
    /\ phase = "draining"
    /\ phase' = "idle"
    /\ sockets' = Ended(sockets, sock) /\ sock' = 0 /\ connected' = FALSE
    /\ disk' = IF leaving = "logout" THEN [creds |-> FALSE, marker |-> FALSE] ELSE disk
    /\ chain' = <<>> /\ batch' = NoBatch
    /\ straggler' = IF batch.chunk # 0 THEN batch.chunk ELSE straggler
    /\ UNCHANGED <<flags, retry, sent, wired, buffer, archived, cut>>

-----------------------------------------------------------------------------
(* History, and the chain of batches.                                      *)

\* WhatsApp's side: a socket that asks is sent the history from its start.
ServerSends ==
    /\ connected /\ sockets[sock].sync /\ sent < Chunks
    /\ sent' = sent + 1
    /\ chain' = Append(chain, sent + 1)
    /\ UNCHANGED <<disk, phase, flags, sockets, sock, connected, retry, batch, straggler, wired,
                   buffer, archived, cut>>

BatchBegins ==
    /\ chain # <<>> /\ batch = NoBatch
    /\ chain' = Tail(chain)
    /\ batch' = IF closing THEN NoBatch
                ELSE [chunk |-> Head(chain), next |-> FirstOf(Head(chain))]
    /\ UNCHANGED <<disk, phase, flags, socketVars, straggler, wired, buffer, archived, cut>>

\* emitMessage, once the identities of the message are resolved: shut by
\* closing, buffered until the manager listens.
Emit ==
    /\ batch # NoBatch /\ batch.next <= LastOf(batch.chunk)
    /\ batch' = [batch EXCEPT !.next = @ + 1]
    /\ archived' = IF ~closing /\ wired THEN archived \cup {batch.next} ELSE archived
    /\ buffer' = IF ~closing /\ ~wired THEN buffer \cup {batch.next} ELSE buffer
    /\ UNCHANGED <<disk, phase, flags, socketVars, chain, straggler, wired, cut>>

\* FAULTY: the first batch already counts as the history.
CompletesAtOnce(chunk) == TRUE

\* progress = 100, the server's own.
Completes(chunk) == chunk = Chunks

\* FAULTY: a directory that is gone is made again for the marker.
MarkerRemade(done) == disk.marker \/ done

\* writeFile, which fails when logOut has removed the directory.
Marker(done) == disk.marker \/ (done /\ disk.creds)

\* The last await of a batch is the writing of the marker, which needs the
\* directory; by then the manager has its callbacks in place.
BatchEnds ==
    /\ batch # NoBatch /\ batch.next > LastOf(batch.chunk)
    /\ wired \/ ~Completes(batch.chunk) \/ ~asking
    /\ LET marks == Completes(batch.chunk) /\ asking IN
        /\ disk' = [disk EXCEPT !.marker = Marker(marks)]
        /\ asking' = (asking /\ ~(marks /\ disk.creds))
    /\ batch' = NoBatch
    /\ UNCHANGED <<phase, attempt, closing, dead, leaving, restarted, socketVars, chain,
                   straggler, wired, buffer, archived, cut>>

\* A handler throws: the rest of its batch is lost, the chain goes on.
BatchThrows ==
    /\ batch # NoBatch
    /\ batch' = NoBatch
    /\ cut' = cut \cup {"threw"}
    /\ UNCHANGED <<disk, phase, flags, socketVars, chain, straggler, wired, buffer, archived>>

\* A batch the drain gave up on ends on its own: it hands nothing over, yet
\* the marker it may write is the directory's.
StragglerEnds ==
    /\ straggler # 0
    /\ disk' = [disk EXCEPT !.marker = Marker(Completes(straggler))]
    /\ straggler' = 0
    /\ UNCHANGED <<phase, flags, socketVars, chain, batch, wired, buffer, archived, cut>>

\* The worker dies: what is on disk and in the archive stays.
Crash ==
    /\ phase # "idle" \/ straggler # 0
    /\ phase' = "idle" /\ closing' = TRUE /\ retry' = FALSE /\ connected' = FALSE /\ sock' = 0
    /\ sockets' = [s \in Sockets |->
                    IF sockets[s].state \in {"making", "live"} THEN Ended(sockets, s)[s]
                    ELSE sockets[s]]
    /\ disk' = IF phase = "pairing" THEN [creds |-> FALSE, marker |-> FALSE] ELSE disk
    /\ chain' = <<>> /\ batch' = NoBatch /\ straggler' = 0 /\ wired' = FALSE /\ buffer' = {}
    /\ UNCHANGED <<attempt, dead, leaving, restarted, asking, sent, archived, cut>>

-----------------------------------------------------------------------------
Pairing == LoginStart \/ LoginRestart \/ LoginSucceeds \/ LoginFails

Connection ==
    \/ Open \/ OpenFails \/ Connected \/ Wire \/ Dropped \/ RetryFires \/ Drained
    \/ \E code \in {"unlinked", "refused", "replaced"} : Ejected(code)
    \/ \E why \in {"close", "logout"} : Close(why)
    \/ \E s \in Sockets : SocketMade(s) \/ MakeFails(s)

History ==
    ServerSends \/ BatchBegins \/ Emit \/ BatchEnds \/ BatchThrows \/ StragglerEnds

Next == Pairing \/ Connection \/ History \/ Crash

Spec == Init /\ [][Next]_vars

-----------------------------------------------------------------------------
TypeOK ==
    /\ disk \in [creds: BOOLEAN, marker: BOOLEAN] /\ (disk.marker => disk.creds)
    /\ phase \in Phases /\ attempt \in 0..MaxAttempts
    /\ closing \in BOOLEAN /\ dead \in BOOLEAN /\ leaving \in {"close", "logout"}
    /\ restarted \in BOOLEAN /\ asking \in BOOLEAN
    /\ sockets \in [Sockets -> Socket] /\ sock \in 0..MaxSockets
    /\ connected \in BOOLEAN /\ retry \in BOOLEAN /\ sent \in 0..Chunks
    /\ chain \in Seq(1..Chunks) /\ straggler \in 0..Chunks
    /\ batch \in [chunk: 0..Chunks, next: Nat]
    /\ wired \in BOOLEAN /\ buffer \subseteq Messages /\ archived \subseteq Messages
    /\ cut \subseteq {"closed", "threw"}

\* A login that has settled and a session whose close() has resolved leave no
\* socket connected, not even one that was being built at the time; and there
\* is never a second one beside the one in use.
NoSocketLeft ==
    \A s \in Sockets : sockets[s].state = "live" => phase # "idle" /\ s = sock

\* A session that is not connected and not over is always about to be: it has
\* a socket, is building one, or has its timer set.
NeverStranded ==
    phase \in {"waiting", "open"} /\ ~dead /\ ~connected =>
        retry \/ Making # {} \/ (sock # 0 /\ sockets[sock].state = "live")

\* WhatsApp has ended this session, or logOut() has.
Over ==
    \/ leaving = "logout"
    \/ \E s \in Sockets : sockets[s].attempt = attempt /\ sockets[s].state = "ejected"

\* A device that WhatsApp has unlinked, refused or replaced, or that was
\* logged out, is not connected again by the same session.
DeadStaysDown ==
    [][Over /\ attempt' = attempt =>
        \A s \in Sockets : \A state \in {"making", "live"} :
            sockets'[s].state = state => sockets[s].state = state]_vars

\* Unless a batch was cut short, the marker is on disk only when every message
\* of the history has been handed over, whatever crashes and reconnects.
HistoryComplete == disk.marker /\ cut = {} => archived = Messages

\* What the comments of open() promise of the marker: a close part-way through
\* the history leaves it unwritten.
MarkerMeansDelivered == disk.marker /\ "threw" \notin cut => archived = Messages
=============================================================================
