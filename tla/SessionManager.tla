--------------------------- MODULE SessionManager ---------------------------
(***************************************************************************)
(* The worker: one SessionManager per process, whose tick drives pending   *)
(* logins, converges the set of open channel sessions to the set of active *)
(* rows, and sweeps the auth directories of revoked WhatsApp rows; with    *)
(* the login and backfill coroutines it starts, its shutdown, its crashes,*)
(* and the portal of Connections.tla interleaved at every statement.       *)
(*                                                                         *)
(* The worker is one JavaScript thread.  A step of the tick is the code    *)
(* between two awaits, so a coroutine or the portal may run between any    *)
(* two of them.  The claim phase is the exception: it follows the loop's   *)
(* timer and awaits only synchronous database calls, so no other coroutine *)
(* of the worker runs inside it (the portal, another process, may).        *)
(***************************************************************************)
EXTENDS Connections

CONSTANTS
    MaxConsecutiveOther,  \* MAX_CONSECUTIVE_OTHER
    MaxExits              \* BOUND on how often the worker exits (stopped or crashed)

ASSUME SessionManagerAssumption ==
    /\ MaxConsecutiveOther \in Nat \ {0}
    /\ MaxExits \in Nat

VARIABLES
    worker,     \* "up", "draining" (stopAll) or "down"
    pc,         \* where the tick stands
    todo,       \* the rows of the tick's last SELECT still to be visited
    snap,       \* activeIds: the active rows as this pass read them
    cur,        \* the connection the tick is awaiting something for
    running,    \* the connections with an open channel session
    stopped,    \* the open sessions marked stopped
    backfilled, \* the open sessions whose backfill has completed
    other,      \* consecutiveOther of each open session
    swept,      \* sweptWhatsappAuth
    login,      \* the login coroutine of each connection
    aged,       \* the pending rows older than LOGIN_TIMEOUT_MS
    bf,         \* the backfill coroutine of each connection
    attached,   \* backfills whose session is still the one in `running'
    halted,     \* backfills whose session left `running' marked stopped
    exits       \* how often the worker was stopped or has crashed

tickVars == <<pc, todo, snap, cur>>
sessVars == <<running, stopped, backfilled, other>>
bfVars == <<bf, attached, halted>>
workerVars == <<worker, tickVars, sessVars, bfVars, swept, login, exits>>
vars == <<portalVars, workerVars, aged>>

\* What the tick is doing: sleeping or draining media ("idle"); claiming
\* pending logins; closing sessions whose row left the active set, and
\* awaiting the log-out of one; visiting the active rows, and awaiting an
\* unthrottled ping ("ping"), the throttled liveness probe ("probe"), an open
\* or the close of a session given up on ("kill"); sweeping.
Phases == {"idle", "claim", "close", "closing", "visit", "ping", "probe",
           "open", "kill", "sweep"}

\* A login coroutine is about to start on its directory, waiting for the
\* owner to scan, holding the channel's answer, or holding its refusal.
LoginStages == {"none", "start", "scan", "linked", "failing"}

BackfillStages == {"none", "run", "kill"}

\* Another coroutine of the worker may run.
Yielding == worker # "down" /\ pc # "claim"

ActiveRows == {c \in Conns : status[c] = "active" /\ c \notin revokedAt}
PendingRows == {c \in Conns : status[c] = "pending" /\ c \notin revokedAt}

\* FAULTY: The sweep of a candidate set that forgot the status condition.
EveryDirRow == {c \in Conns : UsesDir(c) /\ Exists(c)}

\* Every revoked row, on any tick: revokedWhatsappConnectionIds.
RevokedDirRows == {c \in Conns : UsesDir(c) /\ status[c] = "revoked"}

-----------------------------------------------------------------------------
(* Sessions *)

\* The session of c leaves `running'.  A backfill that still holds it keeps
\* reading its `stopped' flag.
Detach(c) ==
    /\ running' = running \ {c}
    /\ attached' = attached \ {c}
    /\ halted' = IF c \in attached /\ c \in stopped THEN halted \cup {c} ELSE halted
    /\ stopped' = stopped \ {c}
    /\ backfilled' = backfilled \ {c}
    /\ other' = [other EXCEPT ![c] = 0]

\* The tick awaits the channel for c, or goes on with its loop.
Await(c, phase) == cur' = c /\ pc' = phase
Resume(phase) == cur' = None /\ pc' = phase

\* shouldContinue() of the backfill of c.
Continues(c) == IF c \in attached THEN c \notin stopped ELSE c \notin halted

\* maybeStartBackfill: one per connection, never for a stopped or an already
\* backfilled session.
MayBackfill(c) == c \notin backfilled /\ c \notin stopped /\ bf[c] = "none"

StartBackfill(c) ==
    /\ bf' = [bf EXCEPT ![c] = "run"]
    /\ attached' = attached \cup {c}
    /\ halted' = halted \ {c}

\* handleSessionError on auth_invalidated, up to its close(): the row is
\* revoked, and a session that is still open is marked stopped.
Invalidate(c) ==
    /\ RevokeRow(c)
    /\ stopped' = IF c \in running THEN stopped \cup {c} ELSE stopped

-----------------------------------------------------------------------------
(* The tick: startPendingLogins *)

TickBegin ==
    /\ worker = "up" /\ pc = "idle"
    /\ pc' = "claim"
    /\ todo' = PendingRows
    /\ UNCHANGED <<portalVars, worker, snap, cur, sessVars, bfVars, swept, login, exits, aged>>

\* One claimed row: a login already in flight is left alone, one older than
\* the login window is failed, any other gets its driver started.
ClaimSkip(c) ==
    /\ pc = "claim" /\ c \in todo
    /\ login[c] # "none"
    /\ todo' = todo \ {c}
    /\ UNCHANGED <<portalVars, worker, pc, snap, cur, sessVars, bfVars, swept, login, exits, aged>>

\* FAULTY: failLogin without its revoked_at guard.
FailRowUnguarded(c) ==
    /\ status' = [status EXCEPT ![c] = IF Exists(c) THEN "error" ELSE @]
    /\ UNCHANGED <<revokedAt, cipher, archived>>

\* failLogin: a retryable error, only on a live row.
FailRow(c) ==
    /\ status' = [status EXCEPT ![c] = IF Live(c) THEN "error" ELSE @]
    /\ UNCHANGED <<revokedAt, cipher, archived>>

\* FAULTY: A claim that passes an expired row over.
ClaimExpireIgnored(c) ==
    /\ pc = "claim" /\ c \in todo
    /\ login[c] = "none" /\ c \in aged
    /\ todo' = todo \ {c}
    /\ UNCHANGED <<portalVars, worker, pc, snap, cur, sessVars, bfVars, swept, login, exits, aged>>

ClaimExpire(c) ==
    /\ pc = "claim" /\ c \in todo
    /\ login[c] = "none" /\ c \in aged
    /\ FailRow(c)
    /\ todo' = todo \ {c}
    /\ UNCHANGED <<dirs, req, worker, pc, snap, cur, sessVars, bfVars, swept, login, exits, aged>>

ClaimStart(c) ==
    /\ pc = "claim" /\ c \in todo
    /\ login[c] = "none" /\ c \notin aged
    /\ login' = [login EXCEPT ![c] = "start"]
    /\ todo' = todo \ {c}
    /\ UNCHANGED <<portalVars, worker, pc, snap, cur, sessVars, bfVars, swept, exits, aged>>

\* reconcileActive begins: the active rows are read once for the whole pass.
ReadActive ==
    /\ pc = "claim" /\ todo = {}
    /\ snap' = ActiveRows
    /\ pc' = "close"
    /\ UNCHANGED <<portalVars, worker, todo, cur, sessVars, bfVars, swept, login, exits, aged>>

-----------------------------------------------------------------------------
(* The tick: reconcileActive, closing what is no longer active *)

\* FAULTY: Closing without marking the session stopped first.
CloseBeginUnmarked(c) ==
    /\ pc = "close" /\ c \in running \ snap
    /\ Await(c, "closing")
    /\ UNCHANGED <<portalVars, worker, todo, snap, sessVars, bfVars, swept, login, exits, aged>>

CloseBegin(c) ==
    /\ pc = "close" /\ c \in running \ snap
    /\ stopped' = stopped \cup {c}
    /\ Await(c, "closing")
    /\ UNCHANGED <<portalVars, worker, todo, snap, running, backfilled, other, bfVars, swept, login, exits, aged>>

\* logOut() answered: WhatsApp's also removes the auth directory.
LoggedOut ==
    /\ pc = "closing"
    /\ Detach(cur)
    /\ dirs' = IF UsesDir(cur) THEN dirs \ {cur} ELSE dirs
    /\ Resume("close")
    /\ UNCHANGED <<rowVars, req, worker, todo, snap, bf, swept, login, exits, aged>>

\* logOut() threw or outlived LOGOUT_TIMEOUT_MS: close() instead.
LogOutFailed ==
    /\ pc = "closing"
    /\ Detach(cur)
    /\ Resume("close")
    /\ UNCHANGED <<portalVars, worker, todo, snap, bf, swept, login, exits, aged>>

\* FAULTY: A pass that may leave an inactive session open.
CloseDoneEarly ==
    /\ pc = "close"
    /\ todo' = snap
    /\ pc' = "visit" /\ snap' = {}
    /\ UNCHANGED <<portalVars, worker, cur, sessVars, bfVars, swept, login, exits, aged>>

CloseDone ==
    /\ pc = "close" /\ running \subseteq snap
    /\ todo' = snap
    /\ pc' = "visit" /\ snap' = {}
    /\ UNCHANGED <<portalVars, worker, cur, sessVars, bfVars, swept, login, exits, aged>>

-----------------------------------------------------------------------------
(* The tick: reconcileActive, visiting the rows it read *)

\* An open session is pinged: every tick before its backfill completes, once
\* per PING_EVERY_MS after (VisitThrottled is a tick inside that window).
VisitOpen(c) ==
    /\ pc = "visit" /\ c \in todo /\ c \in running
    /\ todo' = todo \ {c}
    /\ Await(c, IF c \in backfilled THEN "probe" ELSE "ping")
    /\ UNCHANGED <<portalVars, worker, snap, sessVars, bfVars, swept, login, exits, aged>>

VisitThrottled(c) ==
    /\ pc = "visit" /\ c \in todo /\ c \in running /\ c \in backfilled
    /\ todo' = todo \ {c}
    /\ UNCHANGED <<portalVars, worker, pc, snap, cur, sessVars, bfVars, swept, login, exits, aged>>

\* No session yet: open one from the credential this pass read.  WhatsApp's
\* open makes the auth directory if it is missing.
VisitClosed(c) ==
    /\ pc = "visit" /\ c \in todo /\ c \notin running
    /\ todo' = todo \ {c}
    /\ Await(c, "open")
    /\ dirs' = IF UsesDir(c) THEN dirs \cup {c} ELSE dirs
    /\ UNCHANGED <<rowVars, req, worker, snap, sessVars, bfVars, swept, login, exits, aged>>

\* The ping answered.  Before the backfill has completed it may start or
\* retry one (BACKFILL_RETRY_BACKOFF_MS decides which ticks do).
PingOk ==
    /\ pc \in {"ping", "probe"}
    /\ other' = [other EXCEPT ![cur] = 0]
    /\ \/ pc = "ping" /\ cur \in running /\ MayBackfill(cur) /\ StartBackfill(cur)
       \/ UNCHANGED bfVars
    /\ Resume("visit")
    /\ UNCHANGED <<portalVars, worker, todo, snap, running, stopped, backfilled, swept, login, exits, aged>>

\* A ping or an open found the session dead on the channel's side.
FoundDead ==
    /\ pc \in {"ping", "probe", "open"}
    /\ Invalidate(cur)
    /\ IF cur \in running THEN Await(cur, "kill") ELSE Resume("visit")
    /\ UNCHANGED <<archived, dirs, req, worker, todo, snap, running, backfilled, other, bfVars, swept, login, exits, aged>>

\* Any other failure is logged and left for the next tick ...
FailedOther ==
    /\ \/ pc \in {"ping", "open"}
       \/ pc = "probe" /\ cur \notin running
    /\ Resume("visit")
    /\ UNCHANGED <<portalVars, worker, todo, snap, sessVars, bfVars, swept, login, exits, aged>>

\* FAULTY: recycles only past the limit.
ProbeOtherOffByOne ==
    /\ pc = "probe" /\ cur \in running
    /\ \/ /\ other[cur] < MaxConsecutiveOther
          /\ other' = [other EXCEPT ![cur] = @ + 1]
          /\ Resume("visit")
          /\ UNCHANGED stopped
       \/ /\ other[cur] >= MaxConsecutiveOther
          /\ stopped' = stopped \cup {cur}
          /\ Await(cur, "kill")
          /\ UNCHANGED other
    /\ UNCHANGED <<portalVars, worker, todo, snap, running, backfilled, bfVars, swept, login, exits, aged>>

\* ... but failures of the throttled probe are counted, and the session that
\* reaches the limit is thrown away.
ProbeOther ==
    /\ pc = "probe" /\ cur \in running
    /\ \/ /\ other[cur] + 1 < MaxConsecutiveOther
          /\ other' = [other EXCEPT ![cur] = @ + 1]
          /\ Resume("visit")
          /\ UNCHANGED stopped
       \/ /\ other[cur] + 1 >= MaxConsecutiveOther
          /\ stopped' = stopped \cup {cur}
          /\ Await(cur, "kill")
          /\ UNCHANGED other
    /\ UNCHANGED <<portalVars, worker, todo, snap, running, backfilled, bfVars, swept, login, exits, aged>>

\* FAULTY: Closed, but left in `running'.
KilledNotDropped ==
    /\ pc = "kill"
    /\ Resume("visit")
    /\ UNCHANGED <<portalVars, worker, todo, snap, sessVars, bfVars, swept, login, exits, aged>>

Killed ==
    /\ pc = "kill"
    /\ Detach(cur)
    /\ Resume("visit")
    /\ UNCHANGED <<portalVars, worker, todo, snap, bf, swept, login, exits, aged>>

\* The session is tracked before its handlers are wired, then backfilled.
Opened ==
    /\ pc = "open"
    /\ running' = running \cup {cur}
    /\ stopped' = stopped \ {cur}
    /\ backfilled' = backfilled \ {cur}
    /\ other' = [other EXCEPT ![cur] = 0]
    /\ IF bf[cur] = "none" THEN StartBackfill(cur) ELSE UNCHANGED bfVars
    /\ Resume("visit")
    /\ UNCHANGED <<portalVars, worker, todo, snap, swept, login, exits, aged>>

-----------------------------------------------------------------------------
(* The tick: sweepRevokedWhatsappAuth *)

VisitDone ==
    /\ pc = "visit" /\ todo = {}
    /\ todo' = RevokedDirRows \ swept
    /\ pc' = "sweep"
    /\ UNCHANGED <<portalVars, worker, snap, cur, sessVars, bfVars, swept, login, exits, aged>>

\* Remembered before the removal is tried, and never tried again by this
\* process; a removal that fails is only logged.
Sweep(c) ==
    /\ pc = "sweep" /\ c \in todo
    /\ todo' = todo \ {c}
    /\ swept' = swept \cup {c}
    /\ \/ dirs' = dirs \ {c}
       \/ UNCHANGED dirs
    /\ UNCHANGED <<rowVars, req, worker, pc, snap, cur, sessVars, bfVars, login, exits, aged>>

TickEnd ==
    /\ pc = "sweep" /\ todo = {}
    /\ pc' = "idle"
    /\ UNCHANGED <<portalVars, worker, todo, snap, cur, sessVars, bfVars, swept, login, exits, aged>>

-----------------------------------------------------------------------------
(* The login coroutine: driveLogin *)

\* WhatsApp's login starts from nothing: it removes the directory a previous
\* attempt left and makes it again.
LoginStart(c) ==
    /\ Yielding /\ login[c] = "start"
    /\ login' = [login EXCEPT ![c] = "scan"]
    /\ dirs' = IF UsesDir(c) THEN dirs \cup {c} ELSE dirs
    /\ UNCHANGED <<rowVars, req, worker, tickVars, sessVars, bfVars, swept, exits, aged>>

\* The owner scanned (and passed 2FA): the channel answers with a session.
LoginScanned(c) ==
    /\ Yielding /\ login[c] = "scan"
    /\ login' = [login EXCEPT ![c] = "linked"]
    /\ UNCHANGED <<portalVars, worker, tickVars, sessVars, bfVars, swept, exits, aged>>

\* The channel refuses, or the login window closes.
LoginRefused(c) ==
    /\ Yielding /\ login[c] \in {"start", "scan"}
    /\ login' = [login EXCEPT ![c] = "failing"]
    /\ UNCHANGED <<portalVars, worker, tickVars, sessVars, bfVars, swept, exits, aged>>

LoginTimedOut(c) == c \in aged /\ LoginRefused(c)

\* FAULTY: completeLogin as an UPDATE by id alone.
LoginCompleteUnguarded(c) ==
    /\ Yielding /\ login[c] = "linked"
    /\ login' = [login EXCEPT ![c] = "none"]
    /\ Exists(c)
    /\ status' = [status EXCEPT ![c] = "active"]
    /\ cipher' = cipher \cup {c}
    /\ UNCHANGED <<revokedAt, archived, dirs, req, worker, tickVars, sessVars, bfVars, swept, exits, aged>>

\* completeLogin: only a row that is STILL a live pending login is completed;
\* a revoked or deleted one is 'gone' and left alone.  The history event is
\* written after the update: should that write throw, the driver's catch
\* fails the row it has just made active.
LoginComplete(c) ==
    /\ Yielding /\ login[c] = "linked"
    /\ login' = [login EXCEPT ![c] = "none"]
    /\ \/ /\ status[c] = "pending" /\ c \notin revokedAt
          /\ \/ status' = [status EXCEPT ![c] = "active"]
             \/ status' = [status EXCEPT ![c] = "error"]
          /\ cipher' = cipher \cup {c}
       \/ /\ ~(status[c] = "pending" /\ c \notin revokedAt)
          /\ UNCHANGED <<status, cipher>>
    /\ UNCHANGED <<revokedAt, archived, dirs, req, worker, tickVars, sessVars, bfVars, swept, exits, aged>>

LoginFail(c) ==
    /\ Yielding /\ login[c] = "failing"
    /\ FailRow(c)
    /\ login' = [login EXCEPT ![c] = "none"]
    /\ UNCHANGED <<dirs, req, worker, tickVars, sessVars, bfVars, swept, exits, aged>>

\* LOGIN_TIMEOUT_MS has passed since the row's created_at.
Age(c) ==
    /\ status[c] = "pending" /\ c \notin aged
    /\ aged' = aged \cup {c}
    /\ UNCHANGED <<portalVars, workerVars>>

-----------------------------------------------------------------------------
(* The backfill coroutine, and messages that arrive on their own *)

\* A message lands only where its connection row exists (foreign key); one
\* for a row that is gone is an error like any other (BackfillFails).
BackfillMessage(c) ==
    /\ Yielding /\ bf[c] = "run" /\ Continues(c) /\ Exists(c)
    /\ archived' = archived \cup {c}
    /\ UNCHANGED <<status, revokedAt, cipher, dirs, req, workerVars, aged>>

\* The generator is exhausted, or shouldContinue() said stop.
BackfillEnd(c) ==
    /\ Yielding /\ bf[c] = "run"
    /\ bf' = [bf EXCEPT ![c] = "none"]
    /\ backfilled' = IF Continues(c) /\ c \in attached THEN backfilled \cup {c} ELSE backfilled
    /\ attached' = attached \ {c}
    /\ halted' = halted \ {c}
    /\ UNCHANGED <<portalVars, worker, tickVars, running, stopped, other, swept, login, exits, aged>>

\* It threw: retried by a later tick.
BackfillFails(c) ==
    /\ Yielding /\ bf[c] = "run"
    /\ bf' = [bf EXCEPT ![c] = "none"]
    /\ attached' = attached \ {c}
    /\ halted' = halted \ {c}
    /\ UNCHANGED <<portalVars, worker, tickVars, sessVars, swept, login, exits, aged>>

\* It threw because the session is dead on the channel's side.
BackfillFoundDead(c) ==
    /\ Yielding /\ bf[c] = "run"
    /\ Invalidate(c)
    /\ bf' = [bf EXCEPT ![c] = IF c \in running THEN "kill" ELSE "none"]
    /\ attached' = IF c \in running THEN attached ELSE attached \ {c}
    /\ halted' = IF c \in running THEN halted ELSE halted \ {c}
    /\ UNCHANGED <<archived, dirs, req, worker, tickVars, running, backfilled, other, swept, login, exits, aged>>

BackfillKilled(c) ==
    /\ Yielding /\ bf[c] = "kill"
    /\ running' = running \ {c}
    /\ stopped' = stopped \ {c}
    /\ backfilled' = backfilled \ {c}
    /\ other' = [other EXCEPT ![c] = 0]
    /\ bf' = [bf EXCEPT ![c] = "none"]
    /\ attached' = attached \ {c}
    /\ halted' = halted \ {c}
    /\ UNCHANGED <<portalVars, worker, tickVars, swept, login, exits, aged>>

\* A live message: WhatsApp's doors shut the moment its log-out or close
\* starts, Telegram's stay open until the session is gone.
LiveMessage(c) ==
    /\ Yielding /\ c \in running /\ Exists(c)
    /\ UsesDir(c) => c \notin stopped
    /\ archived' = archived \cup {c}
    /\ UNCHANGED <<status, revokedAt, cipher, dirs, req, workerVars, aged>>

-----------------------------------------------------------------------------
(* The process *)

\* FAULTY: stopAll that waits without telling the backfills to stop.
StopAllUnmarked ==
    /\ worker = "up" /\ pc = "idle" /\ exits < MaxExits
    /\ exits' = exits + 1
    /\ worker' = "draining"
    /\ UNCHANGED <<portalVars, tickVars, sessVars, bfVars, swept, login, aged>>

\* SIGTERM ends the loop between two ticks; stopAll marks every session
\* stopped, waits for the backfills and closes.
StopAll ==
    /\ worker = "up" /\ pc = "idle" /\ exits < MaxExits
    /\ exits' = exits + 1
    /\ worker' = "draining"
    /\ stopped' = running
    /\ UNCHANGED <<portalVars, tickVars, running, backfilled, other, bfVars, swept, login, aged>>

\* Whatever the process held in memory is gone; so are the portal's requests
\* where both processes share the container, which exits with either.
Forget ==
    /\ worker' = "down"
    /\ req' \in {req, [r \in Requests |-> Idle]}
    /\ pc' = "idle" /\ todo' = {} /\ snap' = {} /\ cur' = None
    /\ running' = {} /\ stopped' = {} /\ backfilled' = {}
    /\ other' = [c \in Conns |-> 0]
    /\ bf' = [c \in Conns |-> "none"]
    /\ attached' = {} /\ halted' = {}
    /\ swept' = {}
    /\ login' = [c \in Conns |-> "none"]

Drained ==
    /\ worker = "draining"
    /\ \A c \in Conns : bf[c] = "none"
    /\ Forget
    /\ UNCHANGED <<rowVars, dirs, exits, aged>>

Crash ==
    /\ worker # "down" /\ exits < MaxExits
    /\ exits' = exits + 1
    /\ Forget
    /\ UNCHANGED <<rowVars, dirs, aged>>

Start ==
    /\ worker = "down"
    /\ worker' = "up"
    /\ UNCHANGED <<portalVars, tickVars, sessVars, bfVars, swept, login, exits, aged>>

-----------------------------------------------------------------------------
(* The specification *)

Init ==
    /\ PortalInit
    /\ worker = "up"
    /\ pc = "idle" /\ todo = {} /\ snap = {} /\ cur = None
    /\ running = {} /\ stopped = {} /\ backfilled = {}
    /\ other = [c \in Conns |-> 0]
    /\ swept = {}
    /\ login = [c \in Conns |-> "none"]
    /\ aged = {}
    /\ bf = [c \in Conns |-> "none"]
    /\ attached = {} /\ halted = {}
    /\ exits = 0

Portal ==
    /\ \/ \E r \in Requests : PortalStep(r)
       \/ \E c \in Conns : Disconnect(c)
    /\ UNCHANGED <<workerVars, aged>>

\* The steps of the tick, in the order of the code.
Tick ==
    \/ TickBegin
    \/ \E c \in Conns : ClaimSkip(c) \/ ClaimExpire(c) \/ ClaimStart(c)
    \/ ReadActive
    \/ \E c \in Conns : CloseBegin(c)
    \/ LoggedOut \/ LogOutFailed
    \/ CloseDone
    \/ \E c \in Conns : VisitOpen(c) \/ VisitThrottled(c) \/ VisitClosed(c)
    \/ PingOk \/ FoundDead \/ FailedOther \/ ProbeOther \/ Killed \/ Opened
    \/ VisitDone
    \/ \E c \in Conns : Sweep(c)
    \/ TickEnd

LoginCoroutine(c) ==
    \/ LoginStart(c) \/ LoginScanned(c) \/ LoginRefused(c)
    \/ LoginComplete(c) \/ LoginFail(c)

BackfillCoroutine(c) ==
    \/ BackfillMessage(c) \/ BackfillEnd(c) \/ BackfillFails(c)
    \/ BackfillFoundDead(c) \/ BackfillKilled(c)

Process == StopAll \/ Drained \/ Crash \/ Start

Next ==
    \/ Portal
    \/ Tick
    \/ \E c \in Conns : LoginCoroutine(c) \/ BackfillCoroutine(c) \/ LiveMessage(c) \/ Age(c)
    \/ Process

Spec == Init /\ [][Next]_vars

\* The generator sees at its next item that shouldContinue() is false.  A scan
\* nobody stops may take as long as the account is heavy: no fairness for it.
BackfillStops(c) == ~Continues(c) /\ BackfillEnd(c)

(* Every await of the tick ends: the calls to the channel are bounded (the  *)
(* log-out by LOGOUT_TIMEOUT_MS, WhatsApp's open by its own timer) or       *)
(* assumed to answer.  The event loop resumes every coroutine, hence strong *)
(* fairness for steps the claim phase disables for a moment; time passes;   *)
(* the host restarts a container that exited.  Nothing obliges the owner to *)
(* scan, the channel to accept, or a message to come.                       *)
Fairness ==
    /\ WF_vars(Tick)
    /\ \A c \in Conns :
        /\ SF_vars(LoginStart(c))
        /\ SF_vars(LoginTimedOut(c))
        /\ SF_vars(LoginComplete(c))
        /\ SF_vars(LoginFail(c))
        /\ SF_vars(BackfillStops(c))
        /\ SF_vars(BackfillKilled(c))
        /\ WF_vars(Age(c))
    /\ WF_vars(Drained)
    /\ WF_vars(Start)

FairSpec == Spec /\ Fairness

-----------------------------------------------------------------------------
(* Properties *)

\* The abstract life of a connection that the worker and the portal implement.
Phase(c) ==
    CASE status[c] = "unborn" -> "none"
      [] status[c] = "pending" -> "pairing"
      [] status[c] = "active" -> "linked"
      [] status[c] = "error" -> "failed"
      [] status[c] = "revoked" -> "ended"
      [] OTHER -> "gone"

Life == INSTANCE ConnectionLife WITH phase <- [c \in Conns |-> Phase(c)], reading <- running

\* Type correctness of the rows, the volume, the requests and the worker.
TypeOK ==
    /\ PortalTypeOK
    /\ worker \in {"up", "draining", "down"}
    /\ pc \in Phases
    /\ todo \subseteq Conns /\ snap \subseteq Conns /\ cur \in Conns \cup {None}
    /\ pc \in {"closing", "ping", "probe", "open", "kill"} => cur \in Conns
    /\ running \subseteq Conns
    /\ stopped \subseteq running /\ backfilled \subseteq running
    /\ other \in [Conns -> 0..MaxConsecutiveOther - 1]
    /\ swept \subseteq Conns /\ aged \subseteq Conns
    /\ login \in [Conns -> LoginStages]
    /\ bf \in [Conns -> BackfillStages]
    /\ attached \subseteq running /\ halted \subseteq Conns
    /\ exits \in 0..MaxExits

\* "The partial unique index and the status column can never disagree", and a
\* credential is held only by a row whose login completed: whatever order the
\* portal's revoke, the login driver's answer and its failure come in.
StatusAgrees ==
    /\ \A c \in Conns : status[c] = "revoked" <=> c \in revokedAt
    /\ \A c \in cipher : status[c] \in {"active", "error"}

\* One live row per channel, while two requests race to create one and the
\* worker completes or fails a third.
OneLivePerChannel ==
    \A c, d \in Conns : Live(c) /\ Live(d) /\ ChannelOf[c] = ChannelOf[d] => c = d

\* The auth directory of an active WhatsApp row is on the volume: no login
\* restart, log-out, sweep or delete ever removes the keys of a connection
\* the owner has not ended.
ActiveKeepsAuth ==
    \A c \in Conns : UsesDir(c) /\ status[c] = "active" => c \in dirs

\* A backfill that outlives its session (recycled, revoked, logged out) sees
\* shouldContinue() false: it never reads on through a session the manager
\* has forgotten.
BackfillHaltsWithSession ==
    \A c \in Conns : bf[c] = "run" /\ c \notin attached => c \in halted

\* A revoked row is never resurrected, and never holds a credential again.
RevocationIsFinal ==
    [][\A c \in Conns : status[c] = "revoked" =>
            status'[c] \in {"revoked", "deleted"} /\ c \notin cipher']_vars

\* After a revoke or a delete the worker ends up with no session on the
\* connection, for good, even if the pass in progress still opens one from
\* the rows it read before.
EndedIsClosed == Life!Closed

\* Every login attempt is decided: linked, failed, revoked or replaced; a
\* restart cannot reset its clock.
PendingSettles == Life!Decided

\* A session marked stopped is dropped, never pinged forever.
StoppedIsDropped ==
    \A c \in Conns : c \in stopped ~> c \notin stopped

\* Shutdown ends: stopAll never waits on a backfill that does not stop.
StopCompletes == worker = "draining" ~> worker = "down"

\* Every step of the portal and the worker is a step of the abstract life, or
\* none: an ended connection never comes back, a failed one is never linked,
\* and only a connection that was linked is ever read.
ImplementsLife == Life!Spec

-----------------------------------------------------------------------------
(* What comments of the code say and the code does not do *)

\* "An ACTIVE row blocks it outright": a new attempt never deletes a row that
\* is active at that moment.
ActiveNeverDropped ==
    [][\A c \in Conns : status[c] = "active" => status'[c] # "deleted"]_vars

\* The sweep takes the signal keys of a connection only after its session has
\* been closed.
SweptAfterClose ==
    [][\A c \in swept' \ swept : c \notin running]_vars

\* A delete of a row whose auth directory is on the volume leaves a request
\* that is about to remove it: "the service also unlinks ... the auth
\* directory" of a connection it deletes.
DeletedDirIsUnlinked ==
    [][\A c \in dirs : Exists(c) /\ status'[c] = "deleted" =>
            \E r \in Requests : req'[r].at = "unlink" /\ req'[r].conn = c]_vars
=============================================================================
