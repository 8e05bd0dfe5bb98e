------------------------- MODULE SessionManagerProofs -------------------------
(***************************************************************************)
(* What holds of SessionManager for every set of connections, channels and *)
(* portal requests, every limit and any number of exits: type correctness, *)
(* the consistency of the table, the inductive invariant behind the safety *)
(* of the auth directories and of the backfills, and the refinement of     *)
(* ConnectionLife.                                                         *)
(***************************************************************************)
EXTENDS SessionManager, TLAPS

\* A row whose login was completed, though it may have ended since.
Linked(c) == status[c] \in {"active", "revoked", "deleted"}

\* A row that no step makes active again.
Ended(c) == status[c] \in {"revoked", "deleted"}

\* A row still waiting for its login, unless the portal has ended it.
Undecided(c) == status[c] \in {"pending", "revoked", "deleted"}

\* What each request knows of the row it names.
RequestsInv ==
    \A r \in Requests :
        /\ req[r].at \in {"look", "replace", "discard", "drop", "unlink"} =>
              status[req[r].conn] # "unborn"
        /\ req[r].at = "unlink" => status[req[r].conn] = "deleted"

\* What the tick knows of the rows it read, though the portal may have moved
\* them on since: no row it is about to fail is active, what it closes and
\* what it sweeps has ended, and it drops no session that is not stopped.
TickInv ==
    /\ \A c \in snap : Linked(c)
    /\ pc = "claim" => \A c \in todo : Undecided(c)
    /\ pc = "visit" => \A c \in todo : Linked(c)
    /\ pc \in {"ping", "probe", "open", "kill"} =>
          Linked(cur) /\ \A c \in todo : Linked(c)
    /\ pc \in {"close", "closing"} => \A c \in running \ snap : Ended(c)
    /\ pc = "closing" => Ended(cur)
    /\ pc = "sweep" => \A c \in todo : Ended(c)
    /\ pc \in {"closing", "kill"} /\ cur \in running => cur \in stopped

\* A login in flight is for an undecided row, and past its first step it has
\* made the directory; a session is open only for a row that was linked.
CoroutinesInv ==
    /\ \A c \in Conns : login[c] # "none" => Undecided(c)
    /\ \A c \in Conns :
          UsesDir(c) /\ status[c] = "pending" /\ login[c] \in {"scan", "linked"} => c \in dirs
    /\ \A c \in running : Linked(c)

RowsInv == StatusAgrees /\ OneLivePerChannel

\* RequestsInv, TickInv and CoroutinesInv strengthen the two properties that
\* are not inductive alone.
KeepsInv ==
    /\ ActiveKeepsAuth
    /\ BackfillHaltsWithSession
    /\ RequestsInv
    /\ TickInv
    /\ CoroutinesInv

IInv == TypeOK /\ RowsInv /\ KeepsInv

\* The vocabulary every proof below reads: which rows there are and the tuples
\* of variables.
USE ConnectionsAssumption, SessionManagerAssumption
USE DEF Exists, Live, LiveOn, UsesDir, Idle, vars, portalVars, rowVars, workerVars, tickVars,
        sessVars, bfVars

-----------------------------------------------------------------------------
(* Type correctness *)

LEMMA InitTypeOK == Init => TypeOK
  BY DEF Init, PortalInit, TypeOK, PortalTypeOK, Statuses, Stages, Phases, LoginStages, BackfillStages

LEMMA StepTypeOK ==
    ASSUME TypeOK, Next
    PROVE  TypeOK'
<1>1. ASSUME NEW r \in Requests, NEW ch \in Channels, CreateBegin(r, ch), UNCHANGED <<workerVars, aged>>
       PROVE  TypeOK'
  BY <1>1 DEF TypeOK, PortalTypeOK, Statuses, Stages, Phases, LoginStages, BackfillStages,
       CreateBegin
<1>2. ASSUME NEW r \in Requests, CreateLook(r), UNCHANGED <<workerVars, aged>>
       PROVE  TypeOK'
  BY <1>2 DEF TypeOK, PortalTypeOK, Statuses, Stages, Phases, LoginStages, BackfillStages,
       CreateLook, Goto
<1>3. ASSUME NEW r \in Requests, CreateReplace(r), UNCHANGED <<workerVars, aged>>
       PROVE  TypeOK'
  BY <1>3 DEF TypeOK, PortalTypeOK, Statuses, Stages, Phases, LoginStages, BackfillStages,
       CreateReplace, RevokeRow, Goto
<1>4. ASSUME NEW r \in Requests, CreateDiscard(r), UNCHANGED <<workerVars, aged>>
       PROVE  TypeOK'
  BY <1>4 DEF TypeOK, PortalTypeOK, Statuses, Stages, Phases, LoginStages, BackfillStages,
       CreateDiscard, DeleteRow, Goto
<1>5. ASSUME NEW r \in Requests, CreateInsert(r), UNCHANGED <<workerVars, aged>>
       PROVE  TypeOK'
  BY <1>5 DEF TypeOK, PortalTypeOK, Statuses, Stages, Phases, LoginStages, BackfillStages,
       CreateInsert, InsertRow, Finish
<1>6. ASSUME NEW r \in Requests, CreateRefused(r), UNCHANGED <<workerVars, aged>>
       PROVE  TypeOK'
  BY <1>6 DEF TypeOK, PortalTypeOK, Statuses, Stages, Phases, LoginStages, BackfillStages,
       CreateRefused, Finish
<1>7. ASSUME NEW r \in Requests, NEW c \in Conns, DeleteBegin(r, c), UNCHANGED <<workerVars, aged>>
       PROVE  TypeOK'
  BY <1>7 DEF TypeOK, PortalTypeOK, Statuses, Stages, Phases, LoginStages, BackfillStages,
       DeleteBegin, RevokeRow
<1>8. ASSUME NEW r \in Requests, DeleteDrop(r), UNCHANGED <<workerVars, aged>>
       PROVE  TypeOK'
  BY <1>8 DEF TypeOK, PortalTypeOK, Statuses, Stages, Phases, LoginStages, BackfillStages,
       DeleteDrop, DeleteRow, Goto, Finish
<1>9. ASSUME NEW r \in Requests, DeleteUnlink(r), UNCHANGED <<workerVars, aged>>
       PROVE  TypeOK'
  BY <1>9 DEF TypeOK, PortalTypeOK, Statuses, Stages, Phases, LoginStages, BackfillStages,
       DeleteUnlink, Finish
<1>10. ASSUME NEW c \in Conns, Disconnect(c), UNCHANGED <<workerVars, aged>>
       PROVE  TypeOK'
  BY <1>10 DEF TypeOK, PortalTypeOK, Statuses, Stages, Phases, LoginStages, BackfillStages,
       Disconnect, RevokeRow
<1>11. ASSUME TickBegin PROVE TypeOK'
  BY <1>11 DEF TypeOK, PortalTypeOK, Statuses, Stages, Phases, LoginStages, BackfillStages,
       TickBegin, PendingRows
<1>12. ASSUME NEW c \in Conns, ClaimSkip(c) PROVE TypeOK'
  BY <1>12 DEF TypeOK, PortalTypeOK, Statuses, Stages, Phases, LoginStages, BackfillStages,
       ClaimSkip
<1>13. ASSUME NEW c \in Conns, ClaimExpire(c) PROVE TypeOK'
  BY <1>13 DEF TypeOK, PortalTypeOK, Statuses, Stages, Phases, LoginStages, BackfillStages,
       ClaimExpire, FailRow
<1>14. ASSUME NEW c \in Conns, ClaimStart(c) PROVE TypeOK'
  BY <1>14 DEF TypeOK, PortalTypeOK, Statuses, Stages, Phases, LoginStages, BackfillStages,
       ClaimStart
<1>15. ASSUME ReadActive PROVE TypeOK'
  BY <1>15 DEF TypeOK, PortalTypeOK, Statuses, Stages, Phases, LoginStages, BackfillStages,
       ReadActive, ActiveRows
<1>16. ASSUME NEW c \in Conns, CloseBegin(c) PROVE TypeOK'
  BY <1>16 DEF TypeOK, PortalTypeOK, Statuses, Stages, Phases, LoginStages, BackfillStages,
       CloseBegin, Await
<1>17. ASSUME LoggedOut PROVE TypeOK'
  BY <1>17 DEF TypeOK, PortalTypeOK, Statuses, Stages, Phases, LoginStages, BackfillStages,
       LoggedOut, Detach, Resume
<1>18. ASSUME LogOutFailed PROVE TypeOK'
  BY <1>18 DEF TypeOK, PortalTypeOK, Statuses, Stages, Phases, LoginStages, BackfillStages,
       LogOutFailed, Detach, Resume
<1>19. ASSUME CloseDone PROVE TypeOK'
  BY <1>19 DEF TypeOK, PortalTypeOK, Statuses, Stages, Phases, LoginStages, BackfillStages,
       CloseDone
<1>20. ASSUME NEW c \in Conns, VisitOpen(c) PROVE TypeOK'
  BY <1>20 DEF TypeOK, PortalTypeOK, Statuses, Stages, Phases, LoginStages, BackfillStages,
       VisitOpen, Await
<1>21. ASSUME NEW c \in Conns, VisitThrottled(c) PROVE TypeOK'
  BY <1>21 DEF TypeOK, PortalTypeOK, Statuses, Stages, Phases, LoginStages, BackfillStages,
       VisitThrottled
<1>22. ASSUME NEW c \in Conns, VisitClosed(c) PROVE TypeOK'
  BY <1>22 DEF TypeOK, PortalTypeOK, Statuses, Stages, Phases, LoginStages, BackfillStages,
       VisitClosed, Await
<1>23. ASSUME PingOk PROVE TypeOK'
  BY <1>23 DEF TypeOK, PortalTypeOK, Statuses, Stages, Phases, LoginStages, BackfillStages,
       PingOk, Resume, StartBackfill, MayBackfill
<1>24. ASSUME FoundDead PROVE TypeOK'
  BY <1>24 DEF TypeOK, PortalTypeOK, Statuses, Stages, Phases, LoginStages, BackfillStages,
       FoundDead, Invalidate, RevokeRow, Await, Resume
<1>25. ASSUME FailedOther PROVE TypeOK'
  BY <1>25 DEF TypeOK, PortalTypeOK, Statuses, Stages, Phases, LoginStages, BackfillStages,
       FailedOther, Resume
<1>26. ASSUME ProbeOther PROVE TypeOK'
  BY <1>26 DEF TypeOK, PortalTypeOK, Statuses, Stages, Phases, LoginStages, BackfillStages,
       ProbeOther, Await, Resume
<1>27. ASSUME Killed PROVE TypeOK'
  BY <1>27 DEF TypeOK, PortalTypeOK, Statuses, Stages, Phases, LoginStages, BackfillStages,
       Killed, Detach, Resume
<1>28. ASSUME Opened PROVE TypeOK'
  BY <1>28 DEF TypeOK, PortalTypeOK, Statuses, Stages, Phases, LoginStages, BackfillStages,
       Opened, StartBackfill, Resume
<1>29. ASSUME VisitDone PROVE TypeOK'
  BY <1>29 DEF TypeOK, PortalTypeOK, Statuses, Stages, Phases, LoginStages, BackfillStages,
       VisitDone, RevokedDirRows
<1>30. ASSUME NEW c \in Conns, Sweep(c) PROVE TypeOK'
  BY <1>30 DEF TypeOK, PortalTypeOK, Statuses, Stages, Phases, LoginStages, BackfillStages,
       Sweep
<1>31. ASSUME TickEnd PROVE TypeOK'
  BY <1>31 DEF TypeOK, PortalTypeOK, Statuses, Stages, Phases, LoginStages, BackfillStages,
       TickEnd
<1>32. ASSUME NEW c \in Conns, LoginStart(c) PROVE TypeOK'
  BY <1>32 DEF TypeOK, PortalTypeOK, Statuses, Stages, Phases, LoginStages, BackfillStages,
       LoginStart, Yielding
<1>33. ASSUME NEW c \in Conns, LoginScanned(c) PROVE TypeOK'
  BY <1>33 DEF TypeOK, PortalTypeOK, Statuses, Stages, Phases, LoginStages, BackfillStages,
       LoginScanned, Yielding
<1>34. ASSUME NEW c \in Conns, LoginRefused(c) PROVE TypeOK'
  BY <1>34 DEF TypeOK, PortalTypeOK, Statuses, Stages, Phases, LoginStages, BackfillStages,
       LoginRefused, Yielding
<1>35. ASSUME NEW c \in Conns, LoginComplete(c) PROVE TypeOK'
  BY <1>35 DEF TypeOK, PortalTypeOK, Statuses, Stages, Phases, LoginStages, BackfillStages,
       LoginComplete, Yielding
<1>36. ASSUME NEW c \in Conns, LoginFail(c) PROVE TypeOK'
  BY <1>36 DEF TypeOK, PortalTypeOK, Statuses, Stages, Phases, LoginStages, BackfillStages,
       LoginFail, FailRow, Yielding
<1>37. ASSUME NEW c \in Conns, BackfillMessage(c) PROVE TypeOK'
  BY <1>37 DEF TypeOK, PortalTypeOK, Statuses, Stages, Phases, LoginStages, BackfillStages,
       BackfillMessage, Yielding
<1>38. ASSUME NEW c \in Conns, BackfillEnd(c) PROVE TypeOK'
  BY <1>38 DEF TypeOK, PortalTypeOK, Statuses, Stages, Phases, LoginStages, BackfillStages,
       BackfillEnd, Yielding, Continues
<1>39. ASSUME NEW c \in Conns, BackfillFails(c) PROVE TypeOK'
  BY <1>39 DEF TypeOK, PortalTypeOK, Statuses, Stages, Phases, LoginStages, BackfillStages,
       BackfillFails, Yielding
<1>40. ASSUME NEW c \in Conns, BackfillFoundDead(c) PROVE TypeOK'
  BY <1>40 DEF TypeOK, PortalTypeOK, Statuses, Stages, Phases, LoginStages, BackfillStages,
       BackfillFoundDead, Invalidate, RevokeRow, Yielding
<1>41. ASSUME NEW c \in Conns, BackfillKilled(c) PROVE TypeOK'
  BY <1>41 DEF TypeOK, PortalTypeOK, Statuses, Stages, Phases, LoginStages, BackfillStages,
       BackfillKilled, Yielding
<1>42. ASSUME NEW c \in Conns, LiveMessage(c) PROVE TypeOK'
  BY <1>42 DEF TypeOK, PortalTypeOK, Statuses, Stages, Phases, LoginStages, BackfillStages,
       LiveMessage, Yielding
<1>43. ASSUME NEW c \in Conns, Age(c) PROVE TypeOK'
  BY <1>43 DEF TypeOK, PortalTypeOK, Statuses, Stages, Phases, LoginStages, BackfillStages,
       Age
<1>44. ASSUME StopAll PROVE TypeOK'
  BY <1>44 DEF TypeOK, PortalTypeOK, Statuses, Stages, Phases, LoginStages, BackfillStages,
       StopAll
<1>45. ASSUME Drained PROVE TypeOK'
  BY <1>45 DEF TypeOK, PortalTypeOK, Statuses, Stages, Phases, LoginStages, BackfillStages,
       Drained, Forget
<1>46. ASSUME Crash PROVE TypeOK'
  BY <1>46 DEF TypeOK, PortalTypeOK, Statuses, Stages, Phases, LoginStages, BackfillStages,
       Crash, Forget
<1>47. ASSUME Start PROVE TypeOK'
  BY <1>47 DEF TypeOK, PortalTypeOK, Statuses, Stages, Phases, LoginStages, BackfillStages,
       Start
<1>q. QED
  BY <1>1, <1>2, <1>3, <1>4, <1>5, <1>6, <1>7, <1>8, <1>9, <1>10, <1>11, <1>12, <1>13, <1>14, <1>15, <1>16, <1>17, <1>18, <1>19, <1>20, <1>21, <1>22, <1>23, <1>24, <1>25, <1>26, <1>27, <1>28, <1>29, <1>30, <1>31, <1>32, <1>33, <1>34, <1>35, <1>36, <1>37, <1>38, <1>39, <1>40, <1>41, <1>42, <1>43, <1>44, <1>45, <1>46, <1>47
  DEF Next, Portal, PortalStep, Tick, LoginCoroutine, BackfillCoroutine, Process

-----------------------------------------------------------------------------
(* What a step can do to the rows and to the open sessions *)

\* completeLogin, on a row that it accepts.
CompleteRow(c) ==
    /\ status[c] = "pending" /\ c \notin revokedAt
    /\ \/ status' = [status EXCEPT ![c] = "active"]
       \/ status' = [status EXCEPT ![c] = "error"]
    /\ cipher' = cipher \cup {c}
    /\ UNCHANGED revokedAt

RowStep(c) ==
    \/ RevokeRow(c)
    \/ DeleteRow(c)
    \/ InsertRow(c)
    \/ Undecided(c) /\ FailRow(c)
    \/ CompleteRow(c)

StepKind ==
    \/ UNCHANGED <<status, revokedAt, cipher, running>>
    \/ UNCHANGED running /\ \E c \in Conns : RowStep(c)
    \/ /\ UNCHANGED <<status, revokedAt, cipher>>
       /\ \/ \E c \in Conns : Linked(c) /\ running' = running \cup {c}
          \/ running' \in SUBSET running

\* Every step touches one row through one of five statements, or the open
\* sessions, or neither.
LEMMA StepKinds ==
    ASSUME TypeOK, TickInv, CoroutinesInv, [Next]_vars
    PROVE  StepKind
<1>1. ASSUME NEW r \in Requests, NEW ch \in Channels, CreateBegin(r, ch), UNCHANGED <<workerVars, aged>>
       PROVE  StepKind
  BY <1>1 DEF TypeOK, PortalTypeOK, StepKind, RowStep,
       CreateBegin
<1>2. ASSUME NEW r \in Requests, CreateLook(r), UNCHANGED <<workerVars, aged>>
       PROVE  StepKind
  BY <1>2 DEF TypeOK, PortalTypeOK, StepKind, RowStep,
       CreateLook, Goto
<1>3. ASSUME NEW r \in Requests, CreateReplace(r), UNCHANGED <<workerVars, aged>>
       PROVE  StepKind
  BY <1>3 DEF TypeOK, PortalTypeOK, StepKind, RowStep,
       CreateReplace, Goto
<1>4. ASSUME NEW r \in Requests, CreateDiscard(r), UNCHANGED <<workerVars, aged>>
       PROVE  StepKind
  BY <1>4 DEF TypeOK, PortalTypeOK, StepKind, RowStep,
       CreateDiscard, Goto
<1>5. ASSUME NEW r \in Requests, CreateInsert(r), UNCHANGED <<workerVars, aged>>
       PROVE  StepKind
  BY <1>5 DEF TypeOK, PortalTypeOK, StepKind, RowStep,
       CreateInsert, Finish
<1>6. ASSUME NEW r \in Requests, CreateRefused(r), UNCHANGED <<workerVars, aged>>
       PROVE  StepKind
  BY <1>6 DEF TypeOK, PortalTypeOK, StepKind, RowStep,
       CreateRefused, Finish
<1>7. ASSUME NEW r \in Requests, NEW c \in Conns, DeleteBegin(r, c), UNCHANGED <<workerVars, aged>>
       PROVE  StepKind
  BY <1>7 DEF TypeOK, PortalTypeOK, StepKind, RowStep,
       DeleteBegin
<1>8. ASSUME NEW r \in Requests, DeleteDrop(r), UNCHANGED <<workerVars, aged>>
       PROVE  StepKind
  BY <1>8 DEF TypeOK, PortalTypeOK, StepKind, RowStep,
       DeleteDrop, Goto, Finish
<1>9. ASSUME NEW r \in Requests, DeleteUnlink(r), UNCHANGED <<workerVars, aged>>
       PROVE  StepKind
  BY <1>9 DEF TypeOK, PortalTypeOK, StepKind, RowStep,
       DeleteUnlink, Finish
<1>10. ASSUME NEW c \in Conns, Disconnect(c), UNCHANGED <<workerVars, aged>>
       PROVE  StepKind
  BY <1>10 DEF TypeOK, PortalTypeOK, StepKind, RowStep,
       Disconnect
<1>11. ASSUME TickBegin PROVE StepKind
  BY <1>11 DEF TypeOK, PortalTypeOK, StepKind, RowStep,
       TickBegin, PendingRows
<1>12. ASSUME NEW c \in Conns, ClaimSkip(c) PROVE StepKind
  BY <1>12 DEF TypeOK, PortalTypeOK, StepKind, RowStep,
       ClaimSkip
<1>13. ASSUME NEW c \in Conns, ClaimExpire(c) PROVE StepKind
  BY <1>13 DEF TypeOK, PortalTypeOK, StepKind, RowStep,
       ClaimExpire, TickInv
<1>14. ASSUME NEW c \in Conns, ClaimStart(c) PROVE StepKind
  BY <1>14 DEF TypeOK, PortalTypeOK, StepKind, RowStep,
       ClaimStart
<1>15. ASSUME ReadActive PROVE StepKind
  BY <1>15 DEF TypeOK, PortalTypeOK, StepKind, RowStep,
       ReadActive, ActiveRows
<1>16. ASSUME NEW c \in Conns, CloseBegin(c) PROVE StepKind
  BY <1>16 DEF TypeOK, PortalTypeOK, StepKind, RowStep,
       CloseBegin, Await
<1>17. ASSUME LoggedOut PROVE StepKind
  BY <1>17 DEF TypeOK, PortalTypeOK, StepKind, RowStep,
       LoggedOut, Detach, Resume
<1>18. ASSUME LogOutFailed PROVE StepKind
  BY <1>18 DEF TypeOK, PortalTypeOK, StepKind, RowStep,
       LogOutFailed, Detach, Resume
<1>19. ASSUME CloseDone PROVE StepKind
  BY <1>19 DEF TypeOK, PortalTypeOK, StepKind, RowStep,
       CloseDone
<1>20. ASSUME NEW c \in Conns, VisitOpen(c) PROVE StepKind
  BY <1>20 DEF TypeOK, PortalTypeOK, StepKind, RowStep,
       VisitOpen, Await
<1>21. ASSUME NEW c \in Conns, VisitThrottled(c) PROVE StepKind
  BY <1>21 DEF TypeOK, PortalTypeOK, StepKind, RowStep,
       VisitThrottled
<1>22. ASSUME NEW c \in Conns, VisitClosed(c) PROVE StepKind
  BY <1>22 DEF TypeOK, PortalTypeOK, StepKind, RowStep,
       VisitClosed, Await
<1>23. ASSUME PingOk PROVE StepKind
  BY <1>23 DEF TypeOK, PortalTypeOK, StepKind, RowStep,
       PingOk, Resume, StartBackfill, MayBackfill
<1>24. ASSUME FoundDead PROVE StepKind
  BY <1>24 DEF TypeOK, PortalTypeOK, StepKind, RowStep,
       FoundDead, Invalidate, Await, Resume
<1>25. ASSUME FailedOther PROVE StepKind
  BY <1>25 DEF TypeOK, PortalTypeOK, StepKind, RowStep,
       FailedOther, Resume
<1>26. ASSUME ProbeOther PROVE StepKind
  BY <1>26 DEF TypeOK, PortalTypeOK, StepKind, RowStep,
       ProbeOther, Await, Resume
<1>27. ASSUME Killed PROVE StepKind
  BY <1>27 DEF TypeOK, PortalTypeOK, StepKind, RowStep,
       Killed, Detach, Resume
<1>28. ASSUME Opened PROVE StepKind
  BY <1>28 DEF TypeOK, PortalTypeOK, StepKind, RowStep,
       Opened, StartBackfill, Resume, TickInv
<1>29. ASSUME VisitDone PROVE StepKind
  BY <1>29 DEF TypeOK, PortalTypeOK, StepKind, RowStep,
       VisitDone, RevokedDirRows
<1>30. ASSUME NEW c \in Conns, Sweep(c) PROVE StepKind
  BY <1>30 DEF TypeOK, PortalTypeOK, StepKind, RowStep,
       Sweep
<1>31. ASSUME TickEnd PROVE StepKind
  BY <1>31 DEF TypeOK, PortalTypeOK, StepKind, RowStep,
       TickEnd
<1>32. ASSUME NEW c \in Conns, LoginStart(c) PROVE StepKind
  BY <1>32 DEF TypeOK, PortalTypeOK, StepKind, RowStep,
       LoginStart, Yielding
<1>33. ASSUME NEW c \in Conns, LoginScanned(c) PROVE StepKind
  BY <1>33 DEF TypeOK, PortalTypeOK, StepKind, RowStep,
       LoginScanned, Yielding
<1>34. ASSUME NEW c \in Conns, LoginRefused(c) PROVE StepKind
  BY <1>34 DEF TypeOK, PortalTypeOK, StepKind, RowStep,
       LoginRefused, Yielding
<1>35. ASSUME NEW c \in Conns, LoginComplete(c) PROVE StepKind
  BY <1>35 DEF TypeOK, PortalTypeOK, StepKind, RowStep,
       LoginComplete, CompleteRow, Yielding
<1>36. ASSUME NEW c \in Conns, LoginFail(c) PROVE StepKind
  BY <1>36 DEF TypeOK, PortalTypeOK, StepKind, RowStep,
       LoginFail, Yielding, CoroutinesInv
<1>37. ASSUME NEW c \in Conns, BackfillMessage(c) PROVE StepKind
  BY <1>37 DEF TypeOK, PortalTypeOK, StepKind, RowStep,
       BackfillMessage, Yielding
<1>38. ASSUME NEW c \in Conns, BackfillEnd(c) PROVE StepKind
  BY <1>38 DEF TypeOK, PortalTypeOK, StepKind, RowStep,
       BackfillEnd, Yielding, Continues
<1>39. ASSUME NEW c \in Conns, BackfillFails(c) PROVE StepKind
  BY <1>39 DEF TypeOK, PortalTypeOK, StepKind, RowStep,
       BackfillFails, Yielding
<1>40. ASSUME NEW c \in Conns, BackfillFoundDead(c) PROVE StepKind
  BY <1>40 DEF TypeOK, PortalTypeOK, StepKind, RowStep,
       BackfillFoundDead, Invalidate, Yielding
<1>41. ASSUME NEW c \in Conns, BackfillKilled(c) PROVE StepKind
  BY <1>41 DEF TypeOK, PortalTypeOK, StepKind, RowStep,
       BackfillKilled, Yielding
<1>42. ASSUME NEW c \in Conns, LiveMessage(c) PROVE StepKind
  BY <1>42 DEF TypeOK, PortalTypeOK, StepKind, RowStep,
       LiveMessage, Yielding
<1>43. ASSUME NEW c \in Conns, Age(c) PROVE StepKind
  BY <1>43 DEF TypeOK, PortalTypeOK, StepKind, RowStep,
       Age
<1>44. ASSUME StopAll PROVE StepKind
  BY <1>44 DEF TypeOK, PortalTypeOK, StepKind, RowStep,
       StopAll
<1>45. ASSUME Drained PROVE StepKind
  BY <1>45 DEF TypeOK, PortalTypeOK, StepKind, RowStep,
       Drained, Forget
<1>46. ASSUME Crash PROVE StepKind
  BY <1>46 DEF TypeOK, PortalTypeOK, StepKind, RowStep,
       Crash, Forget
<1>47. ASSUME Start PROVE StepKind
  BY <1>47 DEF TypeOK, PortalTypeOK, StepKind, RowStep,
       Start
<1>48. ASSUME UNCHANGED vars PROVE StepKind
  BY <1>48 DEF StepKind
<1>q. QED
  BY <1>1, <1>2, <1>3, <1>4, <1>5, <1>6, <1>7, <1>8, <1>9, <1>10, <1>11, <1>12, <1>13,
     <1>14, <1>15, <1>16, <1>17, <1>18, <1>19, <1>20, <1>21, <1>22, <1>23, <1>24, <1>25,
     <1>26, <1>27, <1>28, <1>29, <1>30, <1>31, <1>32, <1>33, <1>34, <1>35, <1>36, <1>37,
     <1>38, <1>39, <1>40, <1>41, <1>42, <1>43, <1>44, <1>45, <1>46, <1>47, <1>48
  DEF Next, Portal, PortalStep, Tick, LoginCoroutine, BackfillCoroutine, Process

-----------------------------------------------------------------------------
(* The table *)

\* RowsInv survives the five row statements, whoever runs them.
LEMMA StepRowsInv ==
    ASSUME TypeOK, RowsInv, StepKind
    PROVE  RowsInv'
<1>1. ASSUME NEW c \in Conns, RevokeRow(c) PROVE RowsInv'
  BY <1>1 DEF TypeOK, PortalTypeOK, RowsInv, StatusAgrees, OneLivePerChannel, RevokeRow
<1>2. ASSUME NEW c \in Conns, DeleteRow(c) PROVE RowsInv'
  BY <1>2 DEF TypeOK, PortalTypeOK, RowsInv, StatusAgrees, OneLivePerChannel, DeleteRow
<1>3. ASSUME NEW c \in Conns, InsertRow(c) PROVE RowsInv'
  BY <1>3 DEF TypeOK, PortalTypeOK, RowsInv, StatusAgrees, OneLivePerChannel, InsertRow
<1>4. ASSUME NEW c \in Conns, Undecided(c), FailRow(c) PROVE RowsInv'
  BY <1>4 DEF TypeOK, PortalTypeOK, RowsInv, StatusAgrees, OneLivePerChannel, FailRow, Undecided
<1>5. ASSUME NEW c \in Conns, CompleteRow(c) PROVE RowsInv'
  BY <1>5 DEF TypeOK, PortalTypeOK, RowsInv, StatusAgrees, OneLivePerChannel, CompleteRow
<1>6. ASSUME UNCHANGED <<status, revokedAt, cipher>> PROVE RowsInv'
  BY <1>6 DEF RowsInv, StatusAgrees, OneLivePerChannel
<1>q. QED
  BY <1>1, <1>2, <1>3, <1>4, <1>5, <1>6 DEF StepKind, RowStep

-----------------------------------------------------------------------------
(* The directories, the backfills, and what the actors know *)

\* Every step keeps what the auth directories and the backfills rest on.
LEMMA StepKeepsInv ==
    ASSUME IInv, RowsInv', Next
    PROVE  KeepsInv'
<1> USE DEF IInv, TypeOK, PortalTypeOK, RowsInv, StatusAgrees, KeepsInv, ActiveKeepsAuth,
       BackfillHaltsWithSession, RequestsInv, TickInv, CoroutinesInv, Linked, Ended, Undecided
<1>1. ASSUME NEW r \in Requests, NEW ch \in Channels, CreateBegin(r, ch), UNCHANGED <<workerVars, aged>>
       PROVE  KeepsInv'
  BY <1>1 DEF CreateBegin
<1>2. ASSUME NEW r \in Requests, CreateLook(r), UNCHANGED <<workerVars, aged>>
       PROVE  KeepsInv'
  BY <1>2 DEF CreateLook, Goto
<1>3. ASSUME NEW r \in Requests, CreateReplace(r), UNCHANGED <<workerVars, aged>>
       PROVE  KeepsInv'
  BY <1>3 DEF CreateReplace, RevokeRow, Goto
<1>4. ASSUME NEW r \in Requests, CreateDiscard(r), UNCHANGED <<workerVars, aged>>
       PROVE  KeepsInv'
  BY <1>4 DEF CreateDiscard, DeleteRow, Goto
<1>5. ASSUME NEW r \in Requests, CreateInsert(r), UNCHANGED <<workerVars, aged>>
       PROVE  KeepsInv'
  BY <1>5 DEF CreateInsert, InsertRow, Finish
<1>6. ASSUME NEW r \in Requests, CreateRefused(r), UNCHANGED <<workerVars, aged>>
       PROVE  KeepsInv'
  BY <1>6 DEF CreateRefused, Finish
<1>7. ASSUME NEW r \in Requests, NEW c \in Conns, DeleteBegin(r, c), UNCHANGED <<workerVars, aged>>
       PROVE  KeepsInv'
  BY <1>7 DEF DeleteBegin, RevokeRow
<1>8. ASSUME NEW r \in Requests, DeleteDrop(r), UNCHANGED <<workerVars, aged>>
       PROVE  KeepsInv'
  BY <1>8 DEF DeleteDrop, DeleteRow, Goto, Finish
<1>9. ASSUME NEW r \in Requests, DeleteUnlink(r), UNCHANGED <<workerVars, aged>>
       PROVE  KeepsInv'
  BY <1>9 DEF DeleteUnlink, Finish
<1>10. ASSUME NEW c \in Conns, Disconnect(c), UNCHANGED <<workerVars, aged>>
       PROVE  KeepsInv'
  BY <1>10 DEF Disconnect, RevokeRow
<1>11. ASSUME TickBegin PROVE KeepsInv'
  BY <1>11 DEF TickBegin, PendingRows
<1>12. ASSUME NEW c \in Conns, ClaimSkip(c) PROVE KeepsInv'
  BY <1>12 DEF ClaimSkip
<1>13. ASSUME NEW c \in Conns, ClaimExpire(c) PROVE KeepsInv'
  BY <1>13 DEF ClaimExpire, FailRow
<1>14. ASSUME NEW c \in Conns, ClaimStart(c) PROVE KeepsInv'
  BY <1>14 DEF ClaimStart
<1>15. ASSUME ReadActive PROVE KeepsInv'
  BY <1>15 DEF ReadActive, ActiveRows
<1>16. ASSUME NEW c \in Conns, CloseBegin(c) PROVE KeepsInv'
  BY <1>16 DEF CloseBegin, Await
<1>17. ASSUME LoggedOut PROVE KeepsInv'
  BY <1>17 DEF LoggedOut, Detach, Resume
<1>18. ASSUME LogOutFailed PROVE KeepsInv'
  BY <1>18 DEF LogOutFailed, Detach, Resume
<1>19. ASSUME CloseDone PROVE KeepsInv'
  BY <1>19 DEF CloseDone
<1>20. ASSUME NEW c \in Conns, VisitOpen(c) PROVE KeepsInv'
  BY <1>20 DEF VisitOpen, Await
<1>21. ASSUME NEW c \in Conns, VisitThrottled(c) PROVE KeepsInv'
  BY <1>21 DEF VisitThrottled
<1>22. ASSUME NEW c \in Conns, VisitClosed(c) PROVE KeepsInv'
  BY <1>22 DEF VisitClosed, Await
<1>23. ASSUME PingOk PROVE KeepsInv'
  BY <1>23 DEF PingOk, Resume, StartBackfill, MayBackfill
<1>24. ASSUME FoundDead PROVE KeepsInv'
  BY <1>24 DEF FoundDead, Invalidate, RevokeRow, Await, Resume
<1>25. ASSUME FailedOther PROVE KeepsInv'
  BY <1>25 DEF FailedOther, Resume
<1>26. ASSUME ProbeOther PROVE KeepsInv'
  BY <1>26 DEF ProbeOther, Await, Resume
<1>27. ASSUME Killed PROVE KeepsInv'
  BY <1>27 DEF Killed, Detach, Resume
<1>28. ASSUME Opened PROVE KeepsInv'
  BY <1>28 DEF Opened, StartBackfill, Resume
<1>29. ASSUME VisitDone PROVE KeepsInv'
  BY <1>29 DEF VisitDone, RevokedDirRows
<1>30. ASSUME NEW c \in Conns, Sweep(c) PROVE KeepsInv'
  BY <1>30 DEF Sweep
<1>31. ASSUME TickEnd PROVE KeepsInv'
  BY <1>31 DEF TickEnd
<1>32. ASSUME NEW c \in Conns, LoginStart(c) PROVE KeepsInv'
  BY <1>32 DEF LoginStart, Yielding
<1>33. ASSUME NEW c \in Conns, LoginScanned(c) PROVE KeepsInv'
  BY <1>33 DEF LoginScanned, Yielding
<1>34. ASSUME NEW c \in Conns, LoginRefused(c) PROVE KeepsInv'
  BY <1>34 DEF LoginRefused, Yielding
<1>35. ASSUME NEW c \in Conns, LoginComplete(c) PROVE KeepsInv'
  BY <1>35 DEF LoginComplete, Yielding
<1>36. ASSUME NEW c \in Conns, LoginFail(c) PROVE KeepsInv'
  BY <1>36 DEF LoginFail, FailRow, Yielding
<1>37. ASSUME NEW c \in Conns, BackfillMessage(c) PROVE KeepsInv'
  BY <1>37 DEF BackfillMessage, Yielding
<1>38. ASSUME NEW c \in Conns, BackfillEnd(c) PROVE KeepsInv'
  BY <1>38 DEF BackfillEnd, Yielding, Continues
<1>39. ASSUME NEW c \in Conns, BackfillFails(c) PROVE KeepsInv'
  BY <1>39 DEF BackfillFails, Yielding
<1>40. ASSUME NEW c \in Conns, BackfillFoundDead(c) PROVE KeepsInv'
  BY <1>40 DEF BackfillFoundDead, Invalidate, RevokeRow, Yielding
<1>41. ASSUME NEW c \in Conns, BackfillKilled(c) PROVE KeepsInv'
  BY <1>41 DEF BackfillKilled, Yielding
<1>42. ASSUME NEW c \in Conns, LiveMessage(c) PROVE KeepsInv'
  BY <1>42 DEF LiveMessage, Yielding
<1>43. ASSUME NEW c \in Conns, Age(c) PROVE KeepsInv'
  BY <1>43 DEF Age
<1>44. ASSUME StopAll PROVE KeepsInv'
  BY <1>44 DEF StopAll
<1>45. ASSUME Drained PROVE KeepsInv'
  BY <1>45 DEF Drained, Forget
<1>46. ASSUME Crash PROVE KeepsInv'
  BY <1>46 DEF Crash, Forget
<1>47. ASSUME Start PROVE KeepsInv'
  BY <1>47 DEF Start
<1>q. QED
  BY <1>1, <1>2, <1>3, <1>4, <1>5, <1>6, <1>7, <1>8, <1>9, <1>10, <1>11, <1>12, <1>13,
     <1>14, <1>15, <1>16, <1>17, <1>18, <1>19, <1>20, <1>21, <1>22, <1>23, <1>24, <1>25,
     <1>26, <1>27, <1>28, <1>29, <1>30, <1>31, <1>32, <1>33, <1>34, <1>35, <1>36, <1>37,
     <1>38, <1>39, <1>40, <1>41, <1>42, <1>43, <1>44, <1>45, <1>46, <1>47
  DEF Next, Portal, PortalStep, Tick, LoginCoroutine, BackfillCoroutine, Process

-----------------------------------------------------------------------------
(* The theorems *)

LEMMA InitIInv == Init => IInv
<1> SUFFICES ASSUME Init PROVE IInv
  OBVIOUS
<1>1. TypeOK
  BY InitTypeOK
<1>2. RowsInv
  BY DEF Init, PortalInit, RowsInv, StatusAgrees, OneLivePerChannel
<1>3. KeepsInv
  BY DEF Init, PortalInit, KeepsInv, ActiveKeepsAuth, BackfillHaltsWithSession, RequestsInv,
         TickInv, CoroutinesInv
<1>q. QED
  BY <1>1, <1>2, <1>3 DEF IInv

LEMMA StepIInv == IInv /\ [Next]_vars => IInv'
<1> SUFFICES ASSUME IInv, [Next]_vars PROVE IInv'
  OBVIOUS
<1>1. CASE Next
  <2>1. TypeOK'
    BY <1>1, StepTypeOK DEF IInv
  <2>2. StepKind
    BY StepKinds DEF IInv, KeepsInv
  <2>3. RowsInv'
    BY <2>2, StepRowsInv DEF IInv
  <2>4. KeepsInv'
    BY <1>1, <2>3, StepKeepsInv
  <2>q. QED
    BY <2>1, <2>3, <2>4 DEF IInv
<1>2. CASE UNCHANGED vars
  BY <1>2 DEF IInv, TypeOK, PortalTypeOK, RowsInv, StatusAgrees, OneLivePerChannel, KeepsInv,
       ActiveKeepsAuth, BackfillHaltsWithSession, RequestsInv, TickInv, CoroutinesInv, Linked,
       Ended, Undecided
<1>q. QED
  BY <1>1, <1>2

\* The invariant is inductive: it holds at the start and every step keeps it.
THEOREM Inductive == Spec => []IInv
  BY InitIInv, StepIInv, PTL DEF Spec

\* Rows, directories, requests and the worker's memory keep their types: a
\* counted failure stays under the recycle limit, and a mark on a session
\* never outlives the session.
THEOREM TypeCorrect == Spec => []TypeOK
<1>1. IInv => TypeOK
  BY DEF IInv
<1>q. QED
  BY <1>1, Inductive, PTL

\* The status column and revoked_at never disagree, and only a row whose
\* login completed holds a credential.
THEOREM StatusConsistent == Spec => []StatusAgrees
<1>1. IInv => StatusAgrees
  BY DEF IInv, RowsInv
<1>q. QED
  BY <1>1, Inductive, PTL

\* However many requests race to create a connection, a channel has one live
\* row.
THEOREM OneLive == Spec => []OneLivePerChannel
<1>1. IInv => OneLivePerChannel
  BY DEF IInv, RowsInv
<1>q. QED
  BY <1>1, Inductive, PTL

\* No log-out, login restart, sweep or delete takes the auth directory of an
\* active WhatsApp connection.
THEOREM AuthKept == Spec => []ActiveKeepsAuth
<1>1. IInv => ActiveKeepsAuth
  BY DEF IInv, KeepsInv
<1>q. QED
  BY <1>1, Inductive, PTL

\* A backfill whose session the manager has dropped finds shouldContinue()
\* false.
THEOREM BackfillHalts == Spec => []BackfillHaltsWithSession
<1>1. IInv => BackfillHaltsWithSession
  BY DEF IInv, KeepsInv
<1>q. QED
  BY <1>1, Inductive, PTL

\* A revoked row is never live again, and gets no credential back.
THEOREM RevocationFinal == Spec => RevocationIsFinal
<1> DEFINE Kept == \A c \in Conns : status[c] = "revoked" =>
                      status'[c] \in {"revoked", "deleted"} /\ c \notin cipher'
<1>1. IInv /\ [Next]_vars => [Kept]_vars
  <2> SUFFICES ASSUME IInv, [Next]_vars PROVE Kept
    OBVIOUS
  <2> USE DEF IInv, TypeOK, PortalTypeOK, RowsInv, StatusAgrees
  <2>1. StepKind
    BY StepKinds DEF KeepsInv
  <2>2. ASSUME NEW c \in Conns, RowStep(c) PROVE Kept
    BY <2>2 DEF RowStep, RevokeRow, DeleteRow, InsertRow, FailRow, CompleteRow
  <2>3. CASE UNCHANGED <<status, cipher>>
    BY <2>3
  <2>q. QED
    BY <2>1, <2>2, <2>3 DEF StepKind
<1>q. QED
  BY <1>1, Inductive, PTL DEF Spec, RevocationIsFinal

-----------------------------------------------------------------------------
(* The refinement of ConnectionLife *)

\* What a row statement is to the abstract life of its connection.
LEMMA RowStepMaps ==
    ASSUME TypeOK, RowsInv, UNCHANGED running, NEW c \in Conns, RowStep(c)
    PROVE  [Life!Next]_(Life!lifeVars)
<1> DEFINE phase == [d \in Conns |-> Phase(d)]
<1>1. ASSUME NEW s, status' = [status EXCEPT ![c] = s]
      PROVE  phase' = [phase EXCEPT ![c] = Phase(c)']
  BY <1>1 DEF TypeOK, PortalTypeOK, Phase
<1>2. /\ Exists(c) /\ c \notin revokedAt => Phase(c) \in Life!Current
      /\ Exists(c) => Phase(c) \in Life!Current \cup {"ended"}
      /\ status[c] = "pending" => Phase(c) = "pairing"
      /\ phase[c] = Phase(c)
  BY DEF TypeOK, PortalTypeOK, Statuses, RowsInv, StatusAgrees, Phase, Life!Current
<1>3. /\ status'[c] = "active" => Phase(c)' = "linked"
      /\ status'[c] = "error" => Phase(c)' = "failed"
      /\ status'[c] = "revoked" => Phase(c)' = "ended"
      /\ status'[c] = "deleted" => Phase(c)' = "gone"
  BY DEF Phase
<1>4. ASSUME UNCHANGED status PROVE UNCHANGED Life!lifeVars
  BY <1>4 DEF Phase, Life!lifeVars
<1> USE DEF TypeOK, PortalTypeOK, Life!Next, Life!lifeVars, Life!Move
<1>5. CASE RevokeRow(c)
  <2>1. CASE Live(c)
    <3>1. status' = [status EXCEPT ![c] = "revoked"] /\ status'[c] = "revoked"
      BY <1>5, <2>1 DEF RevokeRow
    <3>2. phase' = [phase EXCEPT ![c] = "ended"]
      BY <3>1, <1>1, <1>3
    <3>q. QED
      BY <3>2, <1>2, <2>1 DEF Life!End
  <2>q. QED
    BY <1>4, <1>5, <2>1 DEF RevokeRow
<1>6. CASE DeleteRow(c)
  <2>1. CASE Exists(c)
    <3>1. status' = [status EXCEPT ![c] = "deleted"] /\ status'[c] = "deleted"
      BY <1>6, <2>1 DEF DeleteRow
    <3>2. phase' = [phase EXCEPT ![c] = "gone"]
      BY <3>1, <1>1, <1>3
    <3>q. QED
      BY <3>2, <1>2, <2>1 DEF Life!Remove
  <2>2. CASE ~Exists(c)
    <3>1. UNCHANGED status
      BY <1>6, <2>2 DEF DeleteRow
    <3>q. QED
      BY <1>4, <3>1
  <2>q. QED
    BY <2>1, <2>2
<1>7. CASE InsertRow(c)
  BY <1>7 DEF InsertRow, Life!Pair, Life!Current, Phase, RowsInv, StatusAgrees, Statuses
<1>8. CASE Undecided(c) /\ FailRow(c)
  <2>1. CASE Live(c)
    <3>1. status' = [status EXCEPT ![c] = "error"] /\ status'[c] = "error" /\ status[c] = "pending"
      BY <1>8, <2>1 DEF FailRow, Undecided, RowsInv, StatusAgrees
    <3>2. phase' = [phase EXCEPT ![c] = "failed"]
      BY <3>1, <1>1, <1>3
    <3>q. QED
      BY <3>1, <3>2, <1>2 DEF Life!Fail
  <2>2. CASE ~Live(c)
    <3>1. UNCHANGED status
      BY <1>8, <2>2 DEF FailRow
    <3>q. QED
      BY <1>4, <3>1
  <2>q. QED
    BY <2>1, <2>2
<1>9. CASE CompleteRow(c)
  <2>1. CASE status' = [status EXCEPT ![c] = "active"]
    <3>1. phase' = [phase EXCEPT ![c] = "linked"]
      BY <2>1, <1>1, <1>3
    <3>q. QED
      BY <3>1, <1>2, <1>9 DEF CompleteRow, Life!Link
  <2>2. CASE status' = [status EXCEPT ![c] = "error"]
    <3>1. phase' = [phase EXCEPT ![c] = "failed"]
      BY <2>2, <1>1, <1>3
    <3>q. QED
      BY <3>1, <1>2, <1>9 DEF CompleteRow, Life!Fail
  <2>q. QED
    BY <1>9, <2>1, <2>2 DEF CompleteRow
<1>q. QED
  BY <1>5, <1>6, <1>7, <1>8, <1>9 DEF RowStep

\* Every behaviour of the portal and the worker is one of the abstract life:
\* an ended connection never comes back, a failed one is never linked, and
\* only a connection that was linked is read.
THEOREM LifeRefined == Spec => ImplementsLife
<1>1. Init => Life!Init
  BY DEF Init, PortalInit, Life!Init, Phase
<1>2. IInv /\ [Next]_vars => [Life!Next]_(Life!lifeVars)
  <2> SUFFICES ASSUME IInv, [Next]_vars PROVE [Life!Next]_(Life!lifeVars)
    OBVIOUS
  <2>1. StepKind
    BY StepKinds DEF IInv, KeepsInv
  <2>2. ASSUME UNCHANGED running, NEW c \in Conns, RowStep(c)
        PROVE  [Life!Next]_(Life!lifeVars)
    BY <2>2, RowStepMaps DEF IInv
  <2>3. CASE UNCHANGED <<status, running>>
    BY <2>3 DEF Life!lifeVars, Phase
  <2>4. ASSUME UNCHANGED status, NEW c \in Conns, Linked(c), running' = running \cup {c}
        PROVE  Life!Next
    BY <2>4 DEF Life!Next, Life!StartReading, Phase, Linked
  <2>5. ASSUME UNCHANGED status, running' \in SUBSET running
        PROVE  Life!Next
    BY <2>5 DEF Life!Next, Life!StopReading, Phase
  <2>q. QED
    BY <2>1, <2>2, <2>3, <2>4, <2>5 DEF StepKind
<1>q. QED
  BY <1>1, <1>2, Inductive, PTL DEF Spec, ImplementsLife, Life!Spec
=============================================================================
