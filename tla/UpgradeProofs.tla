---------------------------- MODULE UpgradeProofs ----------------------------
(***************************************************************************)
(* Proofs about UpgradeEngine, for every set of releases and every number  *)
(* of upgrades, crashes and failing saves: the safety properties that the  *)
(* run `upgrade' checks on a small instance, and the refinement of         *)
(* UpgradeTransaction.                                                     *)
(***************************************************************************)
EXTENDS UpgradeEngine, FiniteSetTheorems, TLAPS

\* What an upgrade record, in memory or on disk, says of the host: whether the
\* old release is untouched, or its backup is whole, or the upgrade has ended
\* with the application and the archive of one release.
Sound(u) ==
    /\ u.phase = "idle" => u = NoUpgrade /\ AllOf(app.image)
    /\ u.phase # "idle" => u.id # 0 /\ u.previous < u.version
    /\ u.phase \in {"preparing", "stopping", "backing-up", "failed"} => ~u.backupComplete
    /\ u.phase \in {"installing", "verifying", "succeeded"} => u.backupComplete
    /\ u.phase \in Settled /\ u.phase # "idle" => AllOf(Serving(u))
    /\ u.phase \notin {"idle", "succeeded"} /\ ~u.backupComplete => AllOf(u.previous)
    /\ u.backupComplete => archives[u.id] = u.previous
    /\ u.phase \notin Settled =>
         /\ app.image \in {u.previous, u.version}
         /\ release \in {u.previous, u.version}
         /\ data \in {u.previous, u.version, Torn}

\* The journal may be ahead of the memory (a save that threw after the
\* rename), but only within one upgrade, or by one that start() gave up.
SameUpgrade ==
    /\ state = NoUpgrade => journal.phase \in Settled \cup {"preparing"}
    /\ state # NoUpgrade =>
         /\ journal.id = state.id
         /\ journal.version = state.version
         /\ journal.previous = state.previous
         /\ state.phase \notin Active => journal = state

\* The steps that act on the host, or save the outcome of doing so: the memory
\* is what the journal says.
Acting == RunSteps \cup {"stopAgain", "restore", "restoring", "reinstall",
                         "verifyPrevious", "saveRolledBack"}

\* What the engine knows at each step.
EngineInv ==
    /\ pc \in {"prepare", "saveStopping", "saveFailed"} => state.phase = "preparing"
    /\ pc \in {"stop", "saveBackingUp"} => state.phase = "stopping"
    /\ pc \in {"backup", "archiving", "saveInstalling"} => state.phase = "backing-up"
    /\ pc \in {"install", "saveVerifying"} => state.phase = "installing"
    /\ pc \in {"verify", "saveSucceeded"} => state.phase = "verifying"
    /\ pc \in {"stopAgain", "restore", "restoring", "reinstall", "verifyPrevious",
               "saveRolledBack"} => state.phase = "rolling-back"
    /\ pc = "saveRollingBack" => state.phase \in Active \ {"preparing"}
    /\ pc \in {"cancelHelper", "saveRequired"} => state.phase \in Active
    /\ pc = "checking" => state.phase \in Settled
    /\ pc \in Acting => journal = state
    /\ pc \in {"saveBackingUp", "backup", "archiving", "saveInstalling", "install",
               "restore", "restoring", "reinstall"} => ~app.up
    /\ pc = "saveInstalling" => archives[state.id] = state.previous
    /\ pc \in {"restore", "restoring"} => state.backupComplete
    /\ pc \in {"install", "reinstall"} => data = state.previous
    /\ pc \in {"saveVerifying", "verify"} =>
         /\ app.image = state.version /\ release = state.version
         /\ data \in {state.previous, state.version}
    /\ pc = "saveSucceeded" => AllOf(state.version)
    /\ pc \in {"verifyPrevious", "saveRolledBack"} => AllOf(state.previous)

\* A helper that is left over belongs to the upgrade in progress, or to one
\* left to the operator, and only copies or replaces what it may.
HelperInv ==
    /\ helper # "none" =>
         /\ pc \in {"archiving", "restoring", "cancelHelper", "saveRequired", "ready", "down"}
         /\ state.phase \notin Settled /\ journal.phase \notin Settled
    /\ helper = "backup" => ~state.backupComplete /\ ~journal.backupComplete
    /\ helper \in {"check", "restore"} => state.backupComplete /\ journal.backupComplete

\* Ids are given out in order, the journal names the newest, and a prune never
\* holds it.
PruneInv ==
    /\ journal.id <= issued
    /\ prune.protect <= journal.id
    /\ \A b \in Ids : archives[b] # None => b <= journal.id
    /\ \A b \in prune.remove : b # journal.id /\ b <= issued

IInv ==
    /\ TypeOK
    /\ Sound(state)
    /\ Sound(journal)
    /\ SameUpgrade
    /\ EngineInv
    /\ HelperInv
    /\ ArchiveHasOneUser
    /\ PruneInv

\* An upgrade in progress, or over, has an id and its two releases, and so has
\* what is saved of it.
LEMMA UpgradeIds ==
    ASSUME IInv, state.phase # "idle"
    PROVE  state.id \in Ids /\ state.version \in Versions /\ state.previous \in Versions
  BY DEF IInv, TypeOK, UpgradeIn, NoUpgrade

\* A task's steps are taken during an upgrade.
LEMMA TaskActive ==
    ASSUME IInv, pc \in RunSteps \cup RecoverSteps
    PROVE  state.phase \in Active
  BY DEF IInv, EngineInv, RunSteps, RecoverSteps, Active

\* A save that changes the phase writes a well-formed record.
LEMMA SaveTypes ==
    ASSUME IInv, state.phase # "idle", NEW p \in Phases
    PROVE  UpgradeIn(Enter(p))
  BY UpgradeIds DEF IInv, TypeOK, UpgradeIn, NoUpgrade, Changed, Enter, Ids

\* The save that records the backup.
LEMMA BackedUpType ==
    ASSUME IInv, state.phase # "idle"
    PROVE  UpgradeIn(Changed("installing", TRUE))
  <1>1. "installing" \in Phases BY DEF Phases, Active
  <1>2. QED BY <1>1, UpgradeIds DEF IInv, TypeOK, UpgradeIn, NoUpgrade, Changed, Ids

\* What is true of the host stays true while records and host stay.
LEMMA SoundFrame ==
    ASSUME IInv, UNCHANGED <<state, journal, app, release, data, archives>>
    PROVE  Sound(state)' /\ Sound(journal)'
  BY DEF IInv, Sound, AllOf, Serving

\* Without a task, and after a command that threw, little is known.
LEMMA EngineIdle == ASSUME pc' \in {"ready", "down"} PROVE EngineInv'
  BY DEF EngineInv, Acting, RunSteps

\* A thrown error leads to recovery, of an upgrade in progress.
LEMMA EngineThrew ==
    ASSUME pc' \in {"cancelHelper", "saveRequired"}, state' = state, state.phase \in Active
    PROVE  EngineInv'
  BY DEF EngineInv, Acting, RunSteps

\* A prune that lists the backups never selects the newest: nothing is newer.
LEMMA PruneLists ==
    ASSUME IInv, NEW b \in Selected(prune.protect)
    PROVE  b # journal.id /\ b <= issued
  <1>1. b \in Ids /\ b <= journal.id /\ Cardinality(Newer(b)) >= Keep
    BY DEF IInv, PruneInv, Selected, Listed
  <1>2. journal.id \in Nat /\ issued \in Nat /\ journal.id <= issued
    BY UpgradeAssumption DEF IInv, TypeOK, UpgradeIn, PruneInv
  <1>3. ASSUME b = journal.id PROVE FALSE
    <2>1. Newer(b) = {}
      BY <1>2, <1>3, UpgradeAssumption DEF Newer, Listed, Ids, IInv, PruneInv
    <2>2. Cardinality(Newer(b)) = 0 BY <2>1, FS_EmptySet
    <2>3. QED BY <1>1, <2>2, UpgradeAssumption
  <1>4. QED BY <1>1, <1>2, <1>3, UpgradeAssumption DEF Ids

\* start() makes a well-formed record, and so is the forgotten one.
LEMMA StartTypes ==
    ASSUME TypeOK, issued + 1 \in Ids, NEW v \in Versions
    PROVE  UpgradeIn(Preparing(v)) /\ UpgradeIn(NoUpgrade)
  <1>1. app.image \in Versions BY DEF TypeOK
  <1> QED BY <1>1, UpgradeAssumption DEF Preparing, UpgradeIn, NoUpgrade, Phases, Active,
      Settled, Ids

\* Every step keeps the types.
LEMMA StepTypeOK == ASSUME IInv, [Next]_vars PROVE TypeOK'
  <1> USE UpgradeAssumption DEF IInv, TypeOK, RunSteps, RecoverSteps, Backups, engineVars,
      hostVars, countVars
  <1>1. CASE StartBegin BY <1>1 DEF StartBegin
  <1>2. CASE StartRefused BY <1>2 DEF StartRefused
  <1>3. CASE \E v \in Versions : Start(v)
    <2>1. PICK v \in Versions : Start(v) BY <1>3
    <2>2. issued + 1 \in Ids BY <2>1 DEF Start, Ids
    <2>3. UpgradeIn(Preparing(v)) /\ UpgradeIn(NoUpgrade) BY <2>2, StartTypes
    <2>4. UpgradeIn(state)' /\ UpgradeIn(journal)' BY <2>1, <2>3 DEF Start
    <2>5. pc' \in {"prepare", "ready"} /\ issued' \in 0..MaxUpgrades /\ faults' \in 0..MaxFaults
      BY <2>1 DEF Start
    <2>6. UNCHANGED <<hostVars, prune, crashes>> BY <2>1 DEF Start
    <2>7. QED BY <2>4, <2>5, <2>6
  <1>4. CASE Prepare BY <1>4 DEF Prepare, Go
  <1>5. CASE PrepareFails BY <1>5 DEF PrepareFails, Go, Caught
  <1>6. CASE SaveStopping
    BY <1>6, SaveTypes, TaskActive DEF SaveStopping, SaveStep, Save, Caught, Phases, Active, Settled
  <1>7. CASE Stop("stop", "saveBackingUp") BY <1>7 DEF Stop, Go, Stopped
  <1>8. CASE StopFails("stop", Caught)
    <2>1. Stopped \in [image : Versions, up : BOOLEAN] BY DEF Stopped
    <2>2. QED BY <2>1, <1>8 DEF StopFails, Go, Caught
  <1>9. CASE SaveBackingUp
    BY <1>9, SaveTypes, TaskActive DEF SaveBackingUp, SaveStep, Save, Caught, Phases, Active,
        Settled
  <1>10. CASE BackupBegin BY <1>10 DEF BackupBegin, Go
  <1>11. CASE BackupFails BY <1>11 DEF BackupFails, Go, Caught
  <1>12. CASE SaveInstalling
    <2>1. SaveStep("saveInstalling", Changed("installing", TRUE), "install", Caught)
      BY <1>12 DEF SaveInstalling
    <2>2. UpgradeIn(Changed("installing", TRUE)) BY BackedUpType, TaskActive, <1>12 DEF
        SaveInstalling, SaveStep, Active
    <2>3. UpgradeIn(state) /\ UpgradeIn(journal) OBVIOUS
    <2>4. UpgradeIn(state)' /\ UpgradeIn(journal)'
      BY ONLY Zenon, <2>1, <2>2, <2>3 DEF SaveStep, Save
    <2>5. /\ faults' \in 0..MaxFaults /\ pc' \in {"install", "cancelHelper"}
          /\ UNCHANGED <<hostVars, prune, issued, crashes>>
      BY <1>12 DEF SaveInstalling, SaveStep, Save, Caught, Changed
    <2>6. QED BY <2>4, <2>5
  <1>13. CASE Install(state.version, "install", "saveVerifying")
    BY <1>13, UpgradeIds, TaskActive DEF Install, Go, Active
  <1>14. CASE InstallFails(state.version, "install", Caught)
    BY <1>14, UpgradeIds, TaskActive DEF InstallFails, Go, Caught, Active
  <1>15. CASE SaveVerifying
    BY <1>15, SaveTypes, TaskActive DEF SaveVerifying, SaveStep, Save, Caught, Phases, Active,
        Settled
  <1>16. CASE Verify(state.version, "verify", "saveSucceeded") BY <1>16 DEF Verify, Go
  <1>17. CASE VerifyFails("verify", Caught) BY <1>17 DEF VerifyFails, Go, Caught
  <1>18. CASE SaveSucceeded
    BY <1>18, SaveTypes, TaskActive DEF SaveSucceeded, SaveStep, Save, Caught, Phases, Active,
        Settled
  <1>19. CASE CancelHelper BY <1>19 DEF CancelHelper, Go
  <1>20. CASE CancelFails BY <1>20 DEF CancelFails, Go, Lost
  <1>21. CASE SaveFailed
    BY <1>21, SaveTypes, TaskActive DEF SaveFailed, SaveStep, Save, Lost, Phases, Active, Settled
  <1>22. CASE SaveRollingBack
    BY <1>22, SaveTypes, TaskActive DEF SaveRollingBack, SaveStep, Save, Lost, Phases, Active,
        Settled
  <1>23. CASE Stop("stopAgain", AfterStop) BY <1>23 DEF Stop, Go, Stopped, AfterStop
  <1>24. CASE StopFails("stopAgain", Lost)
    <2>1. Stopped \in [image : Versions, up : BOOLEAN] BY DEF Stopped
    <2>2. QED BY <2>1, <1>24 DEF StopFails, Go, Lost
  <1>25. CASE RestoreBegin BY <1>25 DEF RestoreBegin, Go
  <1>26. CASE RestoreFails BY <1>26 DEF RestoreFails, Go, Lost
  <1>27. CASE Install(state.previous, "reinstall", "verifyPrevious")
    BY <1>27, UpgradeIds, TaskActive DEF Install, Go, Active
  <1>28. CASE InstallFails(state.previous, "reinstall", Lost)
    BY <1>28, UpgradeIds, TaskActive DEF InstallFails, Go, Lost, Active
  <1>29. CASE Verify(state.previous, "verifyPrevious", "saveRolledBack") BY <1>29 DEF Verify, Go
  <1>30. CASE VerifyFails("verifyPrevious", Lost) BY <1>30 DEF VerifyFails, Go, Lost
  <1>31. CASE SaveRolledBack
    BY <1>31, SaveTypes, TaskActive DEF SaveRolledBack, SaveStep, Save, Lost, Phases, Active,
        Settled
  <1>32. CASE SaveRequired
    BY <1>32, SaveTypes, TaskActive DEF SaveRequired, SaveStep, Save, Lost, Phases, Active, Settled
  <1>33. CASE Initialize BY <1>33 DEF Initialize, Terminal, Caught
  <1>34. CASE Crash BY <1>34 DEF Crash
  <1>35. CASE HelperMeasures BY <1>35 DEF HelperMeasures, HelperEnds
  <1>36. CASE HelperArchives BY <1>36 DEF HelperArchives, HelperEnds
  <1>37. CASE HelperEmpties BY <1>37 DEF HelperEmpties
  <1>38. CASE HelperRestores
    <2>1. state.phase # "idle" BY <1>38 DEF HelperRestores, HelperInv, Settled
    <2>2. archives[state.id] \in Backups BY <2>1, UpgradeIds, <1>38 DEF HelperRestores,
        HelperInv, Sound
    <2>3. QED BY <2>2, <1>38 DEF HelperRestores, HelperEnds
  <1>39. CASE Migrate BY <1>39 DEF Migrate
  <1>40. CASE PruneRead
    <2>1. journal.id \in 0..MaxUpgrades BY DEF UpgradeIn
    <2>2. QED BY <2>1, <1>40 DEF PruneRead, NoPrune
  <1>41. CASE PruneList BY <1>41 DEF PruneList, NoPrune, Selected, Newer, Listed, Removing
  <1>42. CASE \E b \in Ids : PruneRemove(b) BY <1>42 DEF PruneRemove, Removing
  <1>43. CASE PruneEnd BY <1>43 DEF PruneEnd, NoPrune
  <1>44. CASE UNCHANGED vars BY <1>44 DEF vars
  <1>45. QED
    BY <1>1, <1>2, <1>3, <1>4, <1>5, <1>6, <1>7, <1>8, <1>9, <1>10, <1>11, <1>12, <1>13, <1>14,
        <1>15, <1>16, <1>17, <1>18, <1>19, <1>20, <1>21, <1>22, <1>23, <1>24, <1>25, <1>26,
        <1>27, <1>28, <1>29, <1>30, <1>31, <1>32, <1>33, <1>34, <1>35, <1>36, <1>37, <1>38,
        <1>39, <1>40, <1>41, <1>42, <1>43, <1>44 DEF Next, Run, Recover, Helper, Prune

\* Every step keeps what the memory says of the host true.
LEMMA StepSoundState == ASSUME IInv, [Next]_vars PROVE Sound(state)'
  <1> USE UpgradeAssumption DEF IInv, Sound, AllOf, Serving, EngineInv, HelperInv, Acting,
      SameUpgrade, PruneInv, TypeOK, UpgradeIn, NoUpgrade, RunSteps, RecoverSteps, Phases,
      Active, Settled, Backups, Ids, engineVars, hostVars, countVars
  <1>1. CASE StartBegin
    BY SoundFrame, <1>1 DEF StartBegin, vars
  <1>2. CASE StartRefused
    BY SoundFrame, <1>2 DEF StartRefused, vars
  <1>3. CASE \E v \in Versions : Start(v) BY <1>3 DEF Start, Preparing
  <1>4. CASE Prepare
    BY SoundFrame, <1>4 DEF Prepare, Go, vars
  <1>5. CASE PrepareFails
    BY SoundFrame, <1>5 DEF PrepareFails, Go, Caught, vars
  <1>6. CASE SaveStopping BY <1>6 DEF SaveStopping, SaveStep, Save, Changed, Enter, Caught
  <1>7. CASE Stop("stop", "saveBackingUp") BY <1>7 DEF Stop, Go, Stopped
  <1>8. CASE StopFails("stop", Caught) BY <1>8 DEF StopFails, Go, Caught, Stopped
  <1>9. CASE SaveBackingUp BY <1>9 DEF SaveBackingUp, SaveStep, Save, Changed, Enter, Caught
  <1>10. CASE BackupBegin BY <1>10 DEF BackupBegin, Go
  <1>11. CASE BackupFails BY <1>11 DEF BackupFails, Go, Caught
  <1>12. CASE SaveInstalling BY <1>12 DEF SaveInstalling, SaveStep, Save, Changed, Enter, Caught
  <1>13. CASE Install(state.version, "install", "saveVerifying") BY <1>13 DEF Install, Go
  <1>14. CASE InstallFails(state.version, "install", Caught) BY <1>14 DEF InstallFails, Go, Caught
  <1>15. CASE SaveVerifying BY <1>15 DEF SaveVerifying, SaveStep, Save, Changed, Enter, Caught
  <1>16. CASE Verify(state.version, "verify", "saveSucceeded")
    BY SoundFrame, <1>16 DEF Verify, Go, vars
  <1>17. CASE VerifyFails("verify", Caught)
    BY SoundFrame, <1>17 DEF VerifyFails, Go, Caught, vars
  <1>18. CASE SaveSucceeded BY <1>18 DEF SaveSucceeded, SaveStep, Save, Changed, Enter, Caught
  <1>19. CASE CancelHelper
    BY SoundFrame, <1>19 DEF CancelHelper, Go, vars
  <1>20. CASE CancelFails
    BY SoundFrame, <1>20 DEF CancelFails, Go, Lost, vars
  <1>21. CASE SaveFailed BY <1>21 DEF SaveFailed, SaveStep, Save, Changed, Enter, Lost
  <1>22. CASE SaveRollingBack BY <1>22 DEF SaveRollingBack, SaveStep, Save, Changed, Enter, Lost
  <1>23. CASE Stop("stopAgain", AfterStop) BY <1>23 DEF Stop, Go, Stopped, AfterStop
  <1>24. CASE StopFails("stopAgain", Lost) BY <1>24 DEF StopFails, Go, Lost, Stopped
  <1>25. CASE RestoreBegin
    BY SoundFrame, <1>25 DEF RestoreBegin, Go, vars
  <1>26. CASE RestoreFails
    BY SoundFrame, <1>26 DEF RestoreFails, Go, Lost, vars
  <1>27. CASE Install(state.previous, "reinstall", "verifyPrevious") BY <1>27 DEF Install, Go
  <1>28. CASE InstallFails(state.previous, "reinstall", Lost) BY <1>28 DEF InstallFails, Go, Lost
  <1>29. CASE Verify(state.previous, "verifyPrevious", "saveRolledBack")
    BY SoundFrame, <1>29 DEF Verify, Go, vars
  <1>30. CASE VerifyFails("verifyPrevious", Lost)
    BY SoundFrame, <1>30 DEF VerifyFails, Go, Lost, vars
  <1>31. CASE SaveRolledBack BY <1>31 DEF SaveRolledBack, SaveStep, Save, Changed, Enter, Lost
  <1>32. CASE SaveRequired BY <1>32 DEF SaveRequired, SaveStep, Save, Changed, Enter, Lost
  <1>33. CASE Initialize BY <1>33 DEF Initialize, Terminal, Caught
  <1>34. CASE Crash
    BY SoundFrame, <1>34 DEF Crash, vars
  <1>35. CASE HelperMeasures
    BY SoundFrame, <1>35 DEF HelperMeasures, HelperEnds, vars
  <1>36. CASE HelperArchives BY <1>36 DEF HelperArchives, HelperEnds
  <1>37. CASE HelperEmpties BY <1>37 DEF HelperEmpties
  <1>38. CASE HelperRestores BY <1>38 DEF HelperRestores, HelperEnds
  <1>39. CASE Migrate BY <1>39 DEF Migrate
  <1>40. CASE PruneRead
    BY SoundFrame, <1>40 DEF PruneRead, NoPrune, vars
  <1>41. CASE PruneList
    BY SoundFrame, <1>41 DEF PruneList, NoPrune, Removing, vars
  <1>42. CASE \E b \in Ids : PruneRemove(b) BY <1>42 DEF PruneRemove, Removing
  <1>43. CASE PruneEnd
    BY SoundFrame, <1>43 DEF PruneEnd, NoPrune, vars
  <1>44. CASE UNCHANGED vars
    BY SoundFrame, <1>44 DEF vars
  <1>45. QED
    BY <1>1, <1>2, <1>3, <1>4, <1>5, <1>6, <1>7, <1>8, <1>9, <1>10, <1>11, <1>12, <1>13, <1>14,
        <1>15, <1>16, <1>17, <1>18, <1>19, <1>20, <1>21, <1>22, <1>23, <1>24, <1>25, <1>26,
        <1>27, <1>28, <1>29, <1>30, <1>31, <1>32, <1>33, <1>34, <1>35, <1>36, <1>37, <1>38,
        <1>39, <1>40, <1>41, <1>42, <1>43, <1>44 DEF Next, Run, Recover, Helper, Prune

\* Every step keeps what the journal says of the host true.
LEMMA StepSoundJournal == ASSUME IInv, [Next]_vars PROVE Sound(journal)'
  <1> USE UpgradeAssumption DEF IInv, Sound, AllOf, Serving, EngineInv, HelperInv, Acting,
      SameUpgrade, PruneInv, TypeOK, UpgradeIn, NoUpgrade, RunSteps, RecoverSteps, Phases,
      Active, Settled, Backups, Ids, engineVars, hostVars, countVars
  <1>1. CASE StartBegin
    BY SoundFrame, <1>1 DEF StartBegin, vars
  <1>2. CASE StartRefused
    BY SoundFrame, <1>2 DEF StartRefused, vars
  <1>3. CASE \E v \in Versions : Start(v) BY <1>3 DEF Start, Preparing
  <1>4. CASE Prepare
    BY SoundFrame, <1>4 DEF Prepare, Go, vars
  <1>5. CASE PrepareFails
    BY SoundFrame, <1>5 DEF PrepareFails, Go, Caught, vars
  <1>6. CASE SaveStopping BY <1>6 DEF SaveStopping, SaveStep, Save, Changed, Enter, Caught
  <1>7. CASE Stop("stop", "saveBackingUp") BY <1>7 DEF Stop, Go, Stopped
  <1>8. CASE StopFails("stop", Caught) BY <1>8 DEF StopFails, Go, Caught, Stopped
  <1>9. CASE SaveBackingUp BY <1>9 DEF SaveBackingUp, SaveStep, Save, Changed, Enter, Caught
  <1>10. CASE BackupBegin BY <1>10 DEF BackupBegin, Go
  <1>11. CASE BackupFails BY <1>11 DEF BackupFails, Go, Caught
  <1>12. CASE SaveInstalling BY <1>12 DEF SaveInstalling, SaveStep, Save, Changed, Enter, Caught
  <1>13. CASE Install(state.version, "install", "saveVerifying") BY <1>13 DEF Install, Go
  <1>14. CASE InstallFails(state.version, "install", Caught) BY <1>14 DEF InstallFails, Go, Caught
  <1>15. CASE SaveVerifying BY <1>15 DEF SaveVerifying, SaveStep, Save, Changed, Enter, Caught
  <1>16. CASE Verify(state.version, "verify", "saveSucceeded")
    BY SoundFrame, <1>16 DEF Verify, Go, vars
  <1>17. CASE VerifyFails("verify", Caught)
    BY SoundFrame, <1>17 DEF VerifyFails, Go, Caught, vars
  <1>18. CASE SaveSucceeded BY <1>18 DEF SaveSucceeded, SaveStep, Save, Changed, Enter, Caught
  <1>19. CASE CancelHelper
    BY SoundFrame, <1>19 DEF CancelHelper, Go, vars
  <1>20. CASE CancelFails
    BY SoundFrame, <1>20 DEF CancelFails, Go, Lost, vars
  <1>21. CASE SaveFailed BY <1>21 DEF SaveFailed, SaveStep, Save, Changed, Enter, Lost
  <1>22. CASE SaveRollingBack BY <1>22 DEF SaveRollingBack, SaveStep, Save, Changed, Enter, Lost
  <1>23. CASE Stop("stopAgain", AfterStop) BY <1>23 DEF Stop, Go, Stopped, AfterStop
  <1>24. CASE StopFails("stopAgain", Lost) BY <1>24 DEF StopFails, Go, Lost, Stopped
  <1>25. CASE RestoreBegin
    BY SoundFrame, <1>25 DEF RestoreBegin, Go, vars
  <1>26. CASE RestoreFails
    BY SoundFrame, <1>26 DEF RestoreFails, Go, Lost, vars
  <1>27. CASE Install(state.previous, "reinstall", "verifyPrevious") BY <1>27 DEF Install, Go
  <1>28. CASE InstallFails(state.previous, "reinstall", Lost) BY <1>28 DEF InstallFails, Go, Lost
  <1>29. CASE Verify(state.previous, "verifyPrevious", "saveRolledBack")
    BY SoundFrame, <1>29 DEF Verify, Go, vars
  <1>30. CASE VerifyFails("verifyPrevious", Lost)
    BY SoundFrame, <1>30 DEF VerifyFails, Go, Lost, vars
  <1>31. CASE SaveRolledBack BY <1>31 DEF SaveRolledBack, SaveStep, Save, Changed, Enter, Lost
  <1>32. CASE SaveRequired BY <1>32 DEF SaveRequired, SaveStep, Save, Changed, Enter, Lost
  <1>33. CASE Initialize BY <1>33 DEF Initialize, Terminal, Caught
  <1>34. CASE Crash
    BY SoundFrame, <1>34 DEF Crash, vars
  <1>35. CASE HelperMeasures
    BY SoundFrame, <1>35 DEF HelperMeasures, HelperEnds, vars
  <1>36. CASE HelperArchives BY <1>36 DEF HelperArchives, HelperEnds
  <1>37. CASE HelperEmpties BY <1>37 DEF HelperEmpties
  <1>38. CASE HelperRestores BY <1>38 DEF HelperRestores, HelperEnds
  <1>39. CASE Migrate BY <1>39 DEF Migrate
  <1>40. CASE PruneRead
    BY SoundFrame, <1>40 DEF PruneRead, NoPrune, vars
  <1>41. CASE PruneList
    BY SoundFrame, <1>41 DEF PruneList, NoPrune, Removing, vars
  <1>42. CASE \E b \in Ids : PruneRemove(b) BY <1>42 DEF PruneRemove, Removing
  <1>43. CASE PruneEnd
    BY SoundFrame, <1>43 DEF PruneEnd, NoPrune, vars
  <1>44. CASE UNCHANGED vars
    BY SoundFrame, <1>44 DEF vars
  <1>45. QED
    BY <1>1, <1>2, <1>3, <1>4, <1>5, <1>6, <1>7, <1>8, <1>9, <1>10, <1>11, <1>12, <1>13, <1>14,
        <1>15, <1>16, <1>17, <1>18, <1>19, <1>20, <1>21, <1>22, <1>23, <1>24, <1>25, <1>26,
        <1>27, <1>28, <1>29, <1>30, <1>31, <1>32, <1>33, <1>34, <1>35, <1>36, <1>37, <1>38,
        <1>39, <1>40, <1>41, <1>42, <1>43, <1>44 DEF Next, Run, Recover, Helper, Prune

\* Every step keeps memory and journal within one upgrade.
LEMMA StepSameUpgrade == ASSUME IInv, [Next]_vars PROVE SameUpgrade'
  <1> USE UpgradeAssumption DEF IInv, SameUpgrade, Sound, EngineInv, HelperInv, Acting, TypeOK,
      UpgradeIn, NoUpgrade, RunSteps, RecoverSteps, Phases, Active, Settled, Backups, Ids,
      engineVars, hostVars, countVars
  <1>1. CASE StartBegin BY <1>1 DEF StartBegin
  <1>2. CASE StartRefused BY <1>2 DEF StartRefused
  <1>3. CASE \E v \in Versions : Start(v) BY <1>3 DEF Start, Preparing
  <1>4. CASE Prepare BY <1>4 DEF Prepare, Go
  <1>5. CASE PrepareFails BY <1>5 DEF PrepareFails, Go, Caught
  <1>6. CASE SaveStopping BY <1>6 DEF SaveStopping, SaveStep, Save, Changed, Enter, Caught
  <1>7. CASE Stop("stop", "saveBackingUp") BY <1>7 DEF Stop, Go, Stopped
  <1>8. CASE StopFails("stop", Caught) BY <1>8 DEF StopFails, Go, Caught, Stopped
  <1>9. CASE SaveBackingUp BY <1>9 DEF SaveBackingUp, SaveStep, Save, Changed, Enter, Caught
  <1>10. CASE BackupBegin BY <1>10 DEF BackupBegin, Go
  <1>11. CASE BackupFails BY <1>11 DEF BackupFails, Go, Caught
  <1>12. CASE SaveInstalling BY <1>12 DEF SaveInstalling, SaveStep, Save, Changed, Enter, Caught
  <1>13. CASE Install(state.version, "install", "saveVerifying") BY <1>13 DEF Install, Go
  <1>14. CASE InstallFails(state.version, "install", Caught) BY <1>14 DEF InstallFails, Go, Caught
  <1>15. CASE SaveVerifying BY <1>15 DEF SaveVerifying, SaveStep, Save, Changed, Enter, Caught
  <1>16. CASE Verify(state.version, "verify", "saveSucceeded") BY <1>16 DEF Verify, Go
  <1>17. CASE VerifyFails("verify", Caught) BY <1>17 DEF VerifyFails, Go, Caught
  <1>18. CASE SaveSucceeded BY <1>18 DEF SaveSucceeded, SaveStep, Save, Changed, Enter, Caught
  <1>19. CASE CancelHelper BY <1>19 DEF CancelHelper, Go
  <1>20. CASE CancelFails BY <1>20 DEF CancelFails, Go, Lost
  <1>21. CASE SaveFailed BY <1>21 DEF SaveFailed, SaveStep, Save, Changed, Enter, Lost
  <1>22. CASE SaveRollingBack BY <1>22 DEF SaveRollingBack, SaveStep, Save, Changed, Enter, Lost
  <1>23. CASE Stop("stopAgain", AfterStop) BY <1>23 DEF Stop, Go, Stopped, AfterStop
  <1>24. CASE StopFails("stopAgain", Lost) BY <1>24 DEF StopFails, Go, Lost, Stopped
  <1>25. CASE RestoreBegin BY <1>25 DEF RestoreBegin, Go
  <1>26. CASE RestoreFails BY <1>26 DEF RestoreFails, Go, Lost
  <1>27. CASE Install(state.previous, "reinstall", "verifyPrevious") BY <1>27 DEF Install, Go
  <1>28. CASE InstallFails(state.previous, "reinstall", Lost) BY <1>28 DEF InstallFails, Go, Lost
  <1>29. CASE Verify(state.previous, "verifyPrevious", "saveRolledBack") BY <1>29 DEF Verify, Go
  <1>30. CASE VerifyFails("verifyPrevious", Lost) BY <1>30 DEF VerifyFails, Go, Lost
  <1>31. CASE SaveRolledBack BY <1>31 DEF SaveRolledBack, SaveStep, Save, Changed, Enter, Lost
  <1>32. CASE SaveRequired BY <1>32 DEF SaveRequired, SaveStep, Save, Changed, Enter, Lost
  <1>33. CASE Initialize BY <1>33 DEF Initialize, Terminal, Caught
  <1>34. CASE Crash BY <1>34 DEF Crash
  <1>35. CASE HelperMeasures BY <1>35 DEF HelperMeasures, HelperEnds
  <1>36. CASE HelperArchives BY <1>36 DEF HelperArchives, HelperEnds
  <1>37. CASE HelperEmpties BY <1>37 DEF HelperEmpties
  <1>38. CASE HelperRestores BY <1>38 DEF HelperRestores, HelperEnds
  <1>39. CASE Migrate BY <1>39 DEF Migrate
  <1>40. CASE PruneRead BY <1>40 DEF PruneRead, NoPrune
  <1>41. CASE PruneList BY <1>41 DEF PruneList, NoPrune, Selected, Newer, Listed, Removing
  <1>42. CASE \E b \in Ids : PruneRemove(b) BY <1>42 DEF PruneRemove, Removing
  <1>43. CASE PruneEnd BY <1>43 DEF PruneEnd, NoPrune
  <1>44. CASE UNCHANGED vars BY <1>44 DEF vars
  <1>45. QED
    BY <1>1, <1>2, <1>3, <1>4, <1>5, <1>6, <1>7, <1>8, <1>9, <1>10, <1>11, <1>12, <1>13, <1>14,
        <1>15, <1>16, <1>17, <1>18, <1>19, <1>20, <1>21, <1>22, <1>23, <1>24, <1>25, <1>26,
        <1>27, <1>28, <1>29, <1>30, <1>31, <1>32, <1>33, <1>34, <1>35, <1>36, <1>37, <1>38,
        <1>39, <1>40, <1>41, <1>42, <1>43, <1>44 DEF Next, Run, Recover, Helper, Prune

\* Every step leads to one whose conditions hold.
LEMMA StepEngineInv == ASSUME IInv, [Next]_vars PROVE EngineInv'
  <1> USE UpgradeAssumption DEF IInv, EngineInv, Acting, Sound, AllOf, Serving, HelperInv,
      SameUpgrade, PruneInv, TypeOK, UpgradeIn, NoUpgrade, RunSteps, RecoverSteps, Phases,
      Active, Settled, Backups, Ids, engineVars, hostVars, countVars
  <1>1. CASE StartBegin BY <1>1 DEF StartBegin
  <1>2. CASE StartRefused
    BY EngineIdle, <1>2 DEF StartRefused
  <1>3. CASE \E v \in Versions : Start(v)
    <2>1. PICK v \in Versions : Start(v) BY <1>3
    <2>2. CASE pc' = "ready" BY <2>2, EngineIdle
    <2>3. CASE pc' = "prepare" /\ state' = Preparing(v) /\ journal' = Preparing(v)
      BY ONLY <2>3 DEF EngineInv, Acting, RunSteps, Preparing, Active, Settled
    <2>4. QED BY <2>1, <2>2, <2>3 DEF Start
  <1>4. CASE Prepare BY <1>4 DEF Prepare, Go
  <1>5. CASE PrepareFails
    BY EngineThrew, TaskActive, <1>5 DEF PrepareFails, Go, Caught
  <1>6. CASE SaveStopping BY <1>6 DEF SaveStopping, SaveStep, Save, Changed, Enter, Caught
  <1>7. CASE Stop("stop", "saveBackingUp") BY <1>7 DEF Stop, Go, Stopped
  <1>8. CASE StopFails("stop", Caught)
    BY EngineThrew, TaskActive, <1>8 DEF StopFails, Go, Caught
  <1>9. CASE SaveBackingUp BY <1>9 DEF SaveBackingUp, SaveStep, Save, Changed, Enter, Caught
  <1>10. CASE BackupBegin BY <1>10 DEF BackupBegin, Go
  <1>11. CASE BackupFails
    BY EngineThrew, TaskActive, <1>11 DEF BackupFails, Go, Caught
  <1>12. CASE SaveInstalling
    <2>1. CASE pc' = Caught BY <2>1, <1>12, EngineThrew, TaskActive DEF SaveInstalling,
        SaveStep, Save, Caught
    <2>2. CASE pc' = "install" /\ state' = Changed("installing", TRUE) /\ journal' = state'
      <3>1. state.phase = "backing-up" /\ ~state.backupComplete /\ ~app.up
        BY <1>12 DEF SaveInstalling, SaveStep
      <3>2. data = state.previous BY <3>1
      <3>3. UNCHANGED <<app, release, data, archives>> BY <1>12 DEF SaveInstalling, SaveStep
      <3>4. QED BY ONLY <2>2, <3>1, <3>2, <3>3 DEF EngineInv, Acting, RunSteps, Changed, Active,
          Settled
    <2>3. QED BY <1>12, <2>1, <2>2 DEF SaveInstalling, SaveStep, Save
  <1>13. CASE Install(state.version, "install", "saveVerifying") BY <1>13 DEF Install, Go
  <1>14. CASE InstallFails(state.version, "install", Caught)
    BY EngineThrew, TaskActive, <1>14 DEF InstallFails, Go, Caught
  <1>15. CASE SaveVerifying BY <1>15 DEF SaveVerifying, SaveStep, Save, Changed, Enter, Caught
  <1>16. CASE Verify(state.version, "verify", "saveSucceeded") BY <1>16 DEF Verify, Go
  <1>17. CASE VerifyFails("verify", Caught)
    BY EngineThrew, TaskActive, <1>17 DEF VerifyFails, Go, Caught
  <1>18. CASE SaveSucceeded BY <1>18 DEF SaveSucceeded, SaveStep, Save, Changed, Enter, Caught
  <1>19. CASE CancelHelper BY <1>19 DEF CancelHelper, Go
  <1>20. CASE CancelFails
    BY EngineThrew, TaskActive, <1>20 DEF CancelFails, Go, Lost
  <1>21. CASE SaveFailed BY <1>21 DEF SaveFailed, SaveStep, Save, Changed, Enter, Lost
  <1>22. CASE SaveRollingBack BY <1>22 DEF SaveRollingBack, SaveStep, Save, Changed, Enter, Lost
  <1>23. CASE Stop("stopAgain", AfterStop) BY <1>23 DEF Stop, Go, Stopped, AfterStop
  <1>24. CASE StopFails("stopAgain", Lost)
    BY EngineThrew, TaskActive, <1>24 DEF StopFails, Go, Lost
  <1>25. CASE RestoreBegin BY <1>25 DEF RestoreBegin, Go
  <1>26. CASE RestoreFails
    BY EngineThrew, TaskActive, <1>26 DEF RestoreFails, Go, Lost
  <1>27. CASE Install(state.previous, "reinstall", "verifyPrevious") BY <1>27 DEF Install, Go
  <1>28. CASE InstallFails(state.previous, "reinstall", Lost)
    BY EngineThrew, TaskActive, <1>28 DEF InstallFails, Go, Lost
  <1>29. CASE Verify(state.previous, "verifyPrevious", "saveRolledBack") BY <1>29 DEF Verify, Go
  <1>30. CASE VerifyFails("verifyPrevious", Lost)
    BY EngineThrew, TaskActive, <1>30 DEF VerifyFails, Go, Lost
  <1>31. CASE SaveRolledBack BY <1>31 DEF SaveRolledBack, SaveStep, Save, Changed, Enter, Lost
  <1>32. CASE SaveRequired BY <1>32 DEF SaveRequired, SaveStep, Save, Changed, Enter, Lost
  <1>33. CASE Initialize BY <1>33 DEF Initialize, Terminal, Caught
  <1>34. CASE Crash
    BY EngineIdle, <1>34 DEF Crash
  <1>35. CASE HelperMeasures BY <1>35 DEF HelperMeasures, HelperEnds
  <1>36. CASE HelperArchives BY <1>36 DEF HelperArchives, HelperEnds
  <1>37. CASE HelperEmpties BY <1>37 DEF HelperEmpties
  <1>38. CASE HelperRestores BY <1>38 DEF HelperRestores, HelperEnds
  <1>39. CASE Migrate BY <1>39 DEF Migrate
  <1>40. CASE PruneRead BY <1>40 DEF PruneRead, NoPrune
  <1>41. CASE PruneList BY <1>41 DEF PruneList, NoPrune, Selected, Newer, Listed, Removing
  <1>42. CASE \E b \in Ids : PruneRemove(b) BY <1>42 DEF PruneRemove, Removing
  <1>43. CASE PruneEnd BY <1>43 DEF PruneEnd, NoPrune
  <1>44. CASE UNCHANGED vars BY <1>44 DEF vars
  <1>45. QED
    BY <1>1, <1>2, <1>3, <1>4, <1>5, <1>6, <1>7, <1>8, <1>9, <1>10, <1>11, <1>12, <1>13, <1>14,
        <1>15, <1>16, <1>17, <1>18, <1>19, <1>20, <1>21, <1>22, <1>23, <1>24, <1>25, <1>26,
        <1>27, <1>28, <1>29, <1>30, <1>31, <1>32, <1>33, <1>34, <1>35, <1>36, <1>37, <1>38,
        <1>39, <1>40, <1>41, <1>42, <1>43, <1>44 DEF Next, Run, Recover, Helper, Prune

\* Every step leaves only helpers that may be there.
LEMMA StepHelperInv == ASSUME IInv, [Next]_vars PROVE HelperInv'
  <1> USE UpgradeAssumption DEF IInv, HelperInv, EngineInv, SameUpgrade, Acting, Sound, TypeOK,
      UpgradeIn, NoUpgrade, RunSteps, RecoverSteps, Phases, Active, Settled, Backups, Ids,
      engineVars, hostVars, countVars
  <1>1. CASE StartBegin BY <1>1 DEF StartBegin
  <1>2. CASE StartRefused BY <1>2 DEF StartRefused
  <1>3. CASE \E v \in Versions : Start(v) BY <1>3 DEF Start, Preparing
  <1>4. CASE Prepare BY <1>4 DEF Prepare, Go
  <1>5. CASE PrepareFails BY <1>5 DEF PrepareFails, Go, Caught
  <1>6. CASE SaveStopping BY <1>6 DEF SaveStopping, SaveStep, Save, Changed, Enter, Caught
  <1>7. CASE Stop("stop", "saveBackingUp") BY <1>7 DEF Stop, Go, Stopped
  <1>8. CASE StopFails("stop", Caught) BY <1>8 DEF StopFails, Go, Caught, Stopped
  <1>9. CASE SaveBackingUp BY <1>9 DEF SaveBackingUp, SaveStep, Save, Changed, Enter, Caught
  <1>10. CASE BackupBegin BY <1>10 DEF BackupBegin, Go
  <1>11. CASE BackupFails BY <1>11 DEF BackupFails, Go, Caught
  <1>12. CASE SaveInstalling BY <1>12 DEF SaveInstalling, SaveStep, Save, Changed, Enter, Caught
  <1>13. CASE Install(state.version, "install", "saveVerifying") BY <1>13 DEF Install, Go
  <1>14. CASE InstallFails(state.version, "install", Caught) BY <1>14 DEF InstallFails, Go, Caught
  <1>15. CASE SaveVerifying BY <1>15 DEF SaveVerifying, SaveStep, Save, Changed, Enter, Caught
  <1>16. CASE Verify(state.version, "verify", "saveSucceeded") BY <1>16 DEF Verify, Go
  <1>17. CASE VerifyFails("verify", Caught) BY <1>17 DEF VerifyFails, Go, Caught
  <1>18. CASE SaveSucceeded BY <1>18 DEF SaveSucceeded, SaveStep, Save, Changed, Enter, Caught
  <1>19. CASE CancelHelper BY <1>19 DEF CancelHelper, Go
  <1>20. CASE CancelFails BY <1>20 DEF CancelFails, Go, Lost
  <1>21. CASE SaveFailed BY <1>21 DEF SaveFailed, SaveStep, Save, Changed, Enter, Lost
  <1>22. CASE SaveRollingBack BY <1>22 DEF SaveRollingBack, SaveStep, Save, Changed, Enter, Lost
  <1>23. CASE Stop("stopAgain", AfterStop) BY <1>23 DEF Stop, Go, Stopped, AfterStop
  <1>24. CASE StopFails("stopAgain", Lost) BY <1>24 DEF StopFails, Go, Lost, Stopped
  <1>25. CASE RestoreBegin BY <1>25 DEF RestoreBegin, Go
  <1>26. CASE RestoreFails BY <1>26 DEF RestoreFails, Go, Lost
  <1>27. CASE Install(state.previous, "reinstall", "verifyPrevious") BY <1>27 DEF Install, Go
  <1>28. CASE InstallFails(state.previous, "reinstall", Lost) BY <1>28 DEF InstallFails, Go, Lost
  <1>29. CASE Verify(state.previous, "verifyPrevious", "saveRolledBack") BY <1>29 DEF Verify, Go
  <1>30. CASE VerifyFails("verifyPrevious", Lost) BY <1>30 DEF VerifyFails, Go, Lost
  <1>31. CASE SaveRolledBack BY <1>31 DEF SaveRolledBack, SaveStep, Save, Changed, Enter, Lost
  <1>32. CASE SaveRequired BY <1>32 DEF SaveRequired, SaveStep, Save, Changed, Enter, Lost
  <1>33. CASE Initialize BY <1>33 DEF Initialize, Terminal, Caught
  <1>34. CASE Crash BY <1>34 DEF Crash
  <1>35. CASE HelperMeasures BY <1>35 DEF HelperMeasures, HelperEnds
  <1>36. CASE HelperArchives BY <1>36 DEF HelperArchives, HelperEnds
  <1>37. CASE HelperEmpties BY <1>37 DEF HelperEmpties
  <1>38. CASE HelperRestores BY <1>38 DEF HelperRestores, HelperEnds
  <1>39. CASE Migrate BY <1>39 DEF Migrate
  <1>40. CASE PruneRead BY <1>40 DEF PruneRead, NoPrune
  <1>41. CASE PruneList BY <1>41 DEF PruneList, NoPrune, Selected, Newer, Listed, Removing
  <1>42. CASE \E b \in Ids : PruneRemove(b) BY <1>42 DEF PruneRemove, Removing
  <1>43. CASE PruneEnd BY <1>43 DEF PruneEnd, NoPrune
  <1>44. CASE UNCHANGED vars BY <1>44 DEF vars
  <1>45. QED
    BY <1>1, <1>2, <1>3, <1>4, <1>5, <1>6, <1>7, <1>8, <1>9, <1>10, <1>11, <1>12, <1>13, <1>14,
        <1>15, <1>16, <1>17, <1>18, <1>19, <1>20, <1>21, <1>22, <1>23, <1>24, <1>25, <1>26,
        <1>27, <1>28, <1>29, <1>30, <1>31, <1>32, <1>33, <1>34, <1>35, <1>36, <1>37, <1>38,
        <1>39, <1>40, <1>41, <1>42, <1>43, <1>44 DEF Next, Run, Recover, Helper, Prune

\* Every step leaves the archive one user.
LEMMA StepOneUser == ASSUME IInv, [Next]_vars PROVE ArchiveHasOneUser'
  <1> USE UpgradeAssumption DEF IInv, ArchiveHasOneUser, HelperInv, EngineInv, Sound, TypeOK,
      UpgradeIn, NoUpgrade, RunSteps, RecoverSteps, Phases, Active, Settled, Backups, Ids,
      engineVars, hostVars, countVars
  <1>1. CASE StartBegin BY <1>1 DEF StartBegin
  <1>2. CASE StartRefused BY <1>2 DEF StartRefused
  <1>3. CASE \E v \in Versions : Start(v) BY <1>3 DEF Start, Preparing
  <1>4. CASE Prepare BY <1>4 DEF Prepare, Go
  <1>5. CASE PrepareFails BY <1>5 DEF PrepareFails, Go, Caught
  <1>6. CASE SaveStopping BY <1>6 DEF SaveStopping, SaveStep, Save, Changed, Enter, Caught
  <1>7. CASE Stop("stop", "saveBackingUp") BY <1>7 DEF Stop, Go, Stopped
  <1>8. CASE StopFails("stop", Caught) BY <1>8 DEF StopFails, Go, Caught, Stopped
  <1>9. CASE SaveBackingUp BY <1>9 DEF SaveBackingUp, SaveStep, Save, Changed, Enter, Caught
  <1>10. CASE BackupBegin BY <1>10 DEF BackupBegin, Go
  <1>11. CASE BackupFails BY <1>11 DEF BackupFails, Go, Caught
  <1>12. CASE SaveInstalling BY <1>12 DEF SaveInstalling, SaveStep, Save, Changed, Enter, Caught
  <1>13. CASE Install(state.version, "install", "saveVerifying") BY <1>13 DEF Install, Go
  <1>14. CASE InstallFails(state.version, "install", Caught) BY <1>14 DEF InstallFails, Go, Caught
  <1>15. CASE SaveVerifying BY <1>15 DEF SaveVerifying, SaveStep, Save, Changed, Enter, Caught
  <1>16. CASE Verify(state.version, "verify", "saveSucceeded") BY <1>16 DEF Verify, Go
  <1>17. CASE VerifyFails("verify", Caught) BY <1>17 DEF VerifyFails, Go, Caught
  <1>18. CASE SaveSucceeded BY <1>18 DEF SaveSucceeded, SaveStep, Save, Changed, Enter, Caught
  <1>19. CASE CancelHelper BY <1>19 DEF CancelHelper, Go
  <1>20. CASE CancelFails BY <1>20 DEF CancelFails, Go, Lost
  <1>21. CASE SaveFailed BY <1>21 DEF SaveFailed, SaveStep, Save, Changed, Enter, Lost
  <1>22. CASE SaveRollingBack BY <1>22 DEF SaveRollingBack, SaveStep, Save, Changed, Enter, Lost
  <1>23. CASE Stop("stopAgain", AfterStop) BY <1>23 DEF Stop, Go, Stopped, AfterStop
  <1>24. CASE StopFails("stopAgain", Lost) BY <1>24 DEF StopFails, Go, Lost, Stopped
  <1>25. CASE RestoreBegin BY <1>25 DEF RestoreBegin, Go
  <1>26. CASE RestoreFails BY <1>26 DEF RestoreFails, Go, Lost
  <1>27. CASE Install(state.previous, "reinstall", "verifyPrevious") BY <1>27 DEF Install, Go
  <1>28. CASE InstallFails(state.previous, "reinstall", Lost) BY <1>28 DEF InstallFails, Go, Lost
  <1>29. CASE Verify(state.previous, "verifyPrevious", "saveRolledBack") BY <1>29 DEF Verify, Go
  <1>30. CASE VerifyFails("verifyPrevious", Lost) BY <1>30 DEF VerifyFails, Go, Lost
  <1>31. CASE SaveRolledBack BY <1>31 DEF SaveRolledBack, SaveStep, Save, Changed, Enter, Lost
  <1>32. CASE SaveRequired BY <1>32 DEF SaveRequired, SaveStep, Save, Changed, Enter, Lost
  <1>33. CASE Initialize BY <1>33 DEF Initialize, Terminal, Caught
  <1>34. CASE Crash BY <1>34 DEF Crash
  <1>35. CASE HelperMeasures BY <1>35 DEF HelperMeasures, HelperEnds
  <1>36. CASE HelperArchives BY <1>36 DEF HelperArchives, HelperEnds
  <1>37. CASE HelperEmpties BY <1>37 DEF HelperEmpties
  <1>38. CASE HelperRestores BY <1>38 DEF HelperRestores, HelperEnds
  <1>39. CASE Migrate BY <1>39 DEF Migrate
  <1>40. CASE PruneRead BY <1>40 DEF PruneRead, NoPrune
  <1>41. CASE PruneList BY <1>41 DEF PruneList, NoPrune, Selected, Newer, Listed, Removing
  <1>42. CASE \E b \in Ids : PruneRemove(b) BY <1>42 DEF PruneRemove, Removing
  <1>43. CASE PruneEnd BY <1>43 DEF PruneEnd, NoPrune
  <1>44. CASE UNCHANGED vars BY <1>44 DEF vars
  <1>45. QED
    BY <1>1, <1>2, <1>3, <1>4, <1>5, <1>6, <1>7, <1>8, <1>9, <1>10, <1>11, <1>12, <1>13, <1>14,
        <1>15, <1>16, <1>17, <1>18, <1>19, <1>20, <1>21, <1>22, <1>23, <1>24, <1>25, <1>26,
        <1>27, <1>28, <1>29, <1>30, <1>31, <1>32, <1>33, <1>34, <1>35, <1>36, <1>37, <1>38,
        <1>39, <1>40, <1>41, <1>42, <1>43, <1>44 DEF Next, Run, Recover, Helper, Prune

\* Every step keeps the newest backup out of a prune's hands.
LEMMA StepPruneInv == ASSUME IInv, [Next]_vars PROVE PruneInv'
  <1> USE UpgradeAssumption DEF IInv, PruneInv, HelperInv, EngineInv, SameUpgrade, Acting,
      Sound, TypeOK, UpgradeIn, NoUpgrade, RunSteps, RecoverSteps, Phases, Active, Settled,
      Backups, Ids, engineVars, hostVars, countVars
  <1>1. CASE StartBegin BY <1>1 DEF StartBegin
  <1>2. CASE StartRefused BY <1>2 DEF StartRefused
  <1>3. CASE \E v \in Versions : Start(v) BY <1>3 DEF Start, Preparing
  <1>4. CASE Prepare BY <1>4 DEF Prepare, Go
  <1>5. CASE PrepareFails BY <1>5 DEF PrepareFails, Go, Caught
  <1>6. CASE SaveStopping BY <1>6 DEF SaveStopping, SaveStep, Save, Changed, Enter, Caught
  <1>7. CASE Stop("stop", "saveBackingUp") BY <1>7 DEF Stop, Go, Stopped
  <1>8. CASE StopFails("stop", Caught) BY <1>8 DEF StopFails, Go, Caught, Stopped
  <1>9. CASE SaveBackingUp BY <1>9 DEF SaveBackingUp, SaveStep, Save, Changed, Enter, Caught
  <1>10. CASE BackupBegin BY <1>10 DEF BackupBegin, Go
  <1>11. CASE BackupFails BY <1>11 DEF BackupFails, Go, Caught
  <1>12. CASE SaveInstalling BY <1>12 DEF SaveInstalling, SaveStep, Save, Changed, Enter, Caught
  <1>13. CASE Install(state.version, "install", "saveVerifying") BY <1>13 DEF Install, Go
  <1>14. CASE InstallFails(state.version, "install", Caught) BY <1>14 DEF InstallFails, Go, Caught
  <1>15. CASE SaveVerifying BY <1>15 DEF SaveVerifying, SaveStep, Save, Changed, Enter, Caught
  <1>16. CASE Verify(state.version, "verify", "saveSucceeded") BY <1>16 DEF Verify, Go
  <1>17. CASE VerifyFails("verify", Caught) BY <1>17 DEF VerifyFails, Go, Caught
  <1>18. CASE SaveSucceeded BY <1>18 DEF SaveSucceeded, SaveStep, Save, Changed, Enter, Caught
  <1>19. CASE CancelHelper BY <1>19 DEF CancelHelper, Go
  <1>20. CASE CancelFails BY <1>20 DEF CancelFails, Go, Lost
  <1>21. CASE SaveFailed BY <1>21 DEF SaveFailed, SaveStep, Save, Changed, Enter, Lost
  <1>22. CASE SaveRollingBack BY <1>22 DEF SaveRollingBack, SaveStep, Save, Changed, Enter, Lost
  <1>23. CASE Stop("stopAgain", AfterStop) BY <1>23 DEF Stop, Go, Stopped, AfterStop
  <1>24. CASE StopFails("stopAgain", Lost) BY <1>24 DEF StopFails, Go, Lost, Stopped
  <1>25. CASE RestoreBegin BY <1>25 DEF RestoreBegin, Go
  <1>26. CASE RestoreFails BY <1>26 DEF RestoreFails, Go, Lost
  <1>27. CASE Install(state.previous, "reinstall", "verifyPrevious") BY <1>27 DEF Install, Go
  <1>28. CASE InstallFails(state.previous, "reinstall", Lost) BY <1>28 DEF InstallFails, Go, Lost
  <1>29. CASE Verify(state.previous, "verifyPrevious", "saveRolledBack") BY <1>29 DEF Verify, Go
  <1>30. CASE VerifyFails("verifyPrevious", Lost) BY <1>30 DEF VerifyFails, Go, Lost
  <1>31. CASE SaveRolledBack BY <1>31 DEF SaveRolledBack, SaveStep, Save, Changed, Enter, Lost
  <1>32. CASE SaveRequired BY <1>32 DEF SaveRequired, SaveStep, Save, Changed, Enter, Lost
  <1>33. CASE Initialize BY <1>33 DEF Initialize, Terminal, Caught
  <1>34. CASE Crash BY <1>34 DEF Crash
  <1>35. CASE HelperMeasures BY <1>35 DEF HelperMeasures, HelperEnds
  <1>36. CASE HelperArchives BY <1>36 DEF HelperArchives, HelperEnds
  <1>37. CASE HelperEmpties BY <1>37 DEF HelperEmpties
  <1>38. CASE HelperRestores BY <1>38 DEF HelperRestores, HelperEnds
  <1>39. CASE Migrate BY <1>39 DEF Migrate
  <1>40. CASE PruneRead BY <1>40 DEF PruneRead, NoPrune
  <1>41. CASE PruneList
    <2>1. /\ prune'.remove = Selected(prune.protect) /\ prune'.protect = 0
          /\ UNCHANGED <<journal, archives, issued>>
      BY <1>41 DEF PruneList, Removing
    <2>2. QED BY <2>1, PruneLists
  <1>42. CASE \E b \in Ids : PruneRemove(b) BY <1>42 DEF PruneRemove, Removing
  <1>43. CASE PruneEnd BY <1>43 DEF PruneEnd, NoPrune
  <1>44. CASE UNCHANGED vars BY <1>44 DEF vars
  <1>45. QED
    BY <1>1, <1>2, <1>3, <1>4, <1>5, <1>6, <1>7, <1>8, <1>9, <1>10, <1>11, <1>12, <1>13, <1>14,
        <1>15, <1>16, <1>17, <1>18, <1>19, <1>20, <1>21, <1>22, <1>23, <1>24, <1>25, <1>26,
        <1>27, <1>28, <1>29, <1>30, <1>31, <1>32, <1>33, <1>34, <1>35, <1>36, <1>37, <1>38,
        <1>39, <1>40, <1>41, <1>42, <1>43, <1>44 DEF Next, Run, Recover, Helper, Prune

-----------------------------------------------------------------------------
(* The invariant *)

\* The invariant holds of a first start, without journal or backups.
LEMMA InitIInv == Init => IInv
  <1> SUFFICES ASSUME Init PROVE IInv
    OBVIOUS
  <1> USE UpgradeAssumption DEF Init, NoUpgrade, NoPrune, Active, Settled, Ids
  <1>1. TypeOK
    <2>1. UpgradeIn(NoUpgrade) BY DEF UpgradeIn, Phases
    <2>2. state = NoUpgrade /\ journal = NoUpgrade OBVIOUS
    <2>3. UpgradeIn(state) /\ UpgradeIn(journal) BY ONLY <2>1, <2>2
    <2>4. app \in [image : Versions, up : BOOLEAN] OBVIOUS
    <2>5. prune \in [step : {"none", "read", "remove"}, protect : 0..MaxUpgrades, remove :
        SUBSET Ids]
      OBVIOUS
    <2>6. archives \in [Ids -> Backups \cup {None}] OBVIOUS
    <2>7. /\ pc \in {"ready"} /\ release \in Versions
          /\ data \in Backups /\ helper \in {"none"}
      BY DEF Backups
    <2>8. issued \in 0..MaxUpgrades /\ crashes \in 0..MaxCrashes /\ faults \in 0..MaxFaults
      OBVIOUS
    <2>9. QED BY ONLY <2>3, <2>4, <2>5, <2>6, <2>7, <2>8 DEF TypeOK
  <1>2. Sound(state) /\ Sound(journal)
    BY DEF Sound, AllOf
  <1>3. SameUpgrade
    BY DEF SameUpgrade
  <1>4. EngineInv
    BY DEF EngineInv, Acting, RunSteps
  <1>5. HelperInv
    BY DEF HelperInv
  <1>6. ArchiveHasOneUser
    <2>1. data \in Nat /\ helper = "none" OBVIOUS
    <2>2. QED BY <2>1 DEF ArchiveHasOneUser
  <1>7. PruneInv
    BY DEF PruneInv
  <1>8. QED
    BY <1>1, <1>2, <1>3, <1>4, <1>5, <1>6, <1>7 DEF IInv

\* Every step keeps the invariant.
LEMMA StepIInv == IInv /\ [Next]_vars => IInv'
  BY StepTypeOK, StepSoundState, StepSoundJournal, StepSameUpgrade, StepEngineInv,
     StepHelperInv, StepOneUser, StepPruneInv DEF IInv

\* What the engine knows at each step of an upgrade, what the journal says of
\* the host, and what a left-over helper or a prune may hold, hold at the start
\* and are kept by every step.
THEOREM UpgradeInductive == Spec => []IInv
  BY InitIInv, StepIInv, PTL DEF Spec

\* Records, containers, archives and prunes keep their types, and a journal of
\* an upgrade in progress has an id and two releases.
THEOREM UpgradeTypes == Spec => []TypeOK
  <1>1. IInv => TypeOK
    BY DEF IInv
  <1>2. QED BY <1>1, UpgradeInductive, PTL

\* Whenever the journal says that an upgrade ended, the application, the
\* pinned release and the archive are of the release it ended on.
THEOREM EndsMatching == Spec => []EndedMatches
  <1>1. IInv => EndedMatches
    BY DEF IInv, Sound, EndedMatches, NoUpgrade
  <1>2. QED BY <1>1, UpgradeInductive, PTL

\* Until the journal names a complete backup, the old release and its archive
\* are in place.
THEOREM Untouched == Spec => []UntouchedBeforeBackup
  <1>1. IInv => UntouchedBeforeBackup
    BY DEF IInv, Sound, UntouchedBeforeBackup, NoUpgrade
  <1>2. QED BY <1>1, UpgradeInductive, PTL

\* The backup the journal names is whole and of the previous release, whatever
\* a concurrent prune removes.
THEOREM BackupKept == Spec => []NamedBackupKept
  <1>1. IInv => NamedBackupKept
    BY DEF IInv, Sound, NamedBackupKept
  <1>2. QED BY <1>1, UpgradeInductive, PTL

\* The application never runs beside a helper that copies or replaces the
\* archive, nor on a torn one.
THEOREM OneUser == Spec => []ArchiveHasOneUser
  <1>1. IInv => ArchiveHasOneUser
    BY DEF IInv
  <1>2. QED BY <1>1, UpgradeInductive, PTL

-----------------------------------------------------------------------------
(* The refinement *)

\* Four kinds of step: the record keeps (then the image in use changes only
\* during an upgrade), it is settled again, an upgrade begins, or the upgrade
\* in progress goes on or ends.
RecordKept ==
    state' = state /\ (app'.image = app.image \/ state.phase \in Active)
SettledAgain ==
    state.phase \in Settled /\ state'.phase \in Settled /\ app' = app
UpgradeBegun ==
    state.phase \in Settled /\ state'.phase = "preparing" /\ app' = app
UpgradeGoesOn ==
    /\ state.phase \in Active
    /\ state'.phase # "idle"
    /\ state'.previous = state.previous /\ state'.version = state.version

\* A save takes the upgrade in progress on, or leaves the record.
LEMMA SavesGoOn ==
    ASSUME IInv, NEW p \in Phases \ {"idle"}, NEW here, NEW then, NEW otherwise,
           SaveStep(here, Enter(p), then, otherwise), here \in RunSteps \cup RecoverSteps
    PROVE  RecordKept \/ UpgradeGoesOn
  <1>1. state.phase \in Active BY TaskActive DEF SaveStep
  <1>2. state' = state \/ state' = Enter(p) BY DEF SaveStep, Save
  <1>3. QED BY <1>1, <1>2 DEF RecordKept, UpgradeGoesOn, Enter, Changed

\* The commands leave the record, and only a task moves the application.
LEMMA CommandsKeep ==
    ASSUME IInv, pc \in RunSteps \cup RecoverSteps, UNCHANGED state
    PROVE  RecordKept
  BY TaskActive DEF RecordKept

\* Initialize() reads a journal that may be ahead of the memory.
LEMMA InitializeKind ==
    ASSUME IInv, Initialize PROVE RecordKept \/ SettledAgain \/ UpgradeBegun \/ UpgradeGoesOn
  <1>1. state' = journal /\ app' = app BY DEF Initialize, hostVars
  <1>2. CASE state = NoUpgrade
    <2>1. state.phase \in Settled BY <1>2 DEF NoUpgrade, Settled
    <2>2. journal.phase \in Settled \cup {"preparing"} BY <1>2 DEF IInv, SameUpgrade
    <2>3. QED BY <1>1, <2>1, <2>2 DEF SettledAgain, UpgradeBegun
  <1>3. CASE state # NoUpgrade /\ state.phase \notin Active
    BY <1>1, <1>3 DEF IInv, SameUpgrade, RecordKept
  <1>4. CASE state # NoUpgrade /\ state.phase \in Active
    <2>1. state.phase # "idle" BY <1>4 DEF Active
    <2>2. state.id # 0 BY <2>1 DEF IInv, Sound
    <2>3. journal.id = state.id /\ journal.version = state.version /\ journal.previous =
        state.previous
      BY <1>4 DEF IInv, SameUpgrade
    <2>4. journal.phase # "idle" BY <2>2, <2>3 DEF IInv, Sound, NoUpgrade
    <2>5. QED BY <1>1, <1>4, <2>3, <2>4 DEF UpgradeGoesOn
  <1>5. QED BY <1>2, <1>3, <1>4

\* start() begins an upgrade, or forgets the last one.
LEMMA StartKind ==
    ASSUME IInv, NEW v \in Versions, Start(v) PROVE SettledAgain \/ UpgradeBegun
  <1>1. state.phase \in Settled /\ app' = app BY DEF IInv, EngineInv, Start, hostVars
  <1>2. state' = Preparing(v) \/ state' = NoUpgrade BY DEF Start
  <1>3. QED BY <1>1, <1>2 DEF SettledAgain, UpgradeBegun, Preparing, NoUpgrade, Settled

\* Every step is of one of the four kinds.
LEMMA RecordKinds ==
    ASSUME IInv, [Next]_vars PROVE RecordKept \/ SettledAgain \/ UpgradeBegun \/ UpgradeGoesOn
  <1> USE DEF RunSteps, RecoverSteps
  <1>1. CASE UNCHANGED <<state, app>> BY <1>1 DEF RecordKept
  <1>2. CASE \E v \in Versions : Start(v) BY <1>2, StartKind
  <1>3. CASE Initialize BY <1>3, InitializeKind
  <1>4. CASE Run
    <2>1. CASE SaveStopping BY <2>1, SavesGoOn DEF SaveStopping, Phases, Active
    <2>2. CASE SaveBackingUp BY <2>2, SavesGoOn DEF SaveBackingUp, Phases, Active
    <2>3. CASE SaveInstalling
      <3>1. state.phase \in Active BY <2>3, TaskActive DEF SaveInstalling, SaveStep
      <3>2. state' = state \/ /\ state'.phase = "installing"
                              /\ state'.version = state.version /\ state'.previous = state.previous
        BY <2>3 DEF SaveInstalling, SaveStep, Save, Changed
      <3>3. QED BY <3>1, <3>2 DEF RecordKept, UpgradeGoesOn
    <2>4. CASE SaveVerifying BY <2>4, SavesGoOn DEF SaveVerifying, Phases, Active
    <2>5. CASE SaveSucceeded BY <2>5, SavesGoOn DEF SaveSucceeded, Phases, Settled
    <2>6. CASE ~(SaveStopping \/ SaveBackingUp \/ SaveInstalling \/ SaveVerifying \/ SaveSucceeded)
      <3>1. UNCHANGED state /\ pc \in RunSteps
        BY <1>4, <2>6 DEF Run, Prepare, PrepareFails, Stop, StopFails, BackupBegin, BackupFails,
           Install, InstallFails, Verify, VerifyFails, Go
      <3>2. QED BY <3>1, CommandsKeep
    <2>7. QED BY <2>1, <2>2, <2>3, <2>4, <2>5, <2>6
  <1>5. CASE Recover
    <2>1. CASE SaveFailed BY <2>1, SavesGoOn DEF SaveFailed, Phases, Settled
    <2>2. CASE SaveRollingBack BY <2>2, SavesGoOn DEF SaveRollingBack, Phases, Active
    <2>3. CASE SaveRolledBack BY <2>3, SavesGoOn DEF SaveRolledBack, Phases, Settled
    <2>4. CASE SaveRequired BY <2>4, SavesGoOn DEF SaveRequired, Phases
    <2>5. CASE ~(SaveFailed \/ SaveRollingBack \/ SaveRolledBack \/ SaveRequired)
      <3>1. UNCHANGED state /\ pc \in RecoverSteps
        BY <1>5, <2>5 DEF Recover, CancelHelper, CancelFails, Stop, StopFails, RestoreBegin,
           RestoreFails, Install, InstallFails, Verify, VerifyFails, Go
      <3>2. QED BY <3>1, CommandsKeep
    <2>6. QED BY <2>1, <2>2, <2>3, <2>4, <2>5
  <1>6. StartBegin \/ StartRefused \/ Crash \/ Helper \/ Migrate \/ Prune \/ UNCHANGED vars
          => UNCHANGED <<state, app>>
    BY DEF StartBegin, StartRefused, Crash, Helper, HelperMeasures, HelperArchives, HelperEmpties,
       HelperRestores, HelperEnds, Migrate, Prune, PruneRead, PruneList, PruneRemove, PruneEnd,
       vars, engineVars, hostVars
  <1>7. QED BY <1>1, <1>2, <1>3, <1>4, <1>5, <1>6 DEF Next

\* The image to rely on, and what the record says of it.
Image == IF state.phase \in Settled THEN app.image ELSE state.previous
Archive == IF state.phase \notin Settled /\ state.backupComplete THEN archives[state.id] ELSE data

\* The archive to rely on is of the release to rely on; an upgrade that ended
\* left its release in use; and one that begins goes to a newer release.
Reliable ==
    /\ Archive = Image
    /\ state.phase = "succeeded" => app.image = state.version
    /\ state.phase \in {"failed", "rolled-back", "preparing"} => app.image = state.previous
    /\ state.phase = "preparing" => state.version \in Versions /\ state.version > state.previous

\* The invariant says so.
LEMMA ReliableHolds == IInv => Reliable
  <1> SUFFICES ASSUME IInv PROVE Reliable
    OBVIOUS
  <1>1. Archive = Image
    BY DEF IInv, Sound, AllOf, Serving, Archive, Image, Settled
  <1>2. /\ state.phase = "succeeded" => app.image = state.version
        /\ state.phase \in {"failed", "rolled-back", "preparing"} => app.image = state.previous
    BY DEF IInv, Sound, AllOf, Serving, Settled
  <1>3. ASSUME state.phase = "preparing"
        PROVE  state.version \in Versions /\ state.version > state.previous
    <2>1. state.version \in Versions /\ state.previous \in Versions BY <1>3, UpgradeIds
    <2>2. state.previous < state.version BY <1>3 DEF IInv, Sound
    <2>3. QED BY <2>1, <2>2, UpgradeAssumption
  <1>4. QED BY <1>1, <1>2, <1>3 DEF Reliable

\* Every step of the engine is a step of the transaction, or a stutter.
LEMMA StepRefines ==
    ASSUME IInv, IInv', Reliable, Reliable', [Next]_vars
    PROVE  [Transaction!Next]_(Transaction!transactionVars)
  <1> USE DEF InProgress, Terminal, Image, Archive
  <1>1. Archive = Image /\ Archive' = Image'
    BY DEF Reliable
  <1>2. /\ state'.phase = "succeeded" => app'.image = state'.version
        /\ state'.phase \in {"failed", "rolled-back", "preparing"} => app'.image = state'.previous
    BY DEF Reliable
  <1>3. state'.phase = "preparing" => state'.version \in Versions /\ state'.version >
      state'.previous
    BY DEF Reliable
  <1>4. state.phase \in Phases /\ state'.phase \in Phases
    BY DEF IInv, TypeOK, UpgradeIn
  <1>5. CASE RecordKept
    <2>1. Image' = Image BY <1>5 DEF RecordKept, Active, Settled
    <2>2. QED BY <1>1, <1>5, <2>1 DEF RecordKept, Transaction!transactionVars
  <1>6. CASE SettledAgain
    <2>1. Image' = Image BY <1>6 DEF SettledAgain
    <2>2. QED BY <1>1, <1>6, <2>1 DEF SettledAgain, Transaction!transactionVars, Settled, Active
  <1>7. CASE UpgradeBegun
    <2>1. Image' = Image BY <1>2, <1>7 DEF UpgradeBegun, Settled
    <2>2. Transaction!Begin(state'.version)
      BY <1>1, <1>2, <1>3, <1>7, <2>1 DEF UpgradeBegun, Transaction!Begin, Settled, Active
    <2>3. QED BY <1>3, <1>7, <2>2 DEF UpgradeBegun, Transaction!Next
  <1>8. CASE UpgradeGoesOn
    <2>1. CASE state'.phase \in Active
      <3>1. Image' = Image BY <1>8, <2>1 DEF UpgradeGoesOn, Active, Settled
      <3>2. QED BY <1>1, <1>8, <2>1, <3>1 DEF UpgradeGoesOn, Transaction!transactionVars
    <2>2. CASE state'.phase = "succeeded"
      <3>1. Image' = state.version BY <1>2, <1>8, <2>2 DEF UpgradeGoesOn, Settled
      <3>2. QED BY <1>1, <1>8, <2>2, <3>1
              DEF UpgradeGoesOn, Transaction!Next, Transaction!Commit, Active
    <2>3. CASE state'.phase \in {"failed", "rolled-back", "recovery-required"}
      <3>1. Image' = Image BY <1>2, <1>8, <2>3 DEF UpgradeGoesOn, Active, Settled
      <3>2. Transaction!GiveUp(IF state'.phase = "recovery-required" THEN "help" ELSE "stable")
        BY <1>1, <1>8, <2>3, <3>1 DEF UpgradeGoesOn, Transaction!GiveUp, Active
      <3>3. QED BY <3>2 DEF Transaction!Next
    <2>4. QED BY <1>4, <1>8, <2>1, <2>2, <2>3 DEF UpgradeGoesOn, Phases, Settled
  <1>9. QED BY <1>5, <1>6, <1>7, <1>8, RecordKinds

\* The engine, with its journal, its containers and its crashes, implements
\* the upgrade transaction.
THEOREM UpgradeRefines == Spec => ImplementsTransaction
  <1>1. Init => Transaction!Init
    BY DEF Init, Transaction!Init, InProgress, Terminal, NoUpgrade, Active, Settled
  <1>2. IInv /\ IInv' /\ Reliable /\ Reliable' /\ [Next]_vars
          => [Transaction!Next]_(Transaction!transactionVars)
    BY StepRefines
  <1>3. QED
    BY <1>1, <1>2, ReliableHolds, UpgradeInductive, PTL DEF Spec, ImplementsTransaction,
        Transaction!Spec
=============================================================================
