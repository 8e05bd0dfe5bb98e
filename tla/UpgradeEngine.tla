---------------------------- MODULE UpgradeEngine ----------------------------
(***************************************************************************)
(* The updater companion: UpgradeEngine and its DockerDriver, the one-off  *)
(* container that backs up and restores the archive (the helper), the      *)
(* application container, and the host's prune-backups command.            *)
(*                                                                         *)
(* The engine journals each phase before it acts, runs one docker command  *)
(* at a time, and may die between any two steps.  The helper belongs to    *)
(* the docker daemon: it outlives a command that timed out, and the        *)
(* updater.  A release stands for its image and for the schema its         *)
(* migrations give the archive.                                            *)
(***************************************************************************)
EXTENDS Integers, FiniteSets

CONSTANTS
    Versions,    \* the releases, oldest first
    Keep,        \* how many backups the host's prune keeps
    Torn,        \* an archive, or a copy of it, that is not whole
    None,        \* no backup directory
    MaxUpgrades, \* BOUND on the upgrades started
    MaxCrashes,  \* BOUND on how often the updater or its host dies
    MaxFaults    \* BOUND on journal writes that fail

ASSUME UpgradeAssumption ==
    /\ Versions \subseteq Nat \ {0}
    /\ Torn \notin Nat /\ None \notin Nat /\ Torn # None
    /\ Keep \in Nat \ {0}
    /\ MaxUpgrades \in Nat /\ MaxCrashes \in Nat /\ MaxFaults \in Nat

VARIABLES
    pc,       \* what the engine is about to do, "ready" (no task) or "down"
    state,    \* this.state of the process, or of the last one
    journal,  \* journal.json
    app,      \* the application container: its image, and whether it runs
    release,  \* the image release.json selects
    data,     \* the archive: the release whose schema it has, or Torn
    archives, \* backups/<id>/ of each upgrade
    helper,   \* what the helper container is doing
    prune,    \* a prune: its step, the id it protects, what it will remove
    issued,   \* how many upgrades were started
    crashes, faults

engineVars == <<pc, state, journal>>
hostVars == <<app, release, data, archives, helper>>
countVars == <<issued, crashes, faults>>
vars == <<engineVars, hostVars, prune, countVars>>

Ids == 1..MaxUpgrades
Backups == Versions \cup {Torn}

Active == {"preparing", "stopping", "backing-up", "installing", "verifying", "rolling-back"}
Settled == {"idle", "succeeded", "rolled-back", "failed"}
Phases == Active \cup Settled \cup {"recovery-required"}
Terminal(phase) == phase \notin Active

\* The steps of run() and of recover(), each an awaited command or a save.
RunSteps == {"prepare", "saveStopping", "stop", "saveBackingUp", "backup", "archiving",
             "saveInstalling", "install", "saveVerifying", "verify", "saveSucceeded"}
RecoverSteps == {"cancelHelper", "saveFailed", "saveRollingBack", "stopAgain", "restore",
                 "restoring", "reinstall", "verifyPrevious", "saveRolledBack", "saveRequired"}

NoUpgrade == [phase |-> "idle", id |-> 0, version |-> 0, previous |-> 0, backupComplete |-> FALSE]
NoPrune == [step |-> "none", protect |-> 0, remove |-> {}]

Init ==
    /\ pc = "ready"
    /\ state = NoUpgrade
    /\ journal = NoUpgrade
    /\ release \in Versions
    /\ app = [image |-> release, up |-> TRUE]
    /\ data = release
    /\ archives = [b \in Ids |-> None]
    /\ helper = "none"
    /\ prune = NoPrune
    /\ issued = 0 /\ crashes = 0 /\ faults = 0

-----------------------------------------------------------------------------
(* save(): the journal is replaced atomically and then the memory.  A save  *)
(* that throws may have replaced the file already (the sync of the          *)
(* directory comes after the rename); the memory stays as it was.           *)

Save(next, then, otherwise) ==
    \/ /\ journal' = next
       /\ state' = next
       /\ pc' = then
       /\ UNCHANGED faults
    \/ /\ faults < MaxFaults
       /\ faults' = faults + 1
       /\ journal' \in {journal, next}
       /\ pc' = otherwise
       /\ UNCHANGED state

\* What save() writes: the state with its phase and backupComplete changed.
Changed(phase, complete) ==
    [phase |-> phase, id |-> state.id, version |-> state.version,
     previous |-> state.previous, backupComplete |-> complete]

Enter(phase) == Changed(phase, state.backupComplete)

SaveStep(here, changed, then, otherwise) ==
    /\ pc = here
    /\ Save(changed, then, otherwise)
    /\ UNCHANGED <<hostVars, prune, issued, crashes>>

\* What a thrown error leads to in run(), and in recover().
Caught == "cancelHelper"
Lost == "saveRequired"

-----------------------------------------------------------------------------
(* start(): refused unless idle or ended well.  It replies once the journal *)
(* says "preparing".                                                        *)

StartBegin ==
    /\ pc = "ready"
    /\ state.phase \in Settled
    /\ pc' = "checking"
    /\ UNCHANGED <<state, journal, hostVars, prune, countVars>>

StartRefused ==
    /\ pc = "checking"
    /\ pc' = "ready"
    /\ UNCHANGED <<state, journal, hostVars, prune, countVars>>

\* FAULTY: The release to go back to is not recorded.
PreparingNoPrevious(v) == [phase |-> "preparing", id |-> issued + 1, version |-> v,
                           previous |-> 0, backupComplete |-> FALSE]

\* FAULTY: An earlier upgrade's backupComplete is carried over.
PreparingNoReset(v) == [phase |-> "preparing", id |-> issued + 1, version |-> v,
                        previous |-> app.image, backupComplete |-> state.backupComplete]

Preparing(v) == [phase |-> "preparing", id |-> issued + 1, version |-> v,
                 previous |-> app.image, backupComplete |-> FALSE]

Start(v) ==
    /\ pc = "checking"
    /\ issued < MaxUpgrades
    /\ app.up
    /\ v > app.image
    /\ \/ /\ journal' = Preparing(v)
          /\ state' = Preparing(v)
          /\ pc' = "prepare"
          /\ UNCHANGED faults
       \/ /\ faults < MaxFaults
          /\ faults' = faults + 1
          /\ journal' \in {journal, Preparing(v)}
          /\ state' = NoUpgrade
          /\ pc' = "ready"
    /\ issued' = issued + 1
    /\ UNCHANGED <<hostVars, prune, crashes>>

-----------------------------------------------------------------------------
(* The driver's commands.  A command that fails may have taken effect, in   *)
(* part or in full; one that timed out leaves its helper running.           *)

Go(here, there) ==
    /\ pc = here
    /\ pc' = there
    /\ UNCHANGED <<state, journal, prune, countVars>>

Prepare ==
    /\ app.up
    /\ Go("prepare", "saveStopping")
    /\ UNCHANGED hostVars

\* The helper measures the space the backup needs.
PrepareFails ==
    /\ Go("prepare", Caught)
    /\ helper' \in {helper, "space"}
    /\ UNCHANGED <<app, release, data, archives>>

Stopped == [image |-> app.image, up |-> FALSE]

\* No other container may be using the volume.
Stop(here, there) ==
    /\ helper = "none"
    /\ Go(here, there)
    /\ app' = Stopped
    /\ UNCHANGED <<release, data, archives, helper>>

StopFails(here, there) ==
    /\ Go(here, there)
    /\ app' \in {app, Stopped}
    /\ UNCHANGED <<release, data, archives, helper>>

Install(image, here, there) ==
    /\ Go(here, there)
    /\ release' = image
    /\ app' = [image |-> image, up |-> TRUE]
    /\ UNCHANGED <<data, archives, helper>>

\* release.json is replaced first; the container may have been recreated.
InstallFails(image, here, there) ==
    /\ Go(here, there)
    /\ \/ UNCHANGED <<release, app>>
       \/ /\ release' = image
          /\ app' \in {app} \cup [image : {image}, up : BOOLEAN]
    /\ UNCHANGED <<data, archives, helper>>

\* FAULTY: Any answer counts as ready.
VerifyAnyAnswer(version, here, there) ==
    /\ app.up
    /\ Go(here, there)
    /\ UNCHANGED hostVars

\* Ready three times in a row: it runs that release, on a migrated archive.
Verify(version, here, there) ==
    /\ app = [image |-> version, up |-> TRUE]
    /\ data = version
    /\ Go(here, there)
    /\ UNCHANGED hostVars

VerifyFails(here, there) ==
    /\ Go(here, there)
    /\ UNCHANGED hostVars

\* The manifest makes the directory a backup, then the helper fills it.
BackupBegin ==
    /\ Go("backup", "archiving")
    /\ helper' = "backup"
    /\ archives' = [archives EXCEPT ![state.id] = Torn]
    /\ UNCHANGED <<app, release, data>>

BackupFails ==
    /\ \/ Go("backup", Caught) /\ UNCHANGED helper
       \/ Go("archiving", Caught) /\ helper' \in {helper, "none"}
    /\ archives' \in {archives, [archives EXCEPT ![state.id] = Torn]}
    /\ UNCHANGED <<app, release, data>>

\* The backup is read through before anything is deleted.
RestoreBegin ==
    /\ Go("restore", "restoring")
    /\ helper' = "check"
    /\ UNCHANGED <<app, release, data, archives>>

RestoreFails ==
    /\ \/ Go("restore", Lost) /\ UNCHANGED helper
       \/ Go("restoring", Lost) /\ helper' \in {helper, "none"}
    /\ UNCHANGED <<app, release, data, archives>>

\* FAULTY: Takes an upgrade that is stopping the app for one that has not touched it.
CancelHelperEarly ==
    /\ Go("cancelHelper", IF state.phase \in {"preparing", "stopping"} THEN "saveFailed" ELSE "saveRollingBack")
    /\ helper' = "none"
    /\ UNCHANGED <<app, release, data, archives>>

\* Whether recover() has touched the app decides how it goes on.
CancelHelper ==
    /\ Go("cancelHelper", IF state.phase = "preparing" THEN "saveFailed" ELSE "saveRollingBack")
    /\ helper' = "none"
    /\ UNCHANGED <<app, release, data, archives>>

CancelFails ==
    /\ Go("cancelHelper", Lost)
    /\ UNCHANGED hostVars

-----------------------------------------------------------------------------
(* run() and recover(), in their order.  An error in run() is caught and    *)
(* recovered from; an error in recover() leads to "recovery-required".      *)

SaveStopping == SaveStep("saveStopping", Enter("stopping"), "stop", Caught)
SaveBackingUp == SaveStep("saveBackingUp", Enter("backing-up"), "backup", Caught)
SaveInstalling ==
    SaveStep("saveInstalling", Changed("installing", TRUE), "install", Caught)
SaveVerifying == SaveStep("saveVerifying", Enter("verifying"), "verify", Caught)
SaveSucceeded == SaveStep("saveSucceeded", Enter("succeeded"), "ready", Caught)

Run ==
    \/ Prepare \/ PrepareFails
    \/ SaveStopping
    \/ Stop("stop", "saveBackingUp") \/ StopFails("stop", Caught)
    \/ SaveBackingUp
    \/ BackupBegin \/ BackupFails
    \/ SaveInstalling
    \/ Install(state.version, "install", "saveVerifying")
    \/ InstallFails(state.version, "install", Caught)
    \/ SaveVerifying
    \/ Verify(state.version, "verify", "saveSucceeded") \/ VerifyFails("verify", Caught)
    \/ SaveSucceeded

SaveFailed == SaveStep("saveFailed", Enter("failed"), "ready", Lost)
AfterStop == IF state.backupComplete THEN "restore" ELSE "reinstall"

\* FAULTY: The failed release is not stopped first.
SaveRollingBackRunning ==
    SaveStep("saveRollingBack", Enter("rolling-back"), AfterStop, Lost)

SaveRollingBack == SaveStep("saveRollingBack", Enter("rolling-back"), "stopAgain", Lost)
SaveRolledBack == SaveStep("saveRolledBack", Enter("rolled-back"), "ready", Lost)

\* A throw here is caught by nobody: not by initialize(), and not in the task,
\* whose unhandled rejection ends the process.
SaveRequired == SaveStep("saveRequired", Enter("recovery-required"), "ready", "down")

Recover ==
    \/ CancelHelper \/ CancelFails
    \/ SaveFailed
    \/ SaveRollingBack
    \/ Stop("stopAgain", AfterStop) \/ StopFails("stopAgain", Lost)
    \/ RestoreBegin \/ RestoreFails
    \/ Install(state.previous, "reinstall", "verifyPrevious")
    \/ InstallFails(state.previous, "reinstall", Lost)
    \/ Verify(state.previous, "verifyPrevious", "saveRolledBack") \/ VerifyFails("verifyPrevious", Lost)
    \/ SaveRolledBack
    \/ SaveRequired

\* FAULTY: Starts serving without recovering.
InitializeOnly ==
    /\ pc = "down"
    /\ state' = journal
    /\ pc' = "ready"
    /\ UNCHANGED <<journal, hostVars, prune, countVars>>

\* initialize(): the server listens only after the recovery it may need.
Initialize ==
    /\ pc = "down"
    /\ state' = journal
    /\ pc' = IF Terminal(journal.phase) THEN "ready" ELSE Caught
    /\ UNCHANGED <<journal, hostVars, prune, countVars>>

\* The updater dies, or the host with every running helper; the app is
\* started again with the host if it was running.
Crash ==
    /\ pc # "down"
    /\ crashes < MaxCrashes
    /\ crashes' = crashes + 1
    /\ pc' = "down"
    /\ helper' \in {helper, "none"}
    /\ UNCHANGED <<state, journal, app, release, data, archives, prune, issued, faults>>

-----------------------------------------------------------------------------
(* The helper and the app, which run on their own.                          *)

\* The engine goes on if it is still waiting for the command.
HelperEnds(waiting, next) ==
    /\ helper' = "none"
    /\ pc' = IF pc = waiting THEN next ELSE pc
    /\ UNCHANGED <<state, journal, app, release, prune, countVars>>

HelperMeasures ==
    /\ helper = "space"
    /\ HelperEnds("none", pc)
    /\ UNCHANGED <<data, archives>>

\* FAULTY: Installs before the journal says that the backup is complete.
HelperArchivesUnsaved ==
    /\ helper = "backup"
    /\ archives' = [archives EXCEPT ![state.id] = data]
    /\ HelperEnds("archiving", "install")
    /\ UNCHANGED data

HelperArchives ==
    /\ helper = "backup"
    /\ archives' = [archives EXCEPT ![state.id] = data]
    /\ HelperEnds("archiving", "saveInstalling")
    /\ UNCHANGED data

HelperEmpties ==
    /\ helper = "check"
    /\ archives[state.id] \in Versions
    /\ helper' = "restore"
    /\ data' = Torn
    /\ UNCHANGED <<engineVars, app, release, archives, prune, countVars>>

HelperRestores ==
    /\ helper = "restore"
    /\ data' = archives[state.id]
    /\ HelperEnds("restoring", "reinstall")
    /\ UNCHANGED archives

Helper == HelperMeasures \/ HelperArchives \/ HelperEmpties \/ HelperRestores

\* A boot migrates the archive first, and refuses one that is newer.
Migrate ==
    /\ app.up
    /\ data \in Versions
    /\ data < app.image
    /\ data' = app.image
    /\ UNCHANGED <<engineVars, app, release, archives, helper, prune, countVars>>

-----------------------------------------------------------------------------
(* prune-backups: another process, which reads the journal once, lists the  *)
(* backups newest first, and removes the selected ones one by one.          *)

Listed == {b \in Ids : archives[b] # None}
Newer(b) == {c \in Listed : c > b}
\* FAULTY: Keeps one backup too few.
SelectedOffByOne(protect) == {b \in Listed \ {protect} : Cardinality(Newer(b)) >= Keep - 1}

Selected(protect) == {b \in Listed \ {protect} : Cardinality(Newer(b)) >= Keep}

Removing(ids) == [step |-> "remove", protect |-> 0, remove |-> ids]

PruneRead ==
    /\ prune = NoPrune
    /\ journal.phase \in Settled
    /\ prune' = [step |-> "read", protect |-> journal.id, remove |-> {}]
    /\ UNCHANGED <<engineVars, hostVars, countVars>>

PruneList ==
    /\ prune.step = "read"
    /\ prune' = Removing(Selected(prune.protect))
    /\ UNCHANGED <<engineVars, hostVars, countVars>>

PruneRemove(b) ==
    /\ b \in prune.remove
    /\ archives' = [archives EXCEPT ![b] = None]
    /\ prune' = Removing(prune.remove \ {b})
    /\ UNCHANGED <<engineVars, app, release, data, helper, countVars>>

PruneEnd ==
    /\ prune.step = "remove"
    /\ prune.remove = {}
    /\ prune' = NoPrune
    /\ UNCHANGED <<engineVars, hostVars, countVars>>

Prune == PruneRead \/ PruneList \/ (\E b \in Ids : PruneRemove(b)) \/ PruneEnd

-----------------------------------------------------------------------------
Next ==
    \/ StartBegin
    \/ StartRefused
    \/ \E v \in Versions : Start(v)
    \/ Run
    \/ Recover
    \/ Initialize
    \/ Crash
    \/ Helper
    \/ Migrate
    \/ Prune

\* Every awaited command has a time-out, and the host restarts the updater
\* (restart: unless-stopped).  Nothing is assumed of the helper, of a release
\* (it may never become ready), of the owner or of the prune.
Fairness == WF_vars(Run) /\ WF_vars(Recover) /\ WF_vars(Initialize) /\ WF_vars(StartRefused)

Spec == Init /\ [][Next]_vars /\ Fairness

-----------------------------------------------------------------------------
(* Properties.                                                             *)

\* Types; and a journal of an upgrade in progress is complete, as
\* initialize() requires (engine.mjs:45-47).
UpgradeIn(u) ==
    /\ u \in [phase : Phases, id : 0..MaxUpgrades, version : Versions \cup {0},
              previous : Versions \cup {0}, backupComplete : BOOLEAN]
    /\ u # NoUpgrade => u.id \in Ids /\ u.version \in Versions /\ u.previous \in Versions

TypeOK ==
    /\ pc \in RunSteps \cup RecoverSteps \cup {"ready", "down", "checking"}
    /\ UpgradeIn(state) /\ UpgradeIn(journal)
    /\ app \in [image : Versions, up : BOOLEAN]
    /\ release \in Versions
    /\ data \in Backups
    /\ archives \in [Ids -> Backups \cup {None}]
    /\ helper \in {"none", "space", "backup", "check", "restore"}
    /\ prune \in [step : {"none", "read", "remove"}, protect : 0..MaxUpgrades, remove : SUBSET Ids]
    /\ issued \in 0..MaxUpgrades /\ crashes \in 0..MaxCrashes /\ faults \in 0..MaxFaults

\* The release an upgrade ended on.
Serving(u) == IF u.phase = "succeeded" THEN u.version ELSE u.previous

\* The application, the release the host's own compose commands would start,
\* and the archive are all of the release r.
AllOf(r) == app.image = r /\ release = r /\ data = r

\* Whenever the journal on disk says that an upgrade ended (succeeded, rolled
\* back or failed), the application, the pinned release and the archive are
\* all of the release it ended on: no ended upgrade leaves an old image on a
\* migrated archive, through any crash, time-out or lost save.
EndedMatches == journal.phase \in Settled /\ journal.id # 0 => AllOf(Serving(journal))

\* Until the journal on disk names a complete backup, the upgrade has put
\* neither the new image in place nor a migrated or torn archive: what a crash
\* recovers without a backup is intact (docs: "A failed backup never installs
\* the candidate release").
UntouchedBeforeBackup ==
    (journal.id # 0 /\ journal.phase # "succeeded" /\ ~journal.backupComplete) => AllOf(journal.previous)

\* The backup the journal names is whole and of the previous release: through
\* the upgrade, in recovery-required, and after it, although prune-backups
\* works from a journal and a list it read earlier.
NamedBackupKept == journal.backupComplete => archives[journal.id] = journal.previous

\* The archive has one user: the application is stopped while a helper copies
\* or replaces the archive, and never runs on a torn one, also when the helper
\* outlives its command or the updater.
ArchiveHasOneUser == app.up => helper \in {"none", "space"} /\ data # Torn

\* An upgrade is decided, one way, the other, or recovery-required, even if
\* the save that ends it throws.
UpgradeDecided == ~Terminal(state.phase) ~> Terminal(state.phase)

\* The application is not left stopped: it comes back, or the status page asks
\* for the operator.
AppReturns == ~app.up ~> (app.up \/ state.phase = "recovery-required")

\* The engine implements the upgrade transaction.  Between its ends the
\* archive to rely on is the backup once that is complete, before that the
\* live one.
InProgress == ~Terminal(state.phase)
Transaction == INSTANCE UpgradeTransaction WITH
    stage <- IF InProgress THEN "upgrading"
             ELSE IF state.phase = "recovery-required" THEN "help" ELSE "stable",
    image <- IF state.phase \in Settled THEN app.image ELSE state.previous,
    archive <- IF state.phase \notin Settled /\ state.backupComplete THEN archives[state.id] ELSE data,
    target <- IF InProgress THEN state.version ELSE 0

\* Through crashes, time-outs, lost saves and prunes, every step of the engine
\* is a step of the transaction or changes nothing of it.
ImplementsTransaction == Transaction!Spec
=============================================================================
