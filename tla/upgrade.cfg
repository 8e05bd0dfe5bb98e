\* Upgrades over three releases, the updater or the host dying, journal
\* writes that throw, and prunes.
\* The engine really stops: in recovery-required it waits for the operator.
CHECK_DEADLOCK FALSE
SPECIFICATION Spec
CONSTANTS
  Versions = {1, 2, 3}
  Keep = 1
  Torn = Torn
  None = None
  MaxUpgrades = 2
  MaxCrashes = 2
  MaxFaults = 2
INVARIANTS
  TypeOK
  EndedMatches
  UntouchedBeforeBackup
  NamedBackupKept
  ArchiveHasOneUser
PROPERTIES
  ImplementsTransaction
  UpgradeDecided
  AppReturns
