\* Socket trigger: every RELOAD is a reload of its own.
SPECIFICATION Spec
CONSTANTS
  e1 = e1  e2 = e2  b1 = b1  b2 = b2  m1 = m1
  Labels = {b1, b2}
  Models = {m1}
  LegacyLabel = b1
  Legacy = FALSE
  NoLabel = NoLabel
  Conf0 <- OneBackend
  Backups0 <- OneBackup
  Tables <- SomeTables
  RawConfs <- NoEdits
  Editors = {e1, e2}
  Threads = 1
  BackupLimit = 1
  Methods = {"socket"}
  MaxRestarts = 1
  Sighup = Sighup
INVARIANT NoSilentRollback
CHECK_DEADLOCK FALSE
