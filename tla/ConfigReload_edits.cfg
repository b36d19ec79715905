\* Two editors on two threads; each trigger is a signal or a connection.
SPECIFICATION FairSpec
CONSTANTS
  e1 = e1  e2 = e2  b1 = b1  b2 = b2  m1 = m1
  Labels = {b1, b2}
  Models = {m1}
  LegacyLabel = b1
  Legacy = FALSE
  NoLabel = NoLabel
  Conf0 <- OneBackend
  Backups0 <- OneBackup
  Tables <- SomeTables
  RawConfs <- BadEdits
  Editors = {e1, e2}
  Threads = 2
  BackupLimit = 2
  Methods = {"sighup", "socket"}
  MaxRestarts = 1
  Sighup = Sighup
INVARIANTS TypeOK SighupNotSilent RoutingTargetsExist
PROPERTIES ReportedLands EditKeepsBackup
CHECK_DEADLOCK FALSE
