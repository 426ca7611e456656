CONSTANTS
  SiteDirs <- SomeSiteDirs
  Hosts = {"", "a", "b"}
  NoDir = nodir
  Null = null
  ServerFiles <- SomeServerFiles
  NoFile = nofile
  LogDirs = {"/var/log/"}
  Addresses = {"127.0.0.1"}
  Arguments = {"none", "good", "bad"}
  MaxVhosts = 2
  Faults <- AllFaults

SPECIFICATION Spec

INVARIANTS
  TypeOK
  ReadyToAccept
  FailsInTheLog
  FoundInOneFile
  MissedMeansAbsent
  CrashNeedsIncomplete

\* A start that fails is over.
CHECK_DEADLOCK FALSE
