\* A new database, a process of the present version and one of the version
\* before it, one request, two failures.  One second of the model is five of
\* the program.  Nobody is forced to start a process again.
SPECIFICATION FairLife
CONSTANTS
  new = new  old = old
  Nobody = Nobody
  Servers = {new, old}
  Last = 2
  Embedded <- Binaries
  Statements <- FileStatements
  Migrated = 0
  MaxFaults = 2
  Environments <- EnvironmentSets
  Requests = {q1}
  HeaderTime = 1
  WriteTimeout = 3
  MaxSeconds = 4
  DefaultShutdown = 2
  DefaultRequest = 2
  MaxLines = 5
CHECK_DEADLOCK FALSE
INVARIANTS LifeInv NeverTwice LedgerMatchesSchema ServesMigrated HandlersRunOnMigrated FilesParse
PROPERTIES StartsEnd SignalEnds AnswersSurviveShutdown
