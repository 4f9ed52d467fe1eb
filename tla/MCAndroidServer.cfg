CONSTANTS
  MaxFd <- MCMaxFd
  Backlog = 3
  MaxSessions = 4
  MaxFailures = 2
SPECIFICATION FairSpec
INVARIANTS
  TypeOK
  ClosesWhatItOpened
  LinesGoToTheApp
PROPERTY ExitRestarts
CHECK_DEADLOCK FALSE
