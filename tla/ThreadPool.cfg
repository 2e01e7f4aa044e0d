SPECIFICATION FairSpec
CONSTANTS
  Workers = {w1, w2, w3}
  Main = main
  NoThread = none
  Size = 3
  NTasks = 5
INVARIANT NoIdleWorker
PROPERTIES Implements EveryTaskRuns
