\* Two processes with a worker each, two jobs: everything the queue promises.
SPECIFICATION FairSpec
CONSTANTS
  w1 = w1
  w2 = w2
  r1 = r1
  r2 = r2
  NoKey = NoKey
  NoRunner = NoRunner
  NoJob = NoJob
  Runners <- MCRunners
  Keys = {k1}
  Jobs = {j1, j2}
  Workers <- MCWorkers
  RunnerOf <- MCRunnerOf
  MaxAttempts = 2
INVARIANTS
  TypeOK
  OneWorkerPerJob
  AttemptsRemain
  OneLiveJobPerKey
PROPERTIES
  SettledIsFinal
  JobsSettle
\* Nothing to do is a state of rest.
CHECK_DEADLOCK FALSE
