SPECIFICATION Spec
CONSTANTS
  acct = acct
  up = up
  Accounts <- MCAccounts
  AccountOf <- MCAccountOf
  VariantKey <- MCVariantKey
  Schedules = {s1, s2}
  Keys = {up, k1}
  Tasks = {t1, t2}
  Workers = {w1, w2}
  NoSchedule = NoSchedule
  NoKey = NoKey
  NoTask = NoTask
  MaxAttempts = 2
  OperatorRetries = {"failed"}
  ListenerWired = TRUE
  BrokerMayFail = TRUE
  WorkersMayCrash = TRUE
  Redelivers = TRUE
CHECK_DEADLOCK FALSE
INVARIANTS
  TypeOK
  ScheduleMirrorsJob
  OnePublisherPerJob
  AttemptsBounded
PROPERTY
  TerminalIsFinal
