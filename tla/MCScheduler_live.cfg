SPECIFICATION FairSpec
CONSTANTS
  acct = acct
  up = up
  Accounts <- MCAccounts
  AccountOf <- MCAccountOf
  VariantKey <- MCVariantKey
  Schedules = {s1, s2}
  Keys = {up}
  Tasks = {t1, t2, t3}
  Workers = {w1, w2}
  NoSchedule = NoSchedule
  NoKey = NoKey
  NoTask = NoTask
  MaxAttempts = 2
  OperatorRetries = {"failed"}
  ListenerWired = FALSE
  BrokerMayFail = FALSE
  WorkersMayCrash = FALSE
  Redelivers = TRUE
CHECK_DEADLOCK FALSE
INVARIANTS
  WaitingHasMessage
  PendingIsPolled
PROPERTIES
  
  JobsSettle
  SchedulesSettle
