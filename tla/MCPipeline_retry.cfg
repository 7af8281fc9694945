SPECIFICATION PipelineSpec
CONSTANTS
  acct = acct
  up = up
  Accounts <- MCAccounts
  AccountOf <- MCAccountOf
  VariantKey <- MCVariantKey
  Schedules = {s1}
  Keys = {up}
  Tasks = {t1, t2, t3}
  Workers = {w1}
  NoSchedule = NoSchedule
  NoKey = NoKey
  NoTask = NoTask
  NoMessage = NoMessage
  Synchronous = {}
  Blocked = {}
  Malformed = {}
  Seeded = {}
  MaxAttempts = 2
  OperatorRetries = {}
  ListenerWired = TRUE
  BrokerMayFail = FALSE
  WorkersMayCrash = FALSE
  Redelivers = FALSE
CHECK_DEADLOCK FALSE
PROPERTY RetryAsksPlatform
