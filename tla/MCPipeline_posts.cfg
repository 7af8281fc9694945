SPECIFICATION PipelineSpec
CONSTANTS
  acct = acct
  up = up
  Accounts <- MCAccounts
  AccountOf <- MCAccountOf
  VariantKey <- MCVariantKey
  Schedules = {s1}
  Keys = {up}
  Tasks = {t1, t2}
  Workers = {w1, w2}
  NoSchedule = NoSchedule
  NoKey = NoKey
  NoTask = NoTask
  NoMessage = NoMessage
  Synchronous = {}
  Blocked = {}
  Malformed = {}
  Seeded = {}
  MaxAttempts = 2
  OperatorRetries = {"failed", "dispatching"}
  ListenerWired = TRUE
  BrokerMayFail = FALSE
  WorkersMayCrash = TRUE
  Redelivers = TRUE
CHECK_DEADLOCK FALSE
SYMMETRY Symmetry
INVARIANTS
  PostedAtMostOnce
  PublishedJobIsLive
