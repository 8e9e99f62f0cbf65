SPECIFICATION FairSpec
CONSTANTS
  s1 = s1
  hourly = hourly
  Schedules = {s1, s2}
  NoSchedule = NoSchedule
  Crons = {hourly}
  BadCron = BadCron
  Requests = {r1, r2}
  Updater = Updater
  Before <- MCBefore
  MaxRetries = 2
  MaxRequests = 2
  MaxFails = 1
  MaxRestarts = 1
INVARIANTS TypeOK OwnEntry
PROPERTY Converges
CHECK_DEADLOCK FALSE
