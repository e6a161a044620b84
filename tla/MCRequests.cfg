SPECIFICATION PartsSpec
CONSTANTS
  Requests <- Calls
  MaxAttempts = 3
  web = web
  ios = ios
  db = db
  mq = mq
  Component = {db, mq}
  Backstops = {TRUE, FALSE}
  Reasons = {"AbortError", "other"}
  Source = {web, ios}
  Settings <- Configs
  MaxEvents = 2
  Absent = Absent
INVARIANTS
  ReplaysOnlyIdempotent
  AnswersAreEarned
  ReportsAreTrue
PROPERTIES
  AbortIsFinal
  WaitsEnd
CHECK_DEADLOCK FALSE
