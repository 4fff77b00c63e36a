SPECIFICATION LedgerSpec
CONSTANTS
  Questions = {1, 2, 3}
  CommandKeys = {k1}
  Times = {1, 2}
  Endings = {"SUCCEEDED", "CANCELLED"}
  Verdicts = {"ACCEPTED"}
  MaxOutput = 3
  Reviewed = {1, 2, 3}
  Components = {c1}
  Reports <- MCReports
  Values = {v1}
  Keys = {1, 2}
  Absent = Absent
  Occurrences = 1
  Window = 2
  MinSamples = 1
  Cooldown = 1
  MinAge = 1
  Expiry = 2
  MaxClock = 2
  MaxVersion = 3
  Callers = {u1, u2}
  Asked = {1, 2}
INVARIANTS ReadsNeverQuarantine RecordedCommandsReplay
  ActiveIsEarned OnlyConsentActs
CHECK_DEADLOCK FALSE
