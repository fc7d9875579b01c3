INIT Init
NEXT Next
CONSTANTS
  Classes <- McClasses
  Kinds = {"attribute", "schedule", "days", "calendar", "execution", "monitor", "security", "certificates"}
  ScheduleIndices = {1, 2, 3}
  Plans = {p}
  IndexCap = 2
  MaxEntries = 2
  DayIndices = {1, 2, 3}
  Dates = {d1, d2, d3}
  DayIds = {x, y}
  MaxDays = 2
  SeasonNames = {summer, winter}
  Starts = {1, 2}
  WeekNames = {w1, w2}
  DayIdentifiers = {1, 2}
  MaxRows = 2
  Times = {t1, t2}
  OddTimes = {t3}
  MaxExecutions = 2
  Thresholds = {low, high}
  EmptyThreshold = empty
  Actions = {on, off}
  MaxThresholds = 2
  PolicyBits = {1, 2}
  Keys = {k1, k2}
  NoKey = none
  ResetPolicies = {TRUE, FALSE}
  FreshKeys = TRUE
  MaxTransfer = 2
  MaxCounter = 2
  Owners = {alice, bob}
  Nobody = nobody
  Serials = {s1, s2}
  NoSerial = noserial
  Certificates = {c1, c2}
  MaxCertificates = 3
INVARIANTS
  RightsAreServed ScheduleIndexIsKey ScheduleSwitchedAsAsked SpecialDaysKeys
  CalendarResolves ExecutionTimeFitsType EveryThresholdHasActions
  NonceIsFresh NoReplayAccepted OneCertificatePerOwner
PROPERTIES
  StaysValid AnswersAreTrue OnlyAsGranted
  ClientImportsAreApart
