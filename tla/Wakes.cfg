SPECIFICATION FairSpec
CONSTANTS
  c1 = c1
  s1 = s1
  s2 = s2
  a2 = a2
  Companies = {c1}
  Seats = {s1, s2}
  Appointments = {a2}
  CompanyOf <- OneCompany
  OwnerOf <- OfTheOther
  IdOf <- ByName
  Replicas = {r1, r2}
  Batch = 1
  Headroom = 1
  Delays = {1}
  DayLength = 2
  DailyTurns = 1
  Rhythmic = {s1}
  MaxTime = 2
  Hours = {1}
  MaxEvents = 1
INVARIANTS TurnsAreFunded RingsOnce
PROPERTIES BeatsApart DueIsTaken
