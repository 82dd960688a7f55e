CONSTANTS
  None = None
  Deleted = Deleted
  Versions = {1, 2, 3}
  LastDate = 3
  MonthLength = 2
  Working <- MCWorking
  HourUnits = 2
  Months = {1, 2, 3}
  Lessons <- MCLessons
  Contracts <- MCContracts
  CloseDays = {2}
  Absences = {1}
  AbsenceRows <- MCAbsences
  Extras = {1}
  ExtraRows <- MCExtras
  Adjustments = {1}
  AdjustmentAmounts = {1}
  Payments = {1}
  WorkedDays = {1}
  Users = {1, 2}
  Positions = {1, 2}
  People = {root, admin, teacher}
  Institutions = {inst}
  Roles <- MCRoles
  Tasks = {task1}
  LastHour = 3
  Today <- MCToday
  HistoryHours = 0
  Txs = {1, 2}
  Copies = {1, 2, 3}
  Day = 1
  Month = 1
  LastTick = 3
  CatchUp = 1
  Stale = 1
  KeepDaily = 1
  KeepMonths = 2
  ManualDays = 0
  Container = TRUE
  Classes = {A, B}
  Teachers = {ann, bob}
  Rooms = {}
  LastDay = 2
  Week <- MCWeek
  SchoolDays <- MCSchoolDays
  Bell <- MCBell
  Members <- MCMembers
  Pupils <- MCPupils
  Plans <- MCPlans
  ChangeRows <- MCChangeRows
  MaxChanges = 3
  Statuses = {"present", "absent"}
  TimetableIds = {1, 2}
  Managers = {m1, m2}
  Savers = {w1, w2}
  open = open
  A = A
  B = B
  ann = ann
  bob = bob
  g1 = g1
  g2 = g2
  k1 = k1
  k2 = k2
  m1 = m1
  m2 = m2
  w1 = w1
  w2 = w2
  root = root
  admin = admin
  teacher = teacher
  inst = inst
CHECK_DEADLOCK FALSE
SPECIFICATION MCSpec
INVARIANTS
  TermsDoNotOverlap
  BooksAreFrozen
  NoDoubleBooking
  RecordsStand
  TasksAreSeen
  RoleFollowsPosition
  CopiesAreWhole
  CopiesAreKept
PROPERTIES
  PaidOnce
  FrozenParts
