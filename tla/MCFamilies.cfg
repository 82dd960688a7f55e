CONSTANTS
  None = None
  MonthDays <- MCMonthDays
  Enrollments = {1}
  Workers = {1, 2}
  Ops = {"setMode", "enroll", "end", "adjust", "run", "recalculate"}
  Modes = {"anniversary", "calendar_prorated", "calendar_full"}
  EnrollmentRows <- MCEnrollments
  EndDays = {2, 4, 5, 6}
  AdjustmentRows <- MCAdjustments
  PriceRows <- MCPrices
  LeadDays = {2}
  MaxAdjustments = 2
  MaxCharges = 2
  Requests = {r1}
  Invoices = {i1, i2}
  LinkTtl = 2
  InvoiceTtl = 1
  MaxTime = 2
  MaxAnswers = 2
  Webhooks = TRUE
  TariffIds = {1}
  Owners = {1}
  Visits = {1}
  Links = {1}
  LastPriceDay = 2
  Savers = {1, 2}
  Kindergartens = {1, 2}
  LastRoutineDay = 3
  WeekLength = 3
  Contents <- MCContents
  Copiers = {1}
  Institutions = {1, 2}
  Types = {"school", "kindergarten"}
  Groups = {1, 2}
  Children = {1}
  Bookings = {1}
  LastDate = 2
  Movers = {1, 2}
SYMMETRY Symmetry
CHECK_DEADLOCK FALSE
SPECIFICATION MCSpec
INVARIANTS
  PeriodsTile
  PricesAreFair
  NothingBilledTwice
  SuccessMeansPayment
  MoneyBacksPayments
  VoidedVisitsCostNothing
  VersionsFollow
  BookedWhereTheyAre
PROPERTIES
  OutcomesStand
