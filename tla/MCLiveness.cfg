CONSTANTS
  None = None
  Txs = {1, 2}
  Payments = {p1}
  Allocations = {a1, a2}
  Children = {ann}
  Categories = {tuition}
  r1 = r1
  i1 = i1
  MonthDays <- MCMonthDays
  Enrollments = {e1}
  Workers = {1, 2}
  Ops = {"run", "enroll", "end"}
  Modes = {"calendar_prorated"}
  EnrollmentRows <- MCEnrollments
  EndDays = {1, 3}
  AdjustmentRows <- MCAdjustments
  PriceRows <- MCPrices
  LeadDays = {0, 1}
  MaxAdjustments = 1
  MaxCharges = 1
CHECK_DEADLOCK FALSE
SPECIFICATION AllFairSpec
PROPERTIES
  EveryTransactionEnds
  MoneyIsRecorded
  DueIsBilled
