CONSTANTS
  None = None
  MonthDays <- MCShortCalendar
  Enrollments = {e1}
  Workers = {w1, w2}
  Ops = {"enroll", "end", "run", "recalculate"}
  Modes = {"calendar_prorated"}
  EnrollmentRows <- WorkEnrollments
  EndDays = {1, 3}
  AdjustmentRows <- WorkAdjustments
  PriceRows <- WorkPrices
  LeadDays = {0}
  MaxAdjustments = 1
  MaxCharges = 2
CHECK_DEADLOCK FALSE
SPECIFICATION BillingSpec
PROPERTIES
  RecalculatedAfterEndIsZero
