CONSTANTS
  Requests = {r1}
  Invoices = {i1}
  LinkTtl = 2
  InvoiceTtl = 1
  MaxTime = 2
  MaxAnswers = 2
  Webhooks = FALSE
  None = None
CHECK_DEADLOCK FALSE
SPECIFICATION FairSpec
PROPERTIES
  MoneyIsRecorded
