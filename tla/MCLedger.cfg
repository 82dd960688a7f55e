CONSTANTS
  MaxAmount = 2
  Charges = {1, 2}
  Payments = {p1, p2}
  Allocations = {a1, a2}
  Children = {ann, bob}
  Categories = {tuition, meals}
  None = None
  Due <- MCDue
  CreatedAt <- MCCreatedAt
  Days = {1, 2}
  ReceivedOn <- MCReceivedOn
  PeriodEnd <- MCPeriodEnd
SYMMETRY Symmetry
CHECK_DEADLOCK FALSE
SPECIFICATION SuggestionSpec
INVARIANTS
  AllocationsMatch
  NothingOverpaid
  MoneyAddsUp
  SuggestionsHold
