CONSTANTS
  MaxAmount = 2
  Charges = {1, 2}
  Payments = {p1, p2}
  Allocations = {a1, a2}
  Children = {ann}
  Categories = {tuition}
  None = None
  Txs = {t1, t2}
SYMMETRY Symmetry
ACTION_CONSTRAINT OneByOne
CHECK_DEADLOCK FALSE
SPECIFICATION TxSpec
INVARIANTS
  AllocatingNeverDeadlocks
PROPERTIES
  ImplementsLedger
