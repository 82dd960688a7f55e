CONSTANTS
  None = None
  Lessons = {1, 2}
  DayOf <- MCDayOf
  Children = {ann}
  Packages = {1, 2}
  Marks = {a1, a2, a3}
  Txs = {t1, t2}
  Rules = {"always", "unexcused_only"}
  Statuses = {"present", "absent_excused"}
  PackageRows <- MCPackages
  OldPackageRows <- MCOldPackages
  Expiries = {2}
  MaxExtensions = 1
  Priced = {1}
SYMMETRY Symmetry
ACTION_CONSTRAINT Staged
CHECK_DEADLOCK FALSE
SPECIFICATION Spec
INVARIANTS
  OneStandingMark
  OnlyStandingMarksCost
  LocksProtectPackages
  UsedWhileValid
