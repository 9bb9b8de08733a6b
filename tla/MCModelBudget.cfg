SPECIFICATION BudgetSpec
CONSTANTS
  Caller = {c1, c2}
  Limits = {3, 4}
  Quotes <- SmallQuotes
  Children = {2}
  MaxUse = 2
  MaxRecords = 4
INVARIANTS WithinLimit OneOpenRequest
CHECK_DEADLOCK FALSE
