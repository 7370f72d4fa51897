SPECIFICATION LiveSpec
CONSTANTS
  MaxVc = 3
  SlotsPerVc = 2
  One = 6
  Lower = 1
  Limit = 2
  Burst = 2
  Rates = {0, 1}
  LineRates = {2, 3}
  Overlap = FALSE
  MaxOpen = 2
  MaxLine = 1
INVARIANTS TableServes
PROPERTIES EveryCellSent
