SPECIFICATION FocusSpec
CONSTANTS
  r1 = r1
  r2 = r2
  w1 = w1
  w2 = w2
  c1 = c1
  Foci = {"free"}
  Authors = {a1}
  Slots = {s1}
  WebTabs = {w1, w2}
  CliShells = {}
  WalletOf <- TwoTabs
  RunCap = 1
  MaxRuns = 1
  MaxKeys = 2
  MaxLosses = 0
  MaxLog = 3
CHECK_DEADLOCK FALSE
INVARIANT RequestKeyKept
