SPECIFICATION FocusSpec
CONSTANTS
  r1 = r1
  r2 = r2
  w1 = w1
  w2 = w2
  c1 = c1
  Foci = {"free"}
  Authors = {a1}
  Slots = {s1, s2}
  WebTabs = {}
  CliShells = {c1}
  WalletOf <- CliWallet
  RunCap = 1
  MaxRuns = 1
  MaxKeys = 2
  MaxLosses = 1
  MaxLog = 6
CHECK_DEADLOCK FALSE
INVARIANT CliRecovers
