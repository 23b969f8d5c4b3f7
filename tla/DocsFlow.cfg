SPECIFICATION FocusSpec
CONSTANTS
  r1 = r1
  r2 = r2
  w1 = w1
  w2 = w2
  c1 = c1
  Foci = {"grants", "keys", "recovery", "runs"}
  Authors = {a1, a2}
  Slots = {s1, s2}
  WebTabs = {w1}
  CliShells = {c1}
  WalletOf <- TwoWallets
  RunCap = 2
  MaxRuns = 5
  MaxKeys = 3
  MaxLosses = 1
  MaxLog = 5
SYMMETRY Symmetry
CONSTRAINTS Focused Typed
CHECK_DEADLOCK FALSE
INVARIANTS RequestKeyKept WebRecovers RunKeysKept
