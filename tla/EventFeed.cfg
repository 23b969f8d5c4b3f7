SPECIFICATION FocusFairSpec
CONSTANTS
  DocSources = {3}
  Orgs = {"a", "b"}
  OrgSources <- TwoOrgs
  Lag = 1
  MaxPersisted = 2
  MaxHead = 2
  MaxScans = 4
  MaxPollers = 2
  MaxReloads = 1
  MaxFailures = 2
  Foci = {"scans", "live"}
INVARIANTS ReadyShowsSources StoreFollowsSources UnrefusedCursorCovers
PROPERTY ScansSettle
CONSTRAINT Typed
CHECK_DEADLOCK FALSE
