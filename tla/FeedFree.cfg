SPECIFICATION FocusSpec
CONSTANTS
  DocSources = {}
  Orgs = {"a", "b"}
  OrgSources <- TwoOrgs
  Lag = 1
  MaxPersisted = 2
  MaxHead = 2
  MaxScans = 5
  MaxPollers = 2
  MaxReloads = 0
  MaxFailures = 1
  Foci = {"free"}
INVARIANT StoreExact
CHECK_DEADLOCK FALSE
