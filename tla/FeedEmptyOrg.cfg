SPECIFICATION FocusSpec
CONSTANTS
  DocSources = {3}
  Orgs = {"a", "b"}
  OrgSources <- OneEmptyOrg
  Lag = 0
  MaxPersisted = 2
  MaxHead = 1
  MaxScans = 4
  MaxPollers = 0
  MaxReloads = 0
  MaxFailures = 0
  Foci = {"scans"}
INVARIANT ReadyShowsSources
CHECK_DEADLOCK FALSE
