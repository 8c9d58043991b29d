CONSTANTS
  u1 = u1
  u2 = u2
  u3 = u3
  u4 = u4
  d1 = d1
  d2 = d2
  Worker = {w1, w2}
  Url = {u1, u2, u3, u4}
  Domain = {d1, d2}
  DomainOf <- MCDomainOf
  Seed = {u1, u2, u4}
  SeedsExplicit = FALSE
  Acceptable = {u1, u2, u3}
  Disallowed = {u3}
  LinksOf <- MCLinksOf
  Content = {c1}
  MaxPerDomain = 1
  MaxPages = 2
  MaxFaults = 1
  MaxRuns = 2
  NoUrl = NoUrl
  NoContent = NoContent
SYMMETRY Workers
SPECIFICATION Spec
INVARIANTS TypeOK EveryUrlAccounted StoredBeforeRecorded DomainOverrunBounded RobotsRespected
PROPERTIES SavedUrlReloaded
