CONSTANTS
  u1 = u1
  u2 = u2
  u3 = u3
  u4 = u4
  d1 = d1
  d2 = d2
  Worker = {w1, w2}
  Url = {u1, u2, u3, u4}
  Domain = {d1, d2}
  DomainOf <- MCDomainOf
  Seed = {u1, u2, u4}
  SeedsExplicit = FALSE
  Acceptable = {u1, u2, u3}
  Disallowed = {u3}
  LinksOf <- MCLinksOf
  Content = {c1}
  MaxPerDomain = 1
  MaxPages = 0
  MaxFaults = 0
  MaxRuns = 1
  NoUrl = NoUrl
  NoContent = NoContent
SPECIFICATION Spec
INVARIANTS StopKeepsFrontier
