CONSTANTS
  p1 = p1
  p2 = p2
  p3 = p3
  a = a
  body = body
  Doc = {p1, p2, p3}
  Term = {a}
  Field = {body}
  Text <- MCText
  NoText = NoText
  NoDoc = NoDoc
  BatchSize = 2
  MaxCalls = 6
  MaxFaults = 1
  MaxCrashes = 1
  TestPage = {}
  Unreadable = {p3}
  BatchLimit = 2
  PageLimits = {0, 3}
  MaxCrawls = 3
SPECIFICATION Spec
INVARIANTS TypeOK MarkedIsKept OneFaultKeepsIndexExact NothingWaitsIdle
PROPERTY PageGetsMarked
