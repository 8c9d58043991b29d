CONSTANTS
  a = a
  b = b
  title = title
  body = body
  Doc = {p1, p2}
  Term = {a, b}
  Field = {title, body}
  Text <- MCText
  NoText = NoText
  NoDoc = NoDoc
  BatchSize = 2
  MaxCalls = 4
  MaxFaults = 1
  MaxCrashes = 1
SPECIFICATION Spec
INVARIANTS TypeOK DfMatchesPostings IndexedExactly NeverUndercounted
PROPERTIES PendingKept
