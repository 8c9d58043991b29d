CONSTANTS
  d1 = d1
  d2 = d2
  d3 = d3
  Doc = {d1, d2, d3}
  Word = {"rust", "rusted", "iron", "the", "erapostai"}
  Stem <- MCStem
  StopWord = {"the"}
  Documents <- MCDocuments
  Parents <- MCParents
  Queries <- MCQueries
  Limits = {1, 2}
  PositionSize = 4
  MaxPage = 3
SPECIFICATION Spec
INVARIANTS TypeOK NothingWrongShown NothingMissed PagesInOrder
