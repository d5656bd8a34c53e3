SPECIFICATION Spec
CONSTANTS
  Documents <- MCDocuments
  CommandLength = 4
  UnclosedLength = 5
  WellFormedLength = 6
  Spare = 1
  BibtexLength = 7
INVARIANTS
  TreeIsBuilt
  NodesStartRight
  StructureIsNotLost
  WellFormedIsClean
  EntriesSurvive
PROPERTIES
  ParserReturns
\* A parser stops when it has read the document.
CHECK_DEADLOCK FALSE
