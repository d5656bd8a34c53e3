SPECIFICATION FairSpec
CONSTANTS
  request = request
  save = save
  NoBuild = NoBuild
  Builds <- TwoBuilds
  PipeSize = 1
  MaxLines = 2
INVARIANTS
  BuildsInBlocks
  LinesInOrder
PROPERTIES
  ImplementsBuildContract
  BuildsReturn
\* Every build has returned.
CHECK_DEADLOCK FALSE
