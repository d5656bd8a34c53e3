SPECIFICATION Spec
CONSTANTS
  root = root
  chapters = chapters
  build = build
  main = main
  one = one
  refs = refs
  Files <- TheFiles
  PathOf <- ThePaths
  None = None
  Absent = Absent
  NoFile = NoFile
  j1 = j1
  j2 = j2
  j3 = j3
  Above <- TheFolders
  Below <- TheDirs
  Content <- TheContent
  Options <- TheOptions
  Distro <- TheDistro
  Known <- TheKnown
  Editable <- TheEditable
  Jobs <- TheJobs
  FirstJob = j1
  Fragile <- TheFragile
  Valid <- TheValid
CONSTRAINT
  FewChanges
INVARIANTS
  IInv
  NewestOptions
  LinksFollowOptions
  ProjectIsLoaded
  ParentIsFound
  FoldersAreWatched
CHECK_DEADLOCK FALSE
