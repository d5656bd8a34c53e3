SPECIFICATION FairSpec
CONSTANTS
  tex = tex
  bib = bib
  Free = Free
  Nobody = Nobody
  Files <- OneFile
  Delay = 1
  PoolSize = 2
  MaxMessages = 2
  MaxTasks = 4
INVARIANTS
  IInv
  PublishedWhenFree
PROPERTIES
  NeverOlder
  AcceptedIsShown
\* The bound on the messages lets everything come to rest.
CHECK_DEADLOCK FALSE
