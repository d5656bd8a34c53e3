SPECIFICATION Spec
CONSTANTS
  resolve = resolve
  tokens = tokens
  build = build
  save = save
  config = config
  startup = startup
  NoJob = NoJob
  Plain <- PlainOnes
  Builds <- BuildOne
  Faulty <- ResolveOnly
  Unbuilt <- TokensOnly
  Saves <- SaveOne
  Reconfigs <- ConfigOne
  Startup = startup
  PoolSize = 2
  InboxSize = 2
CONSTRAINT
  OneBesidesBuild
INVARIANTS
  IInv
  ResponsesFindTheirJob
  OneBuildAtATime
  DrainedAtStop
PROPERTIES
  ImplementsContract
\* The server may stop, fail or wait for the client forever.
CHECK_DEADLOCK FALSE
