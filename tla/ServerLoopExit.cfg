SPECIFICATION FairSpec
CONSTANTS
  resolve = resolve
  tokens = tokens
  build = build
  save = save
  config = config
  startup = startup
  NoJob = NoJob
  Plain <- Nobody
  Builds <- Nobody
  Faulty <- Nobody
  Unbuilt <- Nobody
  Saves <- Nobody
  Reconfigs <- ConfigOne
  Startup = startup
  PoolSize = 2
  InboxSize = 3
PROPERTIES
  ExitStopsServer
\* The server may stop, fail or wait for the client forever.
CHECK_DEADLOCK FALSE
