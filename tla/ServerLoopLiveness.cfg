SPECIFICATION FairSpec
CONSTANTS
  resolve = resolve
  tokens = tokens
  build = build
  save = save
  config = config
  startup = startup
  NoJob = NoJob
  Plain <- Nobody
  Builds <- BuildOne
  Faulty <- Nobody
  Unbuilt <- Nobody
  Saves <- SaveOne
  Reconfigs <- Nobody
  Startup = startup
  PoolSize = 2
  InboxSize = 3
PROPERTIES
  RequestsAnswered
  JoinEnds
\* The server may stop, fail or wait for the client forever.
CHECK_DEADLOCK FALSE
