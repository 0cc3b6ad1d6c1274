CONSTANTS
  MaxListen <- MCMaxListen
  MaxConns <- MCMaxConns
  MaxErrors <- MCMaxErrors
SPECIFICATION Spec
INVARIANTS
  TypeOK
  UnrefedNeverKeepsAlive
PROPERTIES
  LoopStopsAfterClose
  QueuedConnectionServed
CHECK_DEADLOCK FALSE
