CONSTANTS
  MaxListen <- MC2MaxListen
  MaxConns <- MCMaxConns
  MaxErrors <- MCMaxErrors
SPECIFICATION Spec
PROPERTY
  LoopStopsAfterClose
CHECK_DEADLOCK FALSE
