SPECIFICATION Spec
CONSTANTS
  scout = scout
  editor = editor
  tester = tester
  read = read
  home = home
  away = away
  barred = barred
  Legs <- MCLegs
  Readers <- MCReaders
  Talkers <- MCTalkers
  Pinned <- MCPinned
  Callers <- MCCallers
  Calls <- MCCalls
  ToolCalls <- MCCalls
  MaxMail = 1
  ChildRun = tester
  Catalog <- MCCatalog
  Brokers <- MCBrokers
  Redirects <- MCRedirects
  First <- MCFirst
  Prefer = home
  Allowed <- MCAllowed
CHECK_DEADLOCK FALSE
INVARIANTS ReaderDiesWithLeg
