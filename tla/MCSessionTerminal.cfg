CONSTANTS
  a = a
  b = b
  Reader = reader
  Waiter = waiter
  Free = nobody
  Callers <- TwoCallers
  InputRoom = 1
  OutputRoom = 1
  MaxChunks = 2
SPECIFICATION Spec
\* The system stops when the session is over and every request has returned.
CHECK_DEADLOCK FALSE
INVARIANT LagsByOne
PROPERTIES PasteWhole SizeNotBehind TerminalIsShared StoppedLetsGo
