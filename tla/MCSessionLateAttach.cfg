CONSTANTS
  a = a
  b = b
  Clients <- OneClient
  Window = 2
  MaxChunks = 0
  MaxMutes = 0
SPECIFICATION Spec
\* The system stops when the session is over and every request has returned.
CHECK_DEADLOCK FALSE
PROPERTY ReleasedAtExit
