CONSTANTS
  a = a
  b = b
  Clients <- TwoClients
  Window = 1
  MaxChunks = 2
  MaxMutes = 1
SPECIFICATION Spec
\* The system stops when the session is over and every request has returned.
CHECK_DEADLOCK FALSE
SYMMETRY Alike
INVARIANTS SuppressionExact NothingMissed EndedTranscript
