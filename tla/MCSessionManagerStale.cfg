CONSTANTS
  s1 = s1
  s2 = s2
  c1 = c1
  c2 = c2
  boot = boot
  t1 = t1
  t2 = t2
  Sessions <- MCSessions
  Callers <- MCCallers
  Boot = boot
  Titles <- MCTitles
  FirstTitle = t1
  Operations = {"create", "rename"}
  Faults = FALSE
  MaxCalls = 3
  MaxCrashes = 0
SPECIFICATION Spec
\* The system stops once the bounds on calls and crashes are used up.
CHECK_DEADLOCK FALSE
INVARIANT QuietIsSaved
