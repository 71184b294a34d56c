CONSTANTS
  s1 = s1
  c1 = c1
  open = open
  restart = restart
  boot = boot
  t1 = t1
  Sessions = {s1}
  Callers = {c1}
  Boot = boot
  Titles = {t1}
  FirstTitle = t1
  Operations = {"create"}
  Faults = TRUE
  MaxCalls = 1
  MaxCrashes = 1
  Procs = {1, 2, 3}
  Nobody = Nobody
  Clients = {open, restart}
  Restarters = {restart}
  MaxUpsets = 1
SPECIFICATION DaemonSpec
\* The system stops when every client has returned and the bounds are used up.
CHECK_DEADLOCK FALSE
INVARIANTS OneDaemon
PROPERTIES  ShutdownCompletes 
