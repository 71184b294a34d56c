------------------------------- MODULE MCDaemon -------------------------------
(* Daemon with one session, three processes and two clients, one of which    *)
(* restarts the daemon.                                                      *)
EXTENDS Daemon

CONSTANTS s1, c1, open, restart, boot, t1
===============================================================================
