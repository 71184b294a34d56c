------------------------------- MODULE MCWatcher -------------------------------
(* Watcher with model values for a session and its devices.                  *)
EXTENDS Watcher

CONSTANTS s1, phone, tablet

OneSession == {s1}
OneDevice == {phone}
TwoDevices == {phone, tablet}
Attention == {"completed", "needs_input"}
\* The tablet is not told of completed work.
Preferences == {<<phone, "completed">>, <<phone, "needs_input">>, <<tablet, "needs_input">>}
EveryFault == {"daemon", "transcript", "relay", "save"}
NoFault == {}
===============================================================================
