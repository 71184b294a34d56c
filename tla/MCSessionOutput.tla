---------------------------- MODULE MCSessionOutput ----------------------------
(* SessionOutput with model values for attach requests.                      *)
EXTENDS SessionOutput, TLC

CONSTANTS a, b

OneClient == {a}
TwoClients == {a, b}
Alike == Permutations(TwoClients)
===============================================================================
