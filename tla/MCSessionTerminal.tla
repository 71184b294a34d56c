--------------------------- MODULE MCSessionTerminal ---------------------------
(* SessionTerminal with model values for two requests.                       *)
EXTENDS SessionTerminal

CONSTANTS a, b

TwoCallers == {a, b}
================================================================================
