---------------------------- MODULE MCAttachClient ----------------------------
(* AttachClient with small windows, three sessions and a few keys.           *)
EXTENDS AttachClient

ThreeSessions == 1..3
OlderSession == {1}
Windows == {3, 24}

\* normalizedTerminalSize, in rows.
Rows(rows) == LET asked == IF rows = 0 THEN 44 ELSE rows
              IN IF asked < 20 THEN 20 ELSE IF asked > 100 THEN 100 ELSE asked

Rune == <<"C2", "9B">>
Reset == <<"ESC", "c">>
Title == <<"ESC", "]", "t", "BEL">>
Handoffs == <<"ESC", "]", "id", "BEL">>
Written == {Rune, Reset, Title, Handoffs}

Typing ==
  {<<"PRE", "ESC", "[", "A">>, <<"PRE", "ESC", "[", "C">>, <<"PRE", "q">>,
   <<"PRE", "m">>, <<"PRE", "n">>, <<"ESC", "[", "B", "CR">>, <<"ESC", "[", "I">>, <<"PRE", "ESC", "t">>}
===============================================================================
