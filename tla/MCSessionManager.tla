--------------------------- MODULE MCSessionManager ---------------------------
(* SessionManager with two sessions, two request handlers and two titles.    *)
EXTENDS SessionManager, TLC

CONSTANTS s1, s2, c1, c2, boot, t1, t2

MCSessions == {s1, s2}
MCCallers == {c1, c2}
MCTitles == {t1, t2}

\* Sessions are alike, and so are request handlers.
Alike == Permutations(MCSessions) \cup Permutations(MCCallers)
==============================================================================
