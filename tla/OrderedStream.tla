---------------------------- MODULE OrderedStream ----------------------------
(***************************************************************************)
(* What an attached client is promised about a session's output: it reads  *)
(* the chunks the session produced from the moment it attached, in order   *)
(* and without a hole, until the stream ends.  The stream may end early    *)
(* (the client left, lagged or the session ended); it is never patched.    *)
(***************************************************************************)
EXTENDS Naturals, Sequences

CONSTANT Chunk

VARIABLES
  output,     \* every chunk the session produced since the client attached
  received,   \* the chunks written to the client's connection
  ended       \* the client's stream is over

vars == <<output, received, ended>>

Init ==
  /\ output = <<>>
  /\ received = <<>>
  /\ ended = FALSE

Produce ==
  /\ \E chunk \in Chunk : output' = Append(output, chunk)
  /\ UNCHANGED <<received, ended>>

Receive ==
  /\ ~ended
  /\ Len(received) < Len(output)
  /\ received' = Append(received, output[Len(received) + 1])
  /\ UNCHANGED <<output, ended>>

End ==
  /\ ~ended
  /\ ended' = TRUE
  /\ UNCHANGED <<output, received>>

Next == Produce \/ Receive \/ End

Spec == Init /\ [][Next]_vars
==============================================================================
