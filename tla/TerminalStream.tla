---------------------------- MODULE TerminalStream ----------------------------
(***************************************************************************)
(* How the attach client reads the bytes a session writes to the terminal  *)
(* (internal/server/status_bar.go, attach_handoff.go): far enough to know  *)
(* whether it stands between two characters or sequences, whether one of   *)
(* them undid the footer, and whether one asks for another session.        *)
(*                                                                         *)
(* A byte is named by its class: "t" is any printable byte no sequence     *)
(* needs, "id" is the payload 1337;FalknAttach=<id> of a handoff.          *)
(***************************************************************************)
EXTENDS Naturals, Sequences

\* The bytes told apart, here and in what is typed.
Bytes ==
  {"ESC", "BEL", "CR", "ETX", "PRE", "C2", "E2", "F0", "80", "90", "9B", "9C", "9D",
   "(", "[", "]", "\\", "A", "B", "C", "D", "I", "J", "O", "P", "c", "j", "k", "m", "n",
   "q", "r", "t", "1", "2", "3", "id"}

Lead == [C2 |-> 1, E2 |-> 2, F0 |-> 3]   \* first bytes of a UTF-8 character
Continuation == {"80", "90", "9B", "9C", "9D"}
Intermediate == {"("}
Final == {"[", "]", "P", "c", "r", "J", "m", "t", "\\"}

Ground == [mode |-> "ground", left |-> 0]

\* Mutant of SafeBoundary: the bytes of a character are not counted.
BoundaryByMode(stream) == stream.mode = "ground"
\* terminalStreamState.safeBoundary.
SafeBoundary(stream) == stream = Ground

StringEnd(b, bell) == b \in {"9C"} \cup bell

\* The mode after b, read in some mode with no character under way.
Mode(mode, b) ==
  CASE mode = "ground" ->
         CASE b = "ESC" -> "escape"
           [] b = "90" -> "string"
           [] b = "9B" -> "csi"
           [] b = "9D" -> "osc"
           [] OTHER -> "ground"
    [] mode = "escape" ->
         CASE b = "[" -> "csi"
           [] b = "]" -> "osc"
           [] b = "P" -> "string"
           [] b \in Intermediate -> "escape"
           [] OTHER -> "ground"
    [] mode = "csi" ->
         CASE b = "ESC" -> "escape"
           [] b \in Final -> "ground"
           [] OTHER -> "csi"
    [] mode = "osc" ->
         CASE StringEnd(b, {"BEL"}) -> "ground"
           [] b = "ESC" -> "oscEscape"
           [] OTHER -> "osc"
    [] mode = "oscEscape" ->
         CASE StringEnd(b, {"BEL", "\\"}) -> "ground"
           [] b = "ESC" -> "oscEscape"
           [] OTHER -> "osc"
    [] mode = "string" ->
         CASE StringEnd(b, {}) -> "ground"
           [] b = "ESC" -> "stringEscape"
           [] OTHER -> "string"
    [] mode = "stringEscape" ->
         CASE StringEnd(b, {"\\"}) -> "ground"
           [] b = "ESC" -> "stringEscape"
           [] OTHER -> "string"

\* One byte: it continues a character, or ends a broken one and is read as any
\* other; only ground starts a character.
Take(stream, b) ==
  IF stream.left > 0 /\ b \in Continuation
  THEN [stream EXCEPT !.left = @ - 1]
  ELSE [mode |-> Mode(stream.mode, b),
        left |-> IF stream.mode = "ground" /\ b \in DOMAIN Lead
                 THEN Lead[b] ELSE 0]

Consume(stream, bytes) ==
  LET after[n \in 0..Len(bytes)] ==
        IF n = 0 THEN stream ELSE Take(after[n - 1], bytes[n])
  IN after[Len(bytes)]

\* Whether `sequence` stands somewhere in `bytes`.
Holds(bytes, sequence) ==
  \E i \in 0..(Len(bytes) - Len(sequence)) :
    SubSeq(bytes, i + 1, i + Len(sequence)) = sequence

ResetSequences == {<<"ESC", "c">>, <<"ESC", "[", "J">>, <<"ESC", "[", "r">>}

\* terminalOutputResetsLayout.
ResetsLayout(bytes) == \E sequence \in ResetSequences : Holds(bytes, sequence)

\* attachHandoffSessionID found one.
AsksHandoff(bytes) == Holds(bytes, <<"ESC", "]", "id", "BEL">>)

\* The last bytes kept for the next call, at least as many as the longest
\* sequence looked for (layoutSequenceTailBytes, handoffSequenceTailBytes).
TailBytes == 4
\* Mutant of TailOf: each chunk is looked at alone.
TailDropped(bytes) == <<>>
TailOf(bytes) == SubSeq(bytes, IF Len(bytes) > TailBytes
                               THEN Len(bytes) - TailBytes + 1 ELSE 1, Len(bytes))
===============================================================================
