------------------------- MODULE SessionTerminalProofs -------------------------
(***************************************************************************)
(* Proofs about SessionTerminal, for any number of requests, any output    *)
(* and buffers of any size: writes stay whole, output is interpreted with  *)
(* its size, and a fresh attention state lags by one chunk at most.        *)
(*                                                                         *)
(* Each follows from who may hold a lock where: who writes holds writeMu   *)
(* from the first part to the last, and whoever is between the two halves  *)
(* of a resize or of an answer holds terminalMu.                           *)
(***************************************************************************)
EXTENDS SessionTerminal, TLAPS

Chunks == [query : BOOLEAN, size : Nat]
Findings == [sequence : Nat, screen : Nat]
Caches == [valid : BOOLEAN, sequence : Nat, screen : Nat]
Parts == [by : Threads, part : Nat]

Places ==
  {"reading", "interpret", "write", "writing", "parsed", "ended", "waiting",
   "waiterRender", "setEnded", "done", "idle", "pause", "resize", "sized", "compare",
   "render", "store", "stopRender", "kill", "setStopped"}

Typed ==
  /\ at \in [Threads -> Places] /\ after \in [Threads -> Places]
  /\ rest \in [Threads -> Seq(Parts)]
  /\ outbox \in Seq(Chunks) /\ chunk \in Chunks
  /\ ptySize \in Nat /\ termSize \in Nat
  /\ outputSequence \in Nat /\ screen \in Nat
  /\ cache \in Caches
  /\ found \in [Callers -> Findings]

\* Each goroutine is in code of its own.
InPlace ==
  /\ at[Reader] \in {"reading", "interpret", "write", "writing", "parsed", "ended"}
  /\ at[Waiter] \in {"waiting", "waiterRender", "setEnded", "done"}
  /\ \A t \in Callers :
       /\ at[t] \in {"idle", "write", "writing", "pause", "resize", "sized", "compare",
                     "render", "store", "stopRender", "kill", "setStopped", "done"}
       /\ after[t] \in {"pause", "done"}
  /\ at[Reader] \in {"write", "writing"} => after[Reader] = "parsed"

\* terminalMu is held through an answer and through a resize.
TerminalHeld ==
  /\ at[Reader] \in {"write", "writing", "parsed"} => terminalMu = Reader
  /\ \A t \in Callers : at[t] = "sized" => terminalMu = t

\* The emulator has the size of the PTY except between the halves of a resize.
SizesAgree ==
  /\ termSize # ptySize => \E t \in Callers : at[t] = "sized"
  /\ chunk.size <= ptySize
  /\ \A i \in 1 .. Len(outbox) : outbox[i].size <= ptySize

\* writeMu is held while the kernel has a part of what is written, and the part
\* it took last is then the one before.
WriteHeld ==
  \A t \in Threads :
    /\ at[t] = "writing" => writeMu = t
    /\ at[t] = "write" => rest[t] \in {Key(t), Long(t)}
    /\ at[t] = "writing" =>
         \/ rest[t] \in {Key(t), Long(t)}
         \/ rest[t] = <<Part(t, 2)>> /\ last = Part(t, 1)

\* The count of chunks is ahead of the emulator by the chunk in the reader's hand.
Counted ==
  /\ outputSequence = IF at[Reader] = "interpret" THEN screen + 1 ELSE screen
  /\ \A t \in Callers :
       /\ at[t] \in {"compare", "render"} => found[t].sequence <= outputSequence
       /\ at[t] = "store" => found[t].sequence <= found[t].screen + 1
  /\ LagsByOne

\* The inductive invariant.
IInv == Typed /\ InPlace /\ TerminalHeld /\ SizesAgree /\ WriteHeld /\ Counted

-----------------------------------------------------------------------------
\* What is written is made of parts.
LEMMA WrittenParts ==
  ASSUME NEW t \in Threads
  PROVE  Key(t) \in Seq(Parts) /\ Long(t) \in Seq(Parts)
  BY DEF Key, Long, Part, Parts

\* A sequence of one part.
LEMMA OneLeft == \A x : Len(<<x>>) = 1
  OBVIOUS

\* What Typed says of sizes and counts.
LEMMA Numbers ==
  ASSUME Typed
  PROVE  /\ chunk.size \in Nat /\ \A i \in 1 .. Len(outbox) : outbox[i].size \in Nat
         /\ cache.sequence \in Nat /\ cache.screen \in Nat
         /\ \A t \in Callers : found[t].sequence \in Nat /\ found[t].screen \in Nat
<1>1. chunk.size \in Nat /\ cache.sequence \in Nat /\ cache.screen \in Nat
  BY DEF Typed, Chunks, Caches
<1>2. ASSUME NEW i \in 1 .. Len(outbox) PROVE outbox[i].size \in Nat
  <2>1. outbox[i] \in Chunks
    BY DEF Typed
  <2> QED
    BY <2>1 DEF Chunks
<1>3. ASSUME NEW t \in Callers PROVE found[t].sequence \in Nat /\ found[t].screen \in Nat
  BY DEF Typed, Findings
<1> QED
  BY <1>1, <1>2, <1>3

\* A new session: nobody writes, and both sizes are those of its creation.
LEMMA InitEstablishes == Init => IInv
<1> SUFFICES ASSUME Init PROVE IInv
  OBVIOUS
<1> USE ThreadsAreDistinct DEF Init, ThreadsAssumption, Threads
<1>1. Typed
  BY DEF Typed, Places, NoChunk, NotFound, Chunks, Findings, Caches
<1>2. InPlace /\ TerminalHeld /\ WriteHeld
  BY DEF InPlace, TerminalHeld, WriteHeld
<1>3. SizesAgree /\ Counted
  BY DEF SizesAgree, Counted, LagsByOne, NoChunk
<1> QED
  BY <1>1, <1>2, <1>3 DEF IInv

\* What the program and its kind do.
LEMMA ProgramPreserves ==
  ASSUME IInv, Program
  PROVE  IInv'
<1> USE DEF ThreadsAssumption, Threads
<1>1. CASE WantsToPrint
  <2> USE <1>1 DEF WantsToPrint, Goto, programVars, kernelVars, writeVars, emulatorVars, attentionVars
  <2>1. Typed'
    BY ThreadsAreDistinct DEF IInv, Typed, Places
  <2>2. InPlace'
    BY ThreadsAreDistinct DEF IInv, Typed, InPlace
  <2>3. TerminalHeld'
    BY ThreadsAreDistinct DEF IInv, Typed, InPlace, TerminalHeld
  <2>4. SizesAgree'
    BY ThreadsAreDistinct, Numbers DEF IInv, Typed, InPlace, TerminalHeld, SizesAgree
  <2>5. WriteHeld'
    BY ThreadsAreDistinct DEF IInv, Typed, InPlace, WriteHeld
  <2>6. Counted'
    BY ThreadsAreDistinct, Numbers DEF IInv, Typed, InPlace, Counted, LagsByOne
  <2> QED
    BY <2>1, <2>2, <2>3, <2>4, <2>5, <2>6 DEF IInv
<1>2. CASE Prints
  <2> USE <1>2 DEF Prints, Goto, programVars, kernelVars, writeVars, emulatorVars, attentionVars
  <2>1. Typed'
    <3>1. [query |-> printing = "query", size |-> ptySize] \in Chunks
      BY DEF IInv, Typed, Chunks
    <3> QED
      BY <3>1 DEF IInv, Typed
  <2>2. InPlace'
    BY ThreadsAreDistinct DEF IInv, Typed, InPlace
  <2>3. TerminalHeld'
    BY ThreadsAreDistinct DEF IInv, Typed, InPlace, TerminalHeld
  <2>4. SizesAgree'
    BY ThreadsAreDistinct, Numbers DEF IInv, Typed, InPlace, TerminalHeld, SizesAgree
  <2>5. WriteHeld'
    BY ThreadsAreDistinct DEF IInv, Typed, InPlace, WriteHeld
  <2>6. Counted'
    BY ThreadsAreDistinct, Numbers DEF IInv, Typed, InPlace, Counted, LagsByOne
  <2> QED
    BY <2>1, <2>2, <2>3, <2>4, <2>5, <2>6 DEF IInv
<1>3. CASE TakesInput
  <2> USE <1>3 DEF TakesInput, Goto, programVars, kernelVars, writeVars, emulatorVars, attentionVars
  <2>1. Typed'
    BY ThreadsAreDistinct DEF IInv, Typed, Places
  <2>2. InPlace'
    BY ThreadsAreDistinct DEF IInv, Typed, InPlace
  <2>3. TerminalHeld'
    BY ThreadsAreDistinct DEF IInv, Typed, InPlace, TerminalHeld
  <2>4. SizesAgree'
    BY ThreadsAreDistinct, Numbers DEF IInv, Typed, InPlace, TerminalHeld, SizesAgree
  <2>5. WriteHeld'
    BY ThreadsAreDistinct DEF IInv, Typed, InPlace, WriteHeld
  <2>6. Counted'
    BY ThreadsAreDistinct, Numbers DEF IInv, Typed, InPlace, Counted, LagsByOne
  <2> QED
    BY <2>1, <2>2, <2>3, <2>4, <2>5, <2>6 DEF IInv
<1>4. CASE Exits
  <2> USE <1>4 DEF Exits, Dies, Goto, programVars, kernelVars, writeVars, emulatorVars, attentionVars
  <2>1. Typed'
    BY ThreadsAreDistinct DEF IInv, Typed, Places
  <2>2. InPlace'
    BY ThreadsAreDistinct DEF IInv, Typed, InPlace
  <2>3. TerminalHeld'
    BY ThreadsAreDistinct DEF IInv, Typed, InPlace, TerminalHeld
  <2>4. SizesAgree'
    BY ThreadsAreDistinct, Numbers DEF IInv, Typed, InPlace, TerminalHeld, SizesAgree
  <2>5. WriteHeld'
    BY ThreadsAreDistinct DEF IInv, Typed, InPlace, WriteHeld
  <2>6. Counted'
    BY ThreadsAreDistinct, Numbers DEF IInv, Typed, InPlace, Counted, LagsByOne
  <2> QED
    BY <2>1, <2>2, <2>3, <2>4, <2>5, <2>6 DEF IInv
<1>5. CASE JobEnds
  <2> USE <1>5 DEF JobEnds, Goto, programVars, kernelVars, writeVars, emulatorVars, attentionVars
  <2>1. Typed'
    BY ThreadsAreDistinct DEF IInv, Typed, Places
  <2>2. InPlace'
    BY ThreadsAreDistinct DEF IInv, Typed, InPlace
  <2>3. TerminalHeld'
    BY ThreadsAreDistinct DEF IInv, Typed, InPlace, TerminalHeld
  <2>4. SizesAgree'
    BY ThreadsAreDistinct, Numbers DEF IInv, Typed, InPlace, TerminalHeld, SizesAgree
  <2>5. WriteHeld'
    BY ThreadsAreDistinct DEF IInv, Typed, InPlace, WriteHeld
  <2>6. Counted'
    BY ThreadsAreDistinct, Numbers DEF IInv, Typed, InPlace, Counted, LagsByOne
  <2> QED
    BY <2>1, <2>2, <2>3, <2>4, <2>5, <2>6 DEF IInv
<1> QED
  BY <1>1, <1>2, <1>3, <1>4, <1>5 DEF Program

\* write(), by whomever.
LEMMA WritePreserves ==
  ASSUME IInv, NEW t \in Threads, TakeWriteMu(t) \/ HandOver(t) \/ WriteFails(t)
  PROVE  IInv'
<1> USE DEF ThreadsAssumption, Threads
<1>1. CASE TakeWriteMu(t)
  <2> USE <1>1 DEF TakeWriteMu, Goto, programVars, kernelVars, writeVars, emulatorVars, attentionVars
  <2>1. Typed'
    BY ThreadsAreDistinct DEF IInv, Typed, Places
  <2>2. InPlace'
    BY ThreadsAreDistinct DEF IInv, Typed, InPlace
  <2>3. TerminalHeld'
    BY ThreadsAreDistinct DEF IInv, Typed, InPlace, TerminalHeld
  <2>4. SizesAgree'
    BY ThreadsAreDistinct, Numbers DEF IInv, Typed, InPlace, TerminalHeld, SizesAgree
  <2>5. WriteHeld'
    BY ThreadsAreDistinct DEF IInv, Typed, InPlace, WriteHeld
  <2>6. Counted'
    BY ThreadsAreDistinct, Numbers DEF IInv, Typed, InPlace, Counted, LagsByOne
  <2> QED
    BY <2>1, <2>2, <2>3, <2>4, <2>5, <2>6 DEF IInv
<1>2. CASE HandOver(t)
  <2> USE <1>2 DEF HandOver, Goto, programVars, kernelVars, writeVars, emulatorVars, attentionVars
  <2>1. Typed'
    <3>1. rest[t] \in Seq(Parts) /\ rest[t] # <<>>
      BY DEF IInv, Typed, WriteHeld, Key, Long
    <3>2. Tail(rest[t]) \in Seq(Parts)
      BY <3>1
    <3> QED
      BY <3>2 DEF IInv, Typed, Places
  <2>2. InPlace'
    <3>1. CASE t = Reader
      BY <3>1, ThreadsAreDistinct DEF IInv, Typed, InPlace
    <3>2. CASE t \in Callers
      BY <3>2, ThreadsAreDistinct DEF IInv, Typed, InPlace
    <3>3. t # Waiter
      BY DEF IInv, InPlace
    <3> QED
      BY <3>1, <3>2, <3>3
  <2>3. TerminalHeld'
    BY ThreadsAreDistinct DEF IInv, Typed, InPlace, TerminalHeld
  <2>4. SizesAgree'
    BY ThreadsAreDistinct, Numbers DEF IInv, Typed, InPlace, TerminalHeld, SizesAgree
  <2>5. WriteHeld'
    <3>1. \A u \in Threads \ {t} : at[u] # "writing" /\ at'[u] = at[u] /\ rest'[u] = rest[u]
      BY DEF IInv, Typed, WriteHeld
    <3>2. CASE rest[t] = Long(t)
      <4>1. Len(rest[t]) > 1 /\ Head(rest[t]) = Part(t, 1) /\ Tail(rest[t]) = <<Part(t, 2)>>
        BY <3>2 DEF Long
      <4>2. /\ at'[t] = "writing" /\ writeMu' = t
            /\ rest'[t] = <<Part(t, 2)>> /\ last' = Part(t, 1)
        BY <4>1 DEF IInv, Typed, WriteHeld
      <4> QED
        BY <3>1, <4>2 DEF IInv, WriteHeld
    <3>3. CASE rest[t] = Key(t) \/ rest[t] = <<Part(t, 2)>>
      <4>1. Len(rest[t]) = 1
        <5>1. rest[t] = <<Part(t, 1)>> \/ rest[t] = <<Part(t, 2)>>
          BY <3>3 DEF Key
        <5> QED
          BY <5>1, OneLeft
      <4>2. at'[t] = after[t] /\ after[t] \notin {"write", "writing"}
        BY SMTT(60), <4>1, ThreadsAreDistinct DEF IInv, Typed, InPlace
      <4> QED
        BY <3>1, <4>2 DEF IInv, WriteHeld
    <3> QED
      BY <3>2, <3>3 DEF IInv, WriteHeld
  <2>6. Counted'
    BY ThreadsAreDistinct, Numbers DEF IInv, Typed, InPlace, Counted, LagsByOne
  <2> QED
    BY <2>1, <2>2, <2>3, <2>4, <2>5, <2>6 DEF IInv
<1>3. CASE WriteFails(t)
  <2> USE <1>3 DEF WriteFails, Goto, programVars, kernelVars, writeVars, emulatorVars, attentionVars
  <2>1. Typed'
    BY ThreadsAreDistinct DEF IInv, Typed, Places
  <2>2. InPlace'
    BY ThreadsAreDistinct DEF IInv, Typed, InPlace
  <2>3. TerminalHeld'
    BY ThreadsAreDistinct DEF IInv, Typed, InPlace, TerminalHeld
  <2>4. SizesAgree'
    BY ThreadsAreDistinct, Numbers DEF IInv, Typed, InPlace, TerminalHeld, SizesAgree
  <2>5. WriteHeld'
    BY ThreadsAreDistinct DEF IInv, Typed, InPlace, WriteHeld
  <2>6. Counted'
    BY ThreadsAreDistinct, Numbers DEF IInv, Typed, InPlace, Counted, LagsByOne
  <2> QED
    BY <2>1, <2>2, <2>3, <2>4, <2>5, <2>6 DEF IInv
<1> QED
  BY <1>1, <1>2, <1>3

\* The reader.
LEMMA ReaderPreserves ==
  ASSUME IInv, Read \/ Interpret \/ Interpreted \/ ReadEnds
  PROVE  IInv'
<1> USE DEF ThreadsAssumption, Threads
<1>1. CASE Read
  <2> USE <1>1 DEF Read, Goto, programVars, kernelVars, writeVars, emulatorVars, attentionVars
  <2>1. Typed'
    BY ThreadsAreDistinct DEF IInv, Typed, Places
  <2>2. InPlace'
    BY ThreadsAreDistinct DEF IInv, Typed, InPlace
  <2>3. TerminalHeld'
    BY ThreadsAreDistinct DEF IInv, Typed, InPlace, TerminalHeld
  <2>4. SizesAgree'
    BY ThreadsAreDistinct, Numbers DEF IInv, Typed, InPlace, TerminalHeld, SizesAgree
  <2>5. WriteHeld'
    BY ThreadsAreDistinct DEF IInv, Typed, InPlace, WriteHeld
  <2>6. Counted'
    BY ThreadsAreDistinct, Numbers DEF IInv, Typed, InPlace, Counted, LagsByOne
  <2> QED
    BY <2>1, <2>2, <2>3, <2>4, <2>5, <2>6 DEF IInv
<1>2. CASE Interpret
  <2> USE <1>2 DEF Interpret, BeginWrite, Goto, programVars, kernelVars, writeVars, emulatorVars, attentionVars
  <2>1. Typed'
    BY ThreadsAreDistinct, WrittenParts DEF IInv, Typed, Places
  <2>2. InPlace'
    BY ThreadsAreDistinct DEF IInv, Typed, InPlace
  <2>3. TerminalHeld'
    BY ThreadsAreDistinct DEF IInv, Typed, InPlace, TerminalHeld
  <2>4. SizesAgree'
    BY ThreadsAreDistinct, Numbers DEF IInv, Typed, InPlace, TerminalHeld, SizesAgree
  <2>5. WriteHeld'
    <3>1. CASE chunk.query
      BY <3>1, ThreadsAreDistinct DEF IInv, Typed, WriteHeld
    <3>2. CASE ~chunk.query
      BY <3>2, ThreadsAreDistinct DEF IInv, Typed, WriteHeld
    <3> QED
      BY <3>1, <3>2
  <2>6. Counted'
    BY ThreadsAreDistinct, Numbers DEF IInv, Typed, InPlace, Counted, LagsByOne
  <2> QED
    BY <2>1, <2>2, <2>3, <2>4, <2>5, <2>6 DEF IInv
<1>3. CASE Interpreted
  <2> USE <1>3 DEF Interpreted, NoChunk, Goto, programVars, kernelVars, writeVars, emulatorVars, attentionVars
  <2>1. Typed'
    BY ThreadsAreDistinct DEF IInv, Typed, Places, Chunks
  <2>2. InPlace'
    BY ThreadsAreDistinct DEF IInv, Typed, InPlace
  <2>3. TerminalHeld'
    BY ThreadsAreDistinct DEF IInv, Typed, InPlace, TerminalHeld
  <2>4. SizesAgree'
    BY ThreadsAreDistinct, Numbers DEF IInv, Typed, InPlace, TerminalHeld, SizesAgree
  <2>5. WriteHeld'
    BY ThreadsAreDistinct DEF IInv, Typed, InPlace, WriteHeld
  <2>6. Counted'
    BY ThreadsAreDistinct, Numbers DEF IInv, Typed, InPlace, Counted, LagsByOne
  <2> QED
    BY <2>1, <2>2, <2>3, <2>4, <2>5, <2>6 DEF IInv
<1>4. CASE ReadEnds
  <2> USE <1>4 DEF ReadEnds, Goto, programVars, kernelVars, writeVars, emulatorVars, attentionVars
  <2>1. Typed'
    BY ThreadsAreDistinct DEF IInv, Typed, Places
  <2>2. InPlace'
    BY ThreadsAreDistinct DEF IInv, Typed, InPlace
  <2>3. TerminalHeld'
    BY ThreadsAreDistinct DEF IInv, Typed, InPlace, TerminalHeld
  <2>4. SizesAgree'
    BY ThreadsAreDistinct, Numbers DEF IInv, Typed, InPlace, TerminalHeld, SizesAgree
  <2>5. WriteHeld'
    BY ThreadsAreDistinct DEF IInv, Typed, InPlace, WriteHeld
  <2>6. Counted'
    BY ThreadsAreDistinct, Numbers DEF IInv, Typed, InPlace, Counted, LagsByOne
  <2> QED
    BY <2>1, <2>2, <2>3, <2>4, <2>5, <2>6 DEF IInv
<1> QED
  BY <1>1, <1>2, <1>3, <1>4

\* A request begins.
LEMMA BeginPreserves ==
  ASSUME IInv, NEW t \in Callers, Begin(t)
  PROVE  IInv'
<1> USE DEF ThreadsAssumption, Threads
<1>1. CASE SendKey(t)
  <2> USE <1>1 DEF SendKey, Call, BeginWrite, Goto, programVars, kernelVars, writeVars, emulatorVars, attentionVars
  <2>1. Typed'
    BY ThreadsAreDistinct, WrittenParts DEF IInv, Typed, Places
  <2>2. InPlace'
    BY ThreadsAreDistinct DEF IInv, Typed, InPlace
  <2>3. TerminalHeld'
    BY ThreadsAreDistinct DEF IInv, Typed, InPlace, TerminalHeld
  <2>4. SizesAgree'
    BY ThreadsAreDistinct, Numbers DEF IInv, Typed, InPlace, TerminalHeld, SizesAgree
  <2>5. WriteHeld'
    BY ThreadsAreDistinct DEF IInv, Typed, InPlace, WriteHeld
  <2>6. Counted'
    BY ThreadsAreDistinct, Numbers DEF IInv, Typed, InPlace, Counted, LagsByOne
  <2> QED
    BY <2>1, <2>2, <2>3, <2>4, <2>5, <2>6 DEF IInv
<1>2. CASE Send(t)
  <2> USE <1>2 DEF Send, Call, BeginWrite, Goto, programVars, kernelVars, writeVars, emulatorVars, attentionVars
  <2>1. Typed'
    BY ThreadsAreDistinct, WrittenParts DEF IInv, Typed, Places
  <2>2. InPlace'
    BY ThreadsAreDistinct DEF IInv, Typed, InPlace
  <2>3. TerminalHeld'
    BY ThreadsAreDistinct DEF IInv, Typed, InPlace, TerminalHeld
  <2>4. SizesAgree'
    BY ThreadsAreDistinct, Numbers DEF IInv, Typed, InPlace, TerminalHeld, SizesAgree
  <2>5. WriteHeld'
    BY ThreadsAreDistinct DEF IInv, Typed, InPlace, WriteHeld
  <2>6. Counted'
    BY ThreadsAreDistinct, Numbers DEF IInv, Typed, InPlace, Counted, LagsByOne
  <2> QED
    BY <2>1, <2>2, <2>3, <2>4, <2>5, <2>6 DEF IInv
<1>3. CASE BeginResize(t)
  <2> USE <1>3 DEF BeginResize, Call, Goto, programVars, kernelVars, writeVars, emulatorVars, attentionVars
  <2>1. Typed'
    BY ThreadsAreDistinct DEF IInv, Typed, Places
  <2>2. InPlace'
    BY ThreadsAreDistinct DEF IInv, Typed, InPlace
  <2>3. TerminalHeld'
    BY ThreadsAreDistinct DEF IInv, Typed, InPlace, TerminalHeld
  <2>4. SizesAgree'
    BY ThreadsAreDistinct, Numbers DEF IInv, Typed, InPlace, TerminalHeld, SizesAgree
  <2>5. WriteHeld'
    BY ThreadsAreDistinct DEF IInv, Typed, InPlace, WriteHeld
  <2>6. Counted'
    BY ThreadsAreDistinct, Numbers DEF IInv, Typed, InPlace, Counted, LagsByOne
  <2> QED
    BY <2>1, <2>2, <2>3, <2>4, <2>5, <2>6 DEF IInv
<1>4. CASE BeginList(t)
  <2> USE <1>4 DEF BeginList, Call, Goto, programVars, kernelVars, writeVars, emulatorVars, attentionVars
  <2>1. Typed'
    BY ThreadsAreDistinct DEF IInv, Typed, Places
  <2>2. InPlace'
    BY ThreadsAreDistinct DEF IInv, Typed, InPlace
  <2>3. TerminalHeld'
    BY ThreadsAreDistinct DEF IInv, Typed, InPlace, TerminalHeld
  <2>4. SizesAgree'
    BY ThreadsAreDistinct, Numbers DEF IInv, Typed, InPlace, TerminalHeld, SizesAgree
  <2>5. WriteHeld'
    BY ThreadsAreDistinct DEF IInv, Typed, InPlace, WriteHeld
  <2>6. Counted'
    BY ThreadsAreDistinct, Numbers DEF IInv, Typed, InPlace, Counted, LagsByOne
  <2> QED
    BY <2>1, <2>2, <2>3, <2>4, <2>5, <2>6 DEF IInv
<1>5. CASE Stop(t)
  <2> USE <1>5 DEF Stop, Call, Goto, programVars, kernelVars, writeVars, emulatorVars, attentionVars
  <2>1. Typed'
    BY ThreadsAreDistinct DEF IInv, Typed, Places
  <2>2. InPlace'
    BY ThreadsAreDistinct DEF IInv, Typed, InPlace
  <2>3. TerminalHeld'
    BY ThreadsAreDistinct DEF IInv, Typed, InPlace, TerminalHeld
  <2>4. SizesAgree'
    BY ThreadsAreDistinct, Numbers DEF IInv, Typed, InPlace, TerminalHeld, SizesAgree
  <2>5. WriteHeld'
    BY ThreadsAreDistinct DEF IInv, Typed, InPlace, WriteHeld
  <2>6. Counted'
    BY ThreadsAreDistinct, Numbers DEF IInv, Typed, InPlace, Counted, LagsByOne
  <2> QED
    BY <2>1, <2>2, <2>3, <2>4, <2>5, <2>6 DEF IInv
<1> QED
  BY <1>1, <1>2, <1>3, <1>4, <1>5 DEF Begin

\* A request goes on.
LEMMA CallerPreserves ==
  ASSUME IInv, NEW t \in Callers,
         \/ Submit(t) \/ SetSize(t) \/ Resized(t) \/ Compare(t) \/ Render(t)
         \/ Store(t) \/ StopRenders(t) \/ StopKills(t) \/ StopCloses(t)
  PROVE  IInv'
<1> USE DEF ThreadsAssumption, Threads
<1>1. CASE Submit(t)
  <2> USE <1>1 DEF Submit, BeginWrite, Goto, programVars, kernelVars, writeVars, emulatorVars, attentionVars
  <2>1. Typed'
    BY ThreadsAreDistinct, WrittenParts DEF IInv, Typed, Places
  <2>2. InPlace'
    BY ThreadsAreDistinct DEF IInv, Typed, InPlace
  <2>3. TerminalHeld'
    BY ThreadsAreDistinct DEF IInv, Typed, InPlace, TerminalHeld
  <2>4. SizesAgree'
    BY ThreadsAreDistinct, Numbers DEF IInv, Typed, InPlace, TerminalHeld, SizesAgree
  <2>5. WriteHeld'
    BY ThreadsAreDistinct DEF IInv, Typed, InPlace, WriteHeld
  <2>6. Counted'
    BY ThreadsAreDistinct, Numbers DEF IInv, Typed, InPlace, Counted, LagsByOne
  <2> QED
    BY <2>1, <2>2, <2>3, <2>4, <2>5, <2>6 DEF IInv
<1>2. CASE SetSize(t)
  <2> USE <1>2 DEF SetSize, Goto, programVars, kernelVars, writeVars, emulatorVars, attentionVars
  <2>1. Typed'
    BY SMTT(60), ThreadsAreDistinct DEF IInv, Typed, Places
  <2>2. InPlace'
    BY ThreadsAreDistinct DEF IInv, Typed, InPlace
  <2>3. TerminalHeld'
    BY ThreadsAreDistinct DEF IInv, Typed, InPlace, TerminalHeld
  <2>4. SizesAgree'
    BY ThreadsAreDistinct, Numbers DEF IInv, Typed, InPlace, TerminalHeld, SizesAgree
  <2>5. WriteHeld'
    BY ThreadsAreDistinct DEF IInv, Typed, InPlace, WriteHeld
  <2>6. Counted'
    BY ThreadsAreDistinct, Numbers DEF IInv, Typed, InPlace, Counted, LagsByOne
  <2> QED
    BY <2>1, <2>2, <2>3, <2>4, <2>5, <2>6 DEF IInv
<1>3. CASE Resized(t)
  <2> USE <1>3 DEF Resized, Goto, programVars, kernelVars, writeVars, emulatorVars, attentionVars
  <2>1. Typed'
    BY ThreadsAreDistinct DEF IInv, Typed, Places
  <2>2. InPlace'
    BY ThreadsAreDistinct DEF IInv, Typed, InPlace
  <2>3. TerminalHeld'
    BY ThreadsAreDistinct DEF IInv, Typed, InPlace, TerminalHeld
  <2>4. SizesAgree'
    BY ThreadsAreDistinct, Numbers DEF IInv, Typed, InPlace, TerminalHeld, SizesAgree
  <2>5. WriteHeld'
    BY ThreadsAreDistinct DEF IInv, Typed, InPlace, WriteHeld
  <2>6. Counted'
    BY ThreadsAreDistinct, Numbers DEF IInv, Typed, InPlace, Counted, LagsByOne
  <2> QED
    BY <2>1, <2>2, <2>3, <2>4, <2>5, <2>6 DEF IInv
<1>4. CASE Compare(t)
  <2> USE <1>4 DEF Compare, Goto, programVars, kernelVars, writeVars, emulatorVars, attentionVars
  <2>1. Typed'
    <3>1. cache.screen \in Nat /\ found[t] \in Findings
      BY Numbers DEF IInv, Typed
    <3>2. [found[t] EXCEPT !.screen = cache.screen] \in Findings
      BY <3>1 DEF Findings
    <3>3. found' \in [Callers -> Findings]
      BY <3>2 DEF IInv, Typed
    <3> QED
      BY <3>3, ThreadsAreDistinct DEF IInv, Typed, Places
  <2>2. InPlace'
    BY ThreadsAreDistinct DEF IInv, Typed, InPlace
  <2>3. TerminalHeld'
    BY ThreadsAreDistinct DEF IInv, Typed, InPlace, TerminalHeld
  <2>4. SizesAgree'
    BY ThreadsAreDistinct, Numbers DEF IInv, Typed, InPlace, TerminalHeld, SizesAgree
  <2>5. WriteHeld'
    BY ThreadsAreDistinct DEF IInv, Typed, InPlace, WriteHeld
  <2>6. Counted'
    <3>1. CASE cache.valid /\ cache.sequence = found[t].sequence
      <4>1. found'[t].sequence = found[t].sequence /\ found'[t].screen = cache.screen
        BY <3>1 DEF IInv, Typed, Findings
      <4>2. \A u \in Callers \ {t} : found'[u] = found[u] /\ at'[u] = at[u]
        BY <3>1 DEF IInv, Typed
      <4>3. at'[t] = "store" /\ at'[Reader] = at[Reader]
        BY <3>1, ThreadsAreDistinct DEF IInv, Typed
      <4> QED
        BY <3>1, <4>1, <4>2, <4>3, Numbers DEF IInv, Counted, LagsByOne
    <3>2. CASE ~(cache.valid /\ cache.sequence = found[t].sequence)
      BY <3>2, ThreadsAreDistinct, Numbers DEF IInv, Typed, InPlace, Counted, LagsByOne
    <3> QED
      BY <3>1, <3>2
  <2> QED
    BY <2>1, <2>2, <2>3, <2>4, <2>5, <2>6 DEF IInv
<1>5. CASE Render(t)
  <2> USE <1>5 DEF Render, Goto, programVars, kernelVars, writeVars, emulatorVars, attentionVars
  <2>1. Typed'
    BY ZenonT(60), ThreadsAreDistinct DEF IInv, Typed, Places, Findings, Caches
  <2>2. InPlace'
    BY ThreadsAreDistinct DEF IInv, Typed, InPlace
  <2>3. TerminalHeld'
    BY ThreadsAreDistinct DEF IInv, Typed, InPlace, TerminalHeld
  <2>4. SizesAgree'
    BY ThreadsAreDistinct, Numbers DEF IInv, Typed, InPlace, TerminalHeld, SizesAgree
  <2>5. WriteHeld'
    BY ThreadsAreDistinct DEF IInv, Typed, InPlace, WriteHeld
  <2>6. Counted'
    BY ThreadsAreDistinct, Numbers DEF IInv, Typed, InPlace, Counted, LagsByOne
  <2> QED
    BY <2>1, <2>2, <2>3, <2>4, <2>5, <2>6 DEF IInv
<1>6. CASE Store(t)
  <2> USE <1>6 DEF Store, NotFound, Goto, programVars, kernelVars, writeVars, emulatorVars, attentionVars
  <2>1. Typed'
    BY ThreadsAreDistinct DEF IInv, Typed, Places, Findings, Caches
  <2>2. InPlace'
    BY ThreadsAreDistinct DEF IInv, Typed, InPlace
  <2>3. TerminalHeld'
    BY ThreadsAreDistinct DEF IInv, Typed, InPlace, TerminalHeld
  <2>4. SizesAgree'
    BY ThreadsAreDistinct, Numbers DEF IInv, Typed, InPlace, TerminalHeld, SizesAgree
  <2>5. WriteHeld'
    BY ThreadsAreDistinct DEF IInv, Typed, InPlace, WriteHeld
  <2>6. Counted'
    BY ThreadsAreDistinct, Numbers DEF IInv, Typed, InPlace, Counted, LagsByOne
  <2> QED
    BY <2>1, <2>2, <2>3, <2>4, <2>5, <2>6 DEF IInv
<1>7. CASE StopRenders(t)
  <2> USE <1>7 DEF StopRenders, Goto, programVars, kernelVars, writeVars, emulatorVars, attentionVars
  <2>1. Typed'
    BY ThreadsAreDistinct DEF IInv, Typed, Places
  <2>2. InPlace'
    BY ThreadsAreDistinct DEF IInv, Typed, InPlace
  <2>3. TerminalHeld'
    BY ThreadsAreDistinct DEF IInv, Typed, InPlace, TerminalHeld
  <2>4. SizesAgree'
    BY ThreadsAreDistinct, Numbers DEF IInv, Typed, InPlace, TerminalHeld, SizesAgree
  <2>5. WriteHeld'
    BY ThreadsAreDistinct DEF IInv, Typed, InPlace, WriteHeld
  <2>6. Counted'
    BY ThreadsAreDistinct, Numbers DEF IInv, Typed, InPlace, Counted, LagsByOne
  <2> QED
    BY <2>1, <2>2, <2>3, <2>4, <2>5, <2>6 DEF IInv
<1>8. CASE StopKills(t)
  <2> USE <1>8 DEF StopKills, Dies, Goto, programVars, kernelVars, writeVars, emulatorVars, attentionVars
  <2>1. Typed'
    BY ThreadsAreDistinct DEF IInv, Typed, Places
  <2>2. InPlace'
    BY ThreadsAreDistinct DEF IInv, Typed, InPlace
  <2>3. TerminalHeld'
    BY ThreadsAreDistinct DEF IInv, Typed, InPlace, TerminalHeld
  <2>4. SizesAgree'
    BY ThreadsAreDistinct, Numbers DEF IInv, Typed, InPlace, TerminalHeld, SizesAgree
  <2>5. WriteHeld'
    BY ThreadsAreDistinct DEF IInv, Typed, InPlace, WriteHeld
  <2>6. Counted'
    BY ThreadsAreDistinct, Numbers DEF IInv, Typed, InPlace, Counted, LagsByOne
  <2> QED
    BY <2>1, <2>2, <2>3, <2>4, <2>5, <2>6 DEF IInv
<1>9. CASE StopCloses(t)
  <2> USE <1>9 DEF StopCloses, Goto, programVars, kernelVars, writeVars, emulatorVars, attentionVars
  <2>1. Typed'
    BY ThreadsAreDistinct DEF IInv, Typed, Places
  <2>2. InPlace'
    BY ThreadsAreDistinct DEF IInv, Typed, InPlace
  <2>3. TerminalHeld'
    BY ThreadsAreDistinct DEF IInv, Typed, InPlace, TerminalHeld
  <2>4. SizesAgree'
    BY ThreadsAreDistinct, Numbers DEF IInv, Typed, InPlace, TerminalHeld, SizesAgree
  <2>5. WriteHeld'
    BY ThreadsAreDistinct DEF IInv, Typed, InPlace, WriteHeld
  <2>6. Counted'
    BY ThreadsAreDistinct, Numbers DEF IInv, Typed, InPlace, Counted, LagsByOne
  <2> QED
    BY <2>1, <2>2, <2>3, <2>4, <2>5, <2>6 DEF IInv
<1> QED
  BY <1>1, <1>2, <1>3, <1>4, <1>5, <1>6, <1>7, <1>8, <1>9

\* waitForExit.
LEMMA WaiterPreserves ==
  ASSUME IInv, WaitReturns \/ WaiterRenders \/ WaiterSets
  PROVE  IInv'
<1> USE DEF ThreadsAssumption, Threads
<1>1. CASE WaitReturns
  <2> USE <1>1 DEF WaitReturns, Goto, programVars, kernelVars, writeVars, emulatorVars, attentionVars
  <2>1. Typed'
    BY ThreadsAreDistinct DEF IInv, Typed, Places
  <2>2. InPlace'
    BY ThreadsAreDistinct DEF IInv, Typed, InPlace
  <2>3. TerminalHeld'
    BY ThreadsAreDistinct DEF IInv, Typed, InPlace, TerminalHeld
  <2>4. SizesAgree'
    BY ThreadsAreDistinct, Numbers DEF IInv, Typed, InPlace, TerminalHeld, SizesAgree
  <2>5. WriteHeld'
    BY ThreadsAreDistinct DEF IInv, Typed, InPlace, WriteHeld
  <2>6. Counted'
    BY ThreadsAreDistinct, Numbers DEF IInv, Typed, InPlace, Counted, LagsByOne
  <2> QED
    BY <2>1, <2>2, <2>3, <2>4, <2>5, <2>6 DEF IInv
<1>2. CASE WaiterRenders
  <2> USE <1>2 DEF WaiterRenders, Goto, programVars, kernelVars, writeVars, emulatorVars, attentionVars
  <2>1. Typed'
    BY ThreadsAreDistinct DEF IInv, Typed, Places
  <2>2. InPlace'
    BY ThreadsAreDistinct DEF IInv, Typed, InPlace
  <2>3. TerminalHeld'
    BY ThreadsAreDistinct DEF IInv, Typed, InPlace, TerminalHeld
  <2>4. SizesAgree'
    BY ThreadsAreDistinct, Numbers DEF IInv, Typed, InPlace, TerminalHeld, SizesAgree
  <2>5. WriteHeld'
    BY ThreadsAreDistinct DEF IInv, Typed, InPlace, WriteHeld
  <2>6. Counted'
    BY ThreadsAreDistinct, Numbers DEF IInv, Typed, InPlace, Counted, LagsByOne
  <2> QED
    BY <2>1, <2>2, <2>3, <2>4, <2>5, <2>6 DEF IInv
<1>3. CASE WaiterSets
  <2> USE <1>3 DEF WaiterSets, Goto, programVars, kernelVars, writeVars, emulatorVars, attentionVars
  <2>1. Typed'
    BY ThreadsAreDistinct DEF IInv, Typed, Places
  <2>2. InPlace'
    BY ThreadsAreDistinct DEF IInv, Typed, InPlace
  <2>3. TerminalHeld'
    BY ThreadsAreDistinct DEF IInv, Typed, InPlace, TerminalHeld
  <2>4. SizesAgree'
    BY ThreadsAreDistinct, Numbers DEF IInv, Typed, InPlace, TerminalHeld, SizesAgree
  <2>5. WriteHeld'
    BY ThreadsAreDistinct DEF IInv, Typed, InPlace, WriteHeld
  <2>6. Counted'
    BY ThreadsAreDistinct, Numbers DEF IInv, Typed, InPlace, Counted, LagsByOne
  <2> QED
    BY <2>1, <2>2, <2>3, <2>4, <2>5, <2>6 DEF IInv
<1> QED
  BY <1>1, <1>2, <1>3

\* Every step keeps the invariant.
LEMMA NextPreserves == ASSUME IInv, [Next]_vars PROVE IInv'
<1>1. CASE UNCHANGED vars
  BY <1>1 DEF vars, programVars, kernelVars, writeVars, emulatorVars, attentionVars, IInv,
     Typed, InPlace, TerminalHeld, SizesAgree, WriteHeld, Counted, LagsByOne
<1>2. CASE Program
  BY <1>2, ProgramPreserves
<1>3. CASE \E t \in Callers : Begin(t)
  BY <1>3, BeginPreserves
<1>4. ASSUME NEW t \in Threads, Locks(t) \/ Goes(t) PROVE IInv'
  BY <1>4, WritePreserves, ReaderPreserves, CallerPreserves, WaiterPreserves DEF Locks, Goes
<1> QED
  BY <1>1, <1>2, <1>3, <1>4 DEF Next

\* The inductive invariant holds in every reachable state.
LEMMA Invariance == Spec => []IInv
  BY InitEstablishes, NextPreserves, PTL DEF Spec

-----------------------------------------------------------------------------
\* However requests, attachments and the answers of the emulator meet, a paste
\* reaches the program in one piece (write 515-523).
THEOREM WritesAreWhole == Spec => PasteWhole
<1> DEFINE Whole == last'.part > 1 /\ last' # last => last = [last' EXCEPT !.part = @ - 1]
<1>1. ASSUME IInv, [Next]_vars PROVE Whole
  <2>1. ASSUME NEW t \in Threads, HandOver(t) PROVE Whole
    <3>1. \/ rest[t] \in {Key(t), Long(t)}
          \/ rest[t] = <<Part(t, 2)>> /\ last = Part(t, 1)
      <4>1. at[t] = "writing"
        BY <2>1 DEF HandOver
      <4> QED
        BY <1>1, <4>1 DEF IInv, WriteHeld
    <3>2. CASE rest[t] \in {Key(t), Long(t)}
      <4>1. Head(rest[t]).part = 1
        BY <3>2 DEF Key, Long, Part
      <4> QED
        BY <2>1, <4>1 DEF HandOver
    <3>3. CASE rest[t] = <<Part(t, 2)>> /\ last = Part(t, 1)
      <4>1. last' = Part(t, 2)
        BY <2>1, <3>3 DEF HandOver
      <4> QED
        BY <3>3, <4>1 DEF Part
    <3> QED
      BY <3>1, <3>2, <3>3
  <2>2. ASSUME last' = last PROVE Whole
    BY <2>2
  <2>3. last' = last \/ \E t \in Threads : HandOver(t)
    BY <1>1 DEF Next, Program, WantsToPrint, Prints, TakesInput, Exits, JobEnds, Begin, Call,
       SendKey, Send, BeginResize, BeginList, Stop, Locks, Goes, TakeWriteMu, WriteFails,
       Submit, SetSize, Resized, Compare, Render, Store, StopRenders, StopKills, StopCloses,
       Read, Interpret, Interpreted, ReadEnds, WaitReturns, WaiterRenders, WaiterSets, vars,
       kernelVars
  <2> QED
    BY <2>1, <2>2, <2>3
<1> QED
  BY <1>1, Invariance, PTL DEF Spec, PasteWhole

\* What a program prints for a size it was told of is interpreted with it
\* (Resize 336-344, readOutput 551).
THEOREM OutputFitsItsSize == Spec => SizeNotBehind
<1> DEFINE Fits == screen' # screen => chunk.size <= termSize
<1>1. ASSUME IInv, [Next]_vars PROVE Fits
  <2>1. ASSUME Interpret PROVE Fits
    <3>1. terminalMu = Free /\ \A t \in Callers : t # Free
      BY <2>1, ThreadsAreDistinct DEF Interpret, ThreadsAssumption, Threads
    <3>2. termSize = ptySize
      BY <1>1, <3>1 DEF IInv, TerminalHeld, SizesAgree
    <3> QED
      BY <1>1, <3>2 DEF IInv, SizesAgree
  <2>2. screen' = screen \/ Interpret
    BY <1>1 DEF Next, Program, WantsToPrint, Prints, TakesInput, Exits, JobEnds, Begin, Call,
       SendKey, Send, BeginResize, BeginList, Stop, Locks, Goes, TakeWriteMu, HandOver,
       WriteFails, Submit, SetSize, Resized, Compare, Render, Store, StopRenders, StopKills,
       StopCloses, Read, Interpreted, ReadEnds, WaitReturns, WaiterRenders, WaiterSets, vars,
       emulatorVars
  <2> QED
    BY <2>1, <2>2
<1> QED
  BY <1>1, Invariance, PTL DEF Spec, SizeNotBehind

\* An attention state that passes for fresh lags by one chunk at most, whatever
\* requests refresh it at once (refreshAttention 71-93).
THEOREM FreshLagsByOne == Spec => []LagsByOne
<1>1. IInv => LagsByOne
  BY DEF IInv, Counted
<1> QED
  BY <1>1, Invariance, PTL
================================================================================
