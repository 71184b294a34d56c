---------------------------- MODULE SessionTerminal ----------------------------
(***************************************************************************)
(* What the goroutines of one live session share: the PTY, the terminal    *)
(* emulator behind terminalMu, the way to the PTY's input behind writeMu,  *)
(* and the cached attention state (internal/session/manager.go, shell.go). *)
(*                                                                         *)
(* The reader interprets output under terminalMu, and answers a query in   *)
(* it with a write of its own while it holds that lock.  The kernel keeps  *)
(* only so much input and output for a program that does not take it.      *)
(* The sections under stateMu and outputMu call nothing that waits and are *)
(* single steps.  What a transcript or an attention state says is left out: *)
(* `screen`, the number of chunks interpreted, stands for what both are made *)
(* from.  Attachments' output is SessionOutput's.                          *)
(***************************************************************************)
EXTENDS Naturals, Sequences

CONSTANTS
  Callers,     \* requests, one goroutine each
  Reader,      \* the goroutine of readOutput
  Waiter,      \* the goroutine of waitForExit
  Free,        \* nobody
  InputRoom,   \* parts of input the kernel keeps for the program
  OutputRoom,  \* chunks of output it keeps for the reader
  MaxChunks    \* bound of the model: chunks printed

Threads == Callers \cup {Reader, Waiter}

ThreadsAssumption ==
  Reader # Waiter /\ {Reader, Waiter} \cap Callers = {} /\ Free \notin Threads
ASSUME ThreadsAreDistinct == ThreadsAssumption

VARIABLES
  child,      \* the session's process: alive or dead
  job,        \* whether a job it left behind keeps the terminal open
  printing,   \* what the program is about to print, if anything
  outbox,     \* output the kernel holds
  input,      \* parts of input the kernel holds for the program
  last,       \* history: the part it took last
  ptyOpen,    \* the session's side of the PTY is open
  ptySize,    \* how often the PTY was given a size
  termSize,   \* which of these sizes the emulator has
  status,     \* record.Status
  at,         \* where each thread is
  rest,       \* the parts its write() has yet to hand over
  after,      \* where it goes on when they are written
  writeMu, terminalMu,  \* who holds the locks
  chunk,      \* the chunk the reader has read
  outputSequence,
  screen,     \* chunks the emulator has interpreted
  cache,      \* attentionValid, attentionSequence and the screen it is about
  found,      \* refreshAttention's sequence and the screen it judged
  printed     \* chunks printed

programVars == <<child, job, printing, printed>>
kernelVars == <<outbox, input, last, ptyOpen, ptySize>>
writeVars == <<rest, after>>
emulatorVars == <<termSize, screen, chunk, outputSequence>>
attentionVars == <<cache, found>>
vars == <<programVars, kernelVars, emulatorVars, attentionVars, status, at, writeVars,
          writeMu, terminalMu>>

NoChunk == [query |-> FALSE, size |-> 0]
Full == input >= InputRoom
NotFound == [sequence |-> 0, screen |-> 0]
NoPart == [by |-> Free, part |-> 0]
\* Somebody has the program's side of the terminal open.
OtherSide == child = "alive" \/ job

Init ==
  /\ child = "alive" /\ job = FALSE
  /\ printing = "nothing" /\ printed = 0
  /\ outbox = <<>> /\ input = 0 /\ last = NoPart /\ ptyOpen = TRUE
  /\ ptySize = 1 /\ termSize = 1
  /\ status = "running"
  /\ at = [t \in Threads |-> IF t = Reader THEN "reading"
                             ELSE IF t = Waiter THEN "waiting" ELSE "idle"]
  /\ rest = [t \in Threads |-> <<>>] /\ after = [t \in Threads |-> "done"]
  /\ writeMu = Free /\ terminalMu = Free
  /\ chunk = NoChunk /\ outputSequence = 0 /\ screen = 0
  /\ cache = [valid |-> FALSE, sequence |-> 0, screen |-> 0]
  /\ found = [t \in Callers |-> NotFound]

Goto(t, place) == at' = [at EXCEPT ![t] = place]

-----------------------------------------------------------------------------
(* The program in the session.  It does one thing at a time: while its output *)
(* finds no room it reads nothing, and nobody can tell when it reads at all.  *)

WantsToPrint ==
  /\ child = "alive" /\ printing = "nothing" /\ printed < MaxChunks
  /\ printing' \in {"text", "query"}
  /\ printed' = printed + 1
  /\ UNCHANGED <<child, job, kernelVars, emulatorVars, attentionVars, status, at, writeVars,
                 writeMu, terminalMu>>

Prints ==
  /\ child = "alive" /\ printing # "nothing" /\ Len(outbox) < OutputRoom
  /\ outbox' = Append(outbox, [query |-> printing = "query", size |-> ptySize])
  /\ printing' = "nothing"
  /\ UNCHANGED <<child, job, printed, input, last, ptyOpen, ptySize, emulatorVars,
                 attentionVars, status, at, writeVars, writeMu, terminalMu>>

TakesInput ==
  /\ child = "alive" /\ printing = "nothing" /\ input > 0
  /\ input' = input - 1
  /\ UNCHANGED <<programVars, outbox, last, ptyOpen, ptySize, emulatorVars,
                 attentionVars, status, at, writeVars, writeMu, terminalMu>>

Dies == child' = "dead" /\ printing' = "nothing"

Exits ==
  /\ child = "alive"
  /\ Dies /\ job' \in BOOLEAN
  /\ UNCHANGED <<printed, kernelVars, emulatorVars, attentionVars, status, at, writeVars,
                 writeMu, terminalMu>>

JobEnds ==
  /\ child = "dead" /\ job
  /\ job' = FALSE
  /\ UNCHANGED <<child, printing, printed, kernelVars, emulatorVars, attentionVars,
                 status, at, writeVars, writeMu, terminalMu>>

-----------------------------------------------------------------------------
(* write(): one at a time, for as long as it takes. *)

Part(t, i) == [by |-> t, part |-> i]
Key(t) == <<Part(t, 1)>>
Long(t) == <<Part(t, 1), Part(t, 2)>>

BeginWrite(t, parts, next) ==
  /\ rest' = [rest EXCEPT ![t] = parts]
  /\ after' = [after EXCEPT ![t] = next]
  /\ Goto(t, "write")

\* Mutant of TakeWriteMu: write() without its lock.
WriteUnlocked(t) ==
  /\ at[t] = "write"
  /\ Goto(t, "writing")
  /\ UNCHANGED <<programVars, kernelVars, emulatorVars, attentionVars, status, writeVars,
                 writeMu, terminalMu>>
TakeWriteMu(t) ==
  /\ at[t] = "write" /\ writeMu = Free
  /\ writeMu' = t
  /\ Goto(t, "writing")
  /\ UNCHANGED <<programVars, kernelVars, emulatorVars, attentionVars, status, writeVars,
                 terminalMu>>

\* The kernel takes what fits, the rest waits for the program; with the last part
\* the write returns.
HandOver(t) ==
  /\ at[t] = "writing" /\ ptyOpen /\ OtherSide /\ ~Full
  /\ input' = input + 1 /\ last' = Head(rest[t])
  /\ rest' = [rest EXCEPT ![t] = Tail(@)]
  /\ IF Len(rest[t]) > 1
       THEN UNCHANGED <<at, after, writeMu>>
       ELSE /\ writeMu' = Free
            /\ Goto(t, after[t])
            /\ after' = [after EXCEPT ![t] = "done"]
  /\ UNCHANGED <<programVars, outbox, ptyOpen, ptySize, emulatorVars, attentionVars,
                 status, terminalMu>>

\* The terminal is gone: a caller returns the error, the emulator does not see it.
WriteFails(t) ==
  /\ at[t] = "writing"
  /\ ~ptyOpen \/ ~OtherSide
  /\ writeMu' = Free
  /\ rest' = [rest EXCEPT ![t] = <<>>]
  /\ after' = [after EXCEPT ![t] = "done"]
  /\ Goto(t, IF t = Reader THEN "parsed" ELSE "done")
  /\ UNCHANGED <<programVars, kernelVars, emulatorVars, attentionVars, status,
                 terminalMu>>

-----------------------------------------------------------------------------
(* readOutput *)

Read ==
  /\ at[Reader] = "reading" /\ ptyOpen /\ outbox # <<>>
  /\ chunk' = Head(outbox) /\ outbox' = Tail(outbox)
  /\ outputSequence' = outputSequence + 1
  /\ Goto(Reader, "interpret")
  /\ UNCHANGED <<programVars, input, last, ptyOpen, ptySize, termSize, screen,
                 attentionVars, status, writeVars, writeMu, terminalMu>>

\* terminal.Write, which calls OnData for an answer before it returns.
Interpret ==
  /\ at[Reader] = "interpret" /\ terminalMu = Free
  /\ terminalMu' = Reader
  /\ screen' = screen + 1
  /\ IF chunk.query
       THEN BeginWrite(Reader, Long(Reader), "parsed")
       ELSE Goto(Reader, "parsed") /\ UNCHANGED writeVars
  /\ UNCHANGED <<programVars, kernelVars, termSize, chunk, outputSequence,
                 attentionVars, status, writeMu>>

\* Mutant of Interpreted: the lock is kept for the next chunk.
InterpretedKeeps ==
  /\ at[Reader] = "parsed"
  /\ chunk' = NoChunk
  /\ Goto(Reader, "reading")
  /\ UNCHANGED <<programVars, kernelVars, termSize, screen, outputSequence,
                 attentionVars, status, writeVars, writeMu, terminalMu>>
Interpreted ==
  /\ at[Reader] = "parsed"
  /\ terminalMu' = Free
  /\ chunk' = NoChunk
  /\ Goto(Reader, "reading")
  /\ UNCHANGED <<programVars, kernelVars, termSize, screen, outputSequence,
                 attentionVars, status, writeVars, writeMu>>

\* Its own side or the other one is closed.
ReadEnds ==
  /\ at[Reader] = "reading"
  /\ ~ptyOpen \/ (outbox = <<>> /\ ~OtherSide)
  /\ ptyOpen' = FALSE
  /\ Goto(Reader, "ended")
  /\ UNCHANGED <<programVars, outbox, input, last, ptySize, emulatorVars,
                 attentionVars, status, writeVars, writeMu, terminalMu>>

-----------------------------------------------------------------------------
(* Calls. *)

Call(t) ==
  /\ at[t] = "idle"
  /\ UNCHANGED <<programVars, kernelVars, emulatorVars, attentionVars, status,
                 writeMu, terminalMu>>

\* SendKey, and WriteRaw of an attachment.
SendKey(t) ==
  /\ Call(t) /\ status = "running"
  /\ BeginWrite(t, Key(t), "done")

\* Send: a paste in its brackets, and after a pause the return key.
Send(t) ==
  /\ Call(t) /\ status = "running"
  /\ BeginWrite(t, Long(t), "pause")

Submit(t) ==
  /\ at[t] = "pause"
  /\ BeginWrite(t, Key(t), "done")
  /\ UNCHANGED <<programVars, kernelVars, emulatorVars, attentionVars, status,
                 writeMu, terminalMu>>

BeginResize(t) ==
  /\ Call(t) /\ status = "running"
  /\ Goto(t, "resize")
  /\ UNCHANGED writeVars

\* Mutant of SetSize: the lock is taken for the emulator alone.
SetSizeUnlocked(t) ==
  /\ at[t] = "resize" /\ ptyOpen
  /\ ptySize' = ptySize + 1
  /\ Goto(t, "sized")
  /\ UNCHANGED <<programVars, outbox, input, last, ptyOpen, emulatorVars, terminalMu,
                 attentionVars, status, writeVars, writeMu>>
\* Resize holds the emulator's lock from before the program is told.
SetSize(t) ==
  /\ at[t] = "resize" /\ terminalMu = Free
  /\ IF ptyOpen
       THEN /\ terminalMu' = t /\ ptySize' = ptySize + 1
            /\ Goto(t, "sized")
       ELSE /\ Goto(t, "done")
            /\ UNCHANGED <<terminalMu, ptySize>>
  /\ UNCHANGED <<programVars, outbox, input, last, ptyOpen, emulatorVars,
                 attentionVars, status, writeVars, writeMu>>

Resized(t) ==
  /\ at[t] = "sized"
  /\ termSize' = ptySize
  /\ terminalMu' = Free
  /\ Goto(t, "done")
  /\ UNCHANGED <<programVars, kernelVars, screen, chunk, outputSequence,
                 attentionVars, status, writeVars, writeMu>>

\* List: refreshAttention reads the count of chunks, and then the cache.
BeginList(t) ==
  /\ Call(t)
  /\ found' = [found EXCEPT ![t].sequence = outputSequence]
  /\ Goto(t, "compare")
  /\ UNCHANGED <<writeVars, cache>>

Compare(t) ==
  /\ at[t] = "compare"
  /\ IF cache.valid /\ cache.sequence = found[t].sequence
       THEN /\ found' = [found EXCEPT ![t].screen = cache.screen]
            /\ Goto(t, "store")
       ELSE /\ Goto(t, "render")
            /\ UNCHANGED found
  /\ UNCHANGED <<programVars, kernelVars, emulatorVars, cache, status, writeVars,
                 writeMu, terminalMu>>

\* renderedTranscript, and the judgement of what it shows.
Render(t) ==
  /\ at[t] = "render" /\ terminalMu = Free
  /\ found' = [found EXCEPT ![t].screen = screen]
  /\ Goto(t, "store")
  /\ UNCHANGED <<programVars, kernelVars, emulatorVars, cache, status, writeVars,
                 writeMu, terminalMu>>

\* Mutant of Store: the answer is kept under the count of chunks by now.
StoreLate(t) ==
  /\ at[t] = "store"
  /\ cache' = [valid |-> TRUE, sequence |-> outputSequence, screen |-> found[t].screen]
  /\ found' = [found EXCEPT ![t] = NotFound]
  /\ Goto(t, "done")
  /\ UNCHANGED <<programVars, kernelVars, emulatorVars, status, writeVars,
                 writeMu, terminalMu>>
Store(t) ==
  /\ at[t] = "store"
  /\ cache' = [valid |-> TRUE, sequence |-> found[t].sequence, screen |-> found[t].screen]
  /\ found' = [found EXCEPT ![t] = NotFound]
  /\ Goto(t, "done")
  /\ UNCHANGED <<programVars, kernelVars, emulatorVars, status, writeVars,
                 writeMu, terminalMu>>

Stop(t) ==
  /\ Call(t) /\ status = "running"
  /\ Goto(t, "stopRender")
  /\ UNCHANGED writeVars

StopRenders(t) ==
  /\ at[t] = "stopRender" /\ terminalMu = Free
  /\ Goto(t, "kill")
  /\ UNCHANGED <<programVars, kernelVars, emulatorVars, attentionVars, status, writeVars,
                 writeMu, terminalMu>>

StopKills(t) ==
  /\ at[t] = "kill"
  /\ Dies
  /\ job' \in IF child = "alive" THEN BOOLEAN ELSE {job}
  /\ Goto(t, "setStopped")
  /\ UNCHANGED <<printed, kernelVars, emulatorVars, attentionVars, status, writeVars,
                 writeMu, terminalMu>>

\* Mutant of StopCloses: the PTY is left to the reader.
StopForgets(t) ==
  /\ at[t] = "setStopped"
  /\ status' = "stopped"
  /\ Goto(t, "done")
  /\ UNCHANGED <<programVars, kernelVars, emulatorVars, attentionVars, writeVars,
                 writeMu, terminalMu>>
\* The status keeps new requests out and the closing ends a read or a write that
\* waits; for a request that is under way it is all one.
StopCloses(t) ==
  /\ at[t] = "setStopped"
  /\ status' = "stopped"
  /\ ptyOpen' = FALSE
  /\ Goto(t, "done")
  /\ UNCHANGED <<programVars, outbox, input, last, ptySize, emulatorVars,
                 attentionVars, writeVars, writeMu, terminalMu>>

-----------------------------------------------------------------------------
(* waitForExit *)

WaitReturns ==
  /\ at[Waiter] = "waiting" /\ child = "dead"
  /\ Goto(Waiter, IF status = "running" THEN "waiterRender" ELSE "done")
  /\ UNCHANGED <<programVars, kernelVars, emulatorVars, attentionVars, status, writeVars,
                 writeMu, terminalMu>>

WaiterRenders ==
  /\ at[Waiter] = "waiterRender" /\ terminalMu = Free
  /\ Goto(Waiter, "setEnded")
  /\ UNCHANGED <<programVars, kernelVars, emulatorVars, attentionVars, status, writeVars,
                 writeMu, terminalMu>>

WaiterSets ==
  /\ at[Waiter] = "setEnded"
  /\ status' = "ended"
  /\ Goto(Waiter, "done")
  /\ UNCHANGED <<programVars, kernelVars, emulatorVars, attentionVars, writeVars, writeMu,
                 terminalMu>>

-----------------------------------------------------------------------------
Program == WantsToPrint \/ Prints \/ TakesInput \/ Exits \/ JobEnds

Begin(t) == SendKey(t) \/ Send(t) \/ BeginResize(t) \/ BeginList(t) \/ Stop(t)

\* Steps that wait for a lock.
Locks(t) ==
  \/ TakeWriteMu(t)
  \/ t \in Callers /\ (SetSize(t) \/ Render(t) \/ StopRenders(t))
  \/ t = Reader /\ Interpret
  \/ t = Waiter /\ WaiterRenders

\* Steps that wait for no other goroutine.
Goes(t) ==
  \/ HandOver(t) \/ WriteFails(t)
  \/ /\ t \in Callers
     /\ \/ Submit(t) \/ Resized(t) \/ Compare(t) \/ Store(t)
        \/ StopKills(t) \/ StopCloses(t)
  \/ t = Reader /\ (Read \/ Interpreted \/ ReadEnds)
  \/ t = Waiter /\ (WaitReturns \/ WaiterSets)

Next ==
  \/ Program
  \/ \E t \in Callers : Begin(t)
  \/ \E t \in Threads : Locks(t) \/ Goes(t)

\* A goroutine that can go on does, and the kernel passes output on.  When the
\* program reads or ends is its own affair.  That a sync.Mutex hands over to whoever
\* starves is not needed here, since every request takes its locks a few times.
Spec ==
  /\ Init /\ [][Next]_vars
  /\ \A t \in Threads : WF_vars(Locks(t)) /\ WF_vars(Goes(t))
  /\ WF_vars(Prints)

-----------------------------------------------------------------------------
(* Properties *)

\* PasteWhole: what one write hands over reaches the program in one piece, and the
\* answers of the emulator never land inside a bracketed paste (write 515-523).
PasteWhole ==
  [][last'.part > 1 /\ last' # last => last = [last' EXCEPT !.part = @ - 1]]_vars

\* SizeNotBehind: what the program prints after it was told of a new size is never
\* interpreted with an older one (Resize 329-345).
SizeNotBehind ==
  [][screen' # screen => chunk.size <= termSize]_vars

\* LagsByOne: an attention state that passes for fresh is about a screen that lacks
\* one chunk at most, however output and refreshes interleave (refreshAttention
\* 71-93, readOutput 535-553).
LagsByOne == cache.valid => cache.screen + 1 >= cache.sequence

\* The reader holds the emulator's lock and waits for the program.
Stuck == at[Reader] \in {"write", "writing"} /\ Full
WantsTerminal == {"interpret", "resize", "render", "stopRender", "waiterRender"}

\* TerminalIsShared: whoever waits for the emulator gets it, as long as the program
\* takes its input in from time to time or goes: Stop and waitForExit come through
\* (readOutput 551-554, Stop 401, waitForExit 630).
TerminalIsShared ==
  []<>~Stuck => []<>(\A t \in Threads : at[t] \notin WantsTerminal)

\* StoppedLetsGo: once a session is stopped, its reader ends and no caller goes on
\* waiting for it, even when a job keeps the terminal open (Stop 407-411).
StoppedLetsGo ==
  status = "stopped" ~>
    at[Reader] = "ended" /\ \A t \in Callers : at[t] \notin {"write", "writing"}
================================================================================
