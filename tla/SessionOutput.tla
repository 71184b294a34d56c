----------------------------- MODULE SessionOutput -----------------------------
(***************************************************************************)
(* One running session of falknd and everything that shares its output:    *)
(* readOutput, Attach and detach, the handlers of the attached clients,    *)
(* Stop, waitForExit, the notification mute and a restart of the daemon    *)
(* (internal/session/shell.go and manager.go).                             *)
(*                                                                         *)
(* A PTY read returns one chunk; chunks are numbered as they are published,*)
(* and a text is the number of chunks it shows.  An attachment's queue and *)
(* its client are the stream that OrderedStream promises and that          *)
(* OutputSubscriber implements.  Files are SessionManager's matter: here a *)
(* save is part of the step before it.                                     *)
(***************************************************************************)
EXTENDS Naturals, FiniteSets, Sequences

CONSTANTS
  Clients,      \* attach requests, each made once
  Window,       \* maxTranscriptBytes: the ring, and a client's backlog
  MaxChunks,    \* bound of the model: chunks falknd reads
  MaxMutes      \* bound of the model: changes of the mute

ASSUME WindowAssumption == Window \in Nat \ {0}
ASSUME BoundsAssumption == MaxChunks \in Nat /\ MaxMutes \in Nat

\* What falknd itself writes to the raw transcript.
Notice == 0

VARIABLES
  child,        \* the session's process: "alive", "dead", or "orphan" of a restart
  slave,        \* some process still has the session's terminal open
  ptyOpen,      \* falknd's side of the terminal is open
  reader,       \* where readOutput is
  published,    \* chunks given to the transcript: outputSequence
  transcript,   \* the raw ring, as chunk numbers and notices
  rendered,     \* chunks the headless terminal has interpreted
  hasTerminal,  \* the session has a terminal: it was not loaded from a file
  status, muted, attachedClients, focusedClients,   \* of session.record
  storedText,   \* session.storedText, 0 when empty
  saved,        \* what the state file says of the session
  subscribers,  \* session.subscribers
  closed,       \* subscribers that were closed
  clientAt,     \* where each attach request is
  queue,        \* its chunks on the way
  shown,        \* history: the raw output its client has received
  stopper,      \* where Stop is
  stopText,     \* the transcript it rendered
  waiter,       \* where waitForExit is
  waiterText,   \* the transcript it rendered
  mutes,        \* changes of the mute
  seenAtDeath   \* history: chunks interpreted when the process died

terminalVars == <<child, slave, ptyOpen>>
outputVars == <<published, transcript, rendered, hasTerminal>>
countVars == <<attachedClients, focusedClients>>
recordVars == <<status, muted, storedText>>
clientVars == <<clientAt, queue, shown>>
endVars == <<stopper, stopText, waiter, waiterText>>
vars == <<terminalVars, reader, outputVars, countVars, recordVars, saved,
          subscribers, closed, clientVars, endVars, mutes,
          seenAtDeath>>

\* CreateShell has started the shell, saved the session and launched readOutput
\* and waitForExit.
Init ==
  /\ child = "alive" /\ slave = TRUE /\ ptyOpen = TRUE
  /\ reader = "read" /\ published = 0 /\ transcript = <<>> /\ rendered = 0
  /\ hasTerminal = TRUE
  /\ status = "running" /\ muted = FALSE /\ storedText = 0
  /\ attachedClients = 0 /\ focusedClients = 0
  /\ saved = [status |-> "running", muted |-> FALSE, text |-> 0]
  /\ subscribers = {} /\ closed = {}
  /\ clientAt = [c \in Clients |-> "absent"]
  /\ queue = [c \in Clients |-> <<>>]
  /\ shown = [c \in Clients |-> <<>>]
  /\ stopper = "idle" /\ stopText = 0
  /\ waiter = "waiting" /\ waiterText = 0
  /\ mutes = 0
  /\ seenAtDeath = 0

\* byteRing.Write: the oldest entries make room.
Newest(entries) == SubSeq(entries, Len(entries) - Window + 1, Len(entries))

Written(entry) ==
  LET longer == Append(transcript, entry)
  IN  IF Len(longer) > Window THEN Newest(longer) ELSE longer

\* renderedTranscript: of the live terminal, or the stored text without one.
RenderedTranscript == IF hasTerminal THEN rendered ELSE storedText

\* updateNotificationSuppressionLocked
Suppression(members, mute) ==
  /\ attachedClients' = Cardinality(members)
  /\ focusedClients' = IF mute /\ members = {} THEN 1 ELSE Cardinality(members)

\* persist(), of a session with this status, text and mute: a finished one with
\* no stored text is rendered for the file.
SaveAs(state, text, mute) ==
  saved' = [status |-> state, muted |-> mute,
            text |-> IF state # "running" /\ text = 0
                       THEN RenderedTranscript ELSE text]
Save == SaveAs(status, storedText, muted)

(***************************************************************************)
(* The session's processes and readOutput                                  *)
(***************************************************************************)
Dies ==
  /\ child' = "dead"
  /\ seenAtDeath' = IF child = "alive" THEN rendered ELSE seenAtDeath

ChildExits ==
  /\ child = "alive"
  /\ Dies
  /\ UNCHANGED <<slave, ptyOpen, reader, outputVars, countVars,
                 recordVars, saved, subscribers, closed, clientVars, endVars,
                 mutes>>

\* The last process that had the terminal open, the shell or a job it left
\* behind, has closed it.
HangUp ==
  /\ child # "alive"
  /\ slave
  /\ slave' = FALSE
  /\ UNCHANGED <<child, ptyOpen, reader, outputVars, countVars,
                 recordVars, saved, subscribers, closed, clientVars, endVars,
                 mutes, seenAtDeath>>

\* pty.Read returns the next chunk: one just printed, or one that waited in the
\* kernel's buffer, which outlives the processes that filled it.
Read ==
  /\ reader = "read"
  /\ ptyOpen
  /\ published < MaxChunks
  /\ reader' = "publish"
  /\ UNCHANGED <<terminalVars, outputVars, countVars, recordVars, saved,
                 subscribers, closed, clientVars, endVars, mutes, seenAtDeath>>

\* enqueue refuses what does not fit the backlog.
Lagging == {c \in subscribers : Len(queue[c]) >= Window}

\* Mutant: the chunk goes to the subscribers only.
PublishUnrecorded ==
  /\ reader = "publish"
  /\ published' = published + 1
  /\ queue' = [c \in Clients |->
                 IF c \in subscribers \ Lagging
                   THEN Append(queue[c], published + 1) ELSE queue[c]]
  /\ subscribers' = subscribers \ Lagging
  /\ closed' = closed \cup Lagging
  /\ Suppression(subscribers \ Lagging, muted)
  /\ reader' = "interpret"
  /\ UNCHANGED <<terminalVars, transcript, rendered, hasTerminal, recordVars,
                 saved, clientAt, shown, endVars, mutes,
                 seenAtDeath>>

\* readOutput under outputMu: transcript, subscribers, and their counts.
Publish ==
  /\ reader = "publish"
  /\ published' = published + 1
  /\ transcript' = Written(published + 1)
  /\ queue' = [c \in Clients |->
                 IF c \in subscribers \ Lagging
                   THEN Append(queue[c], published + 1) ELSE queue[c]]
  /\ subscribers' = subscribers \ Lagging
  /\ closed' = closed \cup Lagging
  /\ IF Lagging # {}
       THEN Suppression(subscribers \ Lagging, muted)
       ELSE UNCHANGED countVars
  /\ reader' = "interpret"
  /\ UNCHANGED <<terminalVars, rendered, hasTerminal, recordVars, saved,
                 clientAt, shown, endVars, mutes, seenAtDeath>>

\* ... and then, under terminalMu only, the headless terminal.
Interpret ==
  /\ reader = "interpret"
  /\ rendered' = rendered + 1
  /\ reader' = "read"
  /\ UNCHANGED <<terminalVars, published, transcript, hasTerminal, countVars,
                 recordVars, saved, subscribers, closed, clientVars, endVars,
                 mutes, seenAtDeath>>

\* A closed PTY, or the end of the output, which is EIO on Linux and EOF on
\* macOS; only the latter leaves no notice.
ReadEnds ==
  /\ reader = "read"
  /\ ~ptyOpen \/ ~slave
  /\ transcript' \in {Written(Notice)} \cup (IF ptyOpen THEN {transcript} ELSE {})
  /\ reader' = "stopped"
  /\ ptyOpen' = FALSE
  /\ UNCHANGED <<child, slave, published, rendered, hasTerminal,
                 countVars, recordVars, saved, subscribers, closed, clientVars,
                 endVars, mutes, seenAtDeath>>

(***************************************************************************)
(* Attach, the client's handler, and detach                                *)
(***************************************************************************)
\* running(): the status is read here, and what follows trusts it.
Attach(c) ==
  /\ clientAt[c] = "absent"
  /\ status = "running"
  /\ \E place \in {"resize", "register"} :
       clientAt' = [clientAt EXCEPT ![c] = place]
  /\ UNCHANGED <<terminalVars, reader, outputVars, countVars, recordVars, saved,
                 subscribers, closed, queue, shown, endVars, mutes, seenAtDeath>>

\* A client that gave its size: Resize asks running() again and sets the size of
\* the PTY, which fails once it is closed.
Resize(c) ==
  /\ clientAt[c] = "resize"
  /\ clientAt' = [clientAt EXCEPT ![c] =
                    IF status = "running" /\ ptyOpen THEN "register" ELSE "gone"]
  /\ UNCHANGED <<terminalVars, reader, outputVars, countVars, recordVars, saved,
                 subscribers, closed, queue, shown, endVars, mutes, seenAtDeath>>

\* Under outputMu: the history is taken and the subscriber registered, so that
\* the stream starts where the history ends.
Register(c) ==
  /\ clientAt[c] = "register"
  /\ shown' = [shown EXCEPT ![c] = transcript]
  /\ subscribers' = subscribers \cup {c}
  /\ Suppression(subscribers \cup {c}, muted)
  /\ clientAt' = [clientAt EXCEPT ![c] = "attached"]
  /\ UNCHANGED <<terminalVars, reader, outputVars, recordVars, saved, closed,
                 queue, endVars, mutes, seenAtDeath>>

Deliver(c) ==
  /\ clientAt[c] = "attached"
  /\ queue[c] # <<>>
  /\ shown' = [shown EXCEPT ![c] = Append(@, Head(queue[c]))]
  /\ queue' = [queue EXCEPT ![c] = Tail(@)]
  /\ UNCHANGED <<terminalVars, reader, outputVars, countVars, recordVars, saved,
                 subscribers, closed, clientAt, endVars, mutes,
                 seenAtDeath>>

\* The stream of a closed subscriber ends, with or without what was queued.
StreamEnds(c) ==
  /\ clientAt[c] = "attached"
  /\ c \in closed
  /\ clientAt' = [clientAt EXCEPT ![c] = "detaching"]
  /\ UNCHANGED <<terminalVars, reader, outputVars, countVars, recordVars, saved,
                 subscribers, closed, queue, shown, endVars, mutes, seenAtDeath>>

\* The client detached, hung up, or typed into a session that is over.
ClientLeaves(c) ==
  /\ clientAt[c] = "attached"
  /\ clientAt' = [clientAt EXCEPT ![c] = "detaching"]
  /\ UNCHANGED <<terminalVars, reader, outputVars, countVars, recordVars, saved,
                 subscribers, closed, queue, shown, endVars, mutes, seenAtDeath>>

\* Mutant: detach does not refresh the counts.
DetachUncounted(c) ==
  /\ clientAt[c] = "detaching"
  /\ subscribers' = subscribers \ {c}
  /\ closed' = closed \cup {c}
  /\ clientAt' = [clientAt EXCEPT ![c] = "gone"]
  /\ queue' = [queue EXCEPT ![c] = <<>>]
  /\ shown' = [shown EXCEPT ![c] = <<>>]
  /\ UNCHANGED <<terminalVars, reader, outputVars, countVars, recordVars, saved,
                 endVars, mutes, seenAtDeath>>

\* The deferred detach, under outputMu.
Detach(c) ==
  /\ clientAt[c] = "detaching"
  /\ subscribers' = subscribers \ {c}
  /\ closed' = closed \cup {c}
  /\ Suppression(subscribers \ {c}, muted)
  /\ clientAt' = [clientAt EXCEPT ![c] = "gone"]
  /\ queue' = [queue EXCEPT ![c] = <<>>]
  /\ shown' = [shown EXCEPT ![c] = <<>>]
  /\ UNCHANGED <<terminalVars, reader, outputVars, recordVars, saved,
                 endVars, mutes, seenAtDeath>>

(***************************************************************************)
(* Stop and waitForExit                                                    *)
(***************************************************************************)
Stop ==
  /\ stopper = "idle"
  /\ status = "running"
  /\ stopper' = "render"
  /\ UNCHANGED <<terminalVars, reader, outputVars, countVars, recordVars, saved,
                 subscribers, closed, clientVars, stopText, waiter, waiterText,
                 mutes, seenAtDeath>>

StopRenders ==
  /\ stopper = "render"
  /\ stopText' = RenderedTranscript
  /\ stopper' = "kill"
  /\ UNCHANGED <<terminalVars, reader, outputVars, countVars, recordVars, saved,
                 subscribers, closed, clientVars, waiter, waiterText, mutes, seenAtDeath>>

\* Process.Kill; that the process is gone already is no error.
StopKills ==
  /\ stopper = "kill"
  /\ Dies
  /\ stopper' = "set"
  /\ UNCHANGED <<slave, ptyOpen, reader, outputVars, countVars,
                 recordVars, saved, subscribers, closed, clientVars, stopText,
                 waiter, waiterText, mutes>>

\* setStoppedTranscript
StopSets ==
  /\ stopper = "set"
  /\ status' = "stopped"
  /\ storedText' = stopText
  /\ stopText' = 0
  /\ stopper' = "close"
  /\ UNCHANGED <<terminalVars, reader, outputVars, countVars, muted, saved,
                 subscribers, closed, clientVars, waiter, waiterText,
                 mutes, seenAtDeath>>

StopCloses ==
  /\ stopper = "close"
  /\ ptyOpen' = FALSE
  /\ Save
  /\ stopper' = "done"
  /\ UNCHANGED <<child, slave, reader, outputVars, countVars,
                 recordVars, subscribers, closed, clientVars, stopText,
                 waiter, waiterText, mutes, seenAtDeath>>

\* command.Wait returned; a process that failed leaves a notice.
WaitReturns ==
  /\ waiter = "waiting"
  /\ child = "dead"
  /\ transcript' \in {transcript, Written(Notice)}
  /\ waiter' = "check"
  /\ UNCHANGED <<terminalVars, reader, published, rendered, hasTerminal,
                 countVars, recordVars, saved, subscribers, closed, clientVars,
                 stopper, stopText, waiterText, mutes,
                 seenAtDeath>>

WaiterChecks ==
  /\ waiter = "check"
  /\ waiter' = IF status = "running" THEN "render" ELSE "release"
  /\ UNCHANGED <<terminalVars, reader, outputVars, countVars, recordVars, saved,
                 subscribers, closed, clientVars, stopper, stopText, waiterText,
                 mutes, seenAtDeath>>

\* Mutant: the transcript of the last save is taken for the final one.
WaiterKeepsSaved ==
  /\ waiter = "render"
  /\ waiterText' = saved.text
  /\ waiter' = "set"
  /\ UNCHANGED <<terminalVars, reader, outputVars, countVars, recordVars, saved,
                 subscribers, closed, clientVars, stopper, stopText, mutes, seenAtDeath>>

WaiterRenders ==
  /\ waiter = "render"
  /\ waiterText' = RenderedTranscript
  /\ waiter' = "set"
  /\ UNCHANGED <<terminalVars, reader, outputVars, countVars, recordVars, saved,
                 subscribers, closed, clientVars, stopper, stopText, mutes, seenAtDeath>>

WaiterSets ==
  /\ waiter = "set"
  /\ status' = "ended"
  /\ storedText' = waiterText
  /\ waiterText' = 0
  /\ SaveAs("ended", waiterText, muted)
  /\ waiter' = "release"
  /\ UNCHANGED <<terminalVars, reader, outputVars, countVars, muted,
                 subscribers, closed, clientVars, stopper, stopText,
                 mutes, seenAtDeath>>

\* Mutant: the subscribers are forgotten and not closed.
CloseSubscribersOpen ==
  /\ waiter = "release"
  /\ subscribers' = {}
  /\ Suppression({}, muted)
  /\ waiter' = "done"
  /\ UNCHANGED <<terminalVars, reader, outputVars, recordVars, saved, closed,
                 clientVars, stopper, stopText, waiterText, mutes, seenAtDeath>>

CloseSubscribers ==
  /\ waiter = "release"
  /\ closed' = closed \cup subscribers
  /\ subscribers' = {}
  /\ Suppression({}, muted)
  /\ waiter' = "done"
  /\ UNCHANGED <<terminalVars, reader, outputVars, recordVars, saved, clientVars,
                 stopper, stopText, waiterText, mutes,
                 seenAtDeath>>

(***************************************************************************)
(* The mute                                                                *)
(***************************************************************************)
SetNotificationsMuted ==
  /\ child # "orphan"
  /\ mutes < MaxMutes
  /\ mutes' = mutes + 1
  /\ muted' = ~muted
  /\ Suppression(subscribers, ~muted)
  /\ SaveAs(status, storedText, ~muted)
  /\ UNCHANGED <<terminalVars, reader, outputVars, status, storedText,
                 subscribers, closed, clientVars, endVars,
                 seenAtDeath>>

(***************************************************************************)
(* The daemon dies, and the next one loads the session                     *)
(***************************************************************************)
\* EnablePersistence: no terminal, no process, no attachment; the mute stays.
Restart ==
  /\ child # "orphan"
  /\ child' = "orphan"
  /\ ptyOpen' = FALSE
  /\ reader' = "stopped"
  /\ published' = 0 /\ transcript' = <<>> /\ hasTerminal' = FALSE
  /\ status' = IF saved.status = "running" THEN "stopped" ELSE saved.status
  /\ muted' = saved.muted
  /\ storedText' = saved.text
  /\ saved' = [saved EXCEPT !.status = status']
  /\ subscribers' = {} /\ closed' = {}
  /\ Suppression({}, saved.muted)
  /\ clientAt' = [c \in Clients |-> "gone"]
  /\ queue' = [c \in Clients |-> <<>>]
  /\ stopper' = "done" /\ waiter' = "done"
  /\ shown' = [c \in Clients |-> <<>>]
  /\ stopText' = 0 /\ waiterText' = 0 /\ seenAtDeath' = 0
  /\ UNCHANGED <<slave, rendered, mutes>>

ReaderStep == Publish \/ Interpret \/ ReadEnds
StopStep == StopRenders \/ StopKills \/ StopSets \/ StopCloses
WaiterStep ==
  \/ WaitReturns \/ WaiterChecks \/ WaiterRenders \/ WaiterSets
  \/ CloseSubscribers
HandlerStep(c) == Resize(c) \/ Register(c) \/ Deliver(c) \/ StreamEnds(c) \/ Detach(c)

Next ==
  \/ ChildExits \/ HangUp \/ Read \/ ReaderStep
  \/ \E c \in Clients : Attach(c) \/ ClientLeaves(c) \/ HandlerStep(c)
  \/ Stop \/ StopStep \/ WaiterStep
  \/ SetNotificationsMuted
  \/ Restart

\* The daemon's goroutines are scheduled.  Nothing makes a process exit, print
\* or hang up, and nothing makes a client leave.
Spec ==
  /\ Init /\ [][Next]_vars
  /\ WF_vars(ReaderStep) /\ WF_vars(StopStep) /\ WF_vars(WaiterStep)

\* The client's connection takes what it is sent and its handler is scheduled.
ClientReads(c) == WF_vars(HandlerStep(c))

(***************************************************************************)
(* Properties                                                              *)
(***************************************************************************)
\* SuppressionExact: the counts that silence notifications, refreshed at six
\* places, are those of the subscribers and the mute (shell.go 161-170).
SuppressionExact ==
  /\ attachedClients = Cardinality(subscribers)
  /\ focusedClients = IF subscribers = {} /\ muted THEN 1 ELSE attachedClients

\* Raw output up to the chunk `last`: chunks and notices, with no chunk missing or
\* doubled, and from the first one unless the ring has made room.
Unbroken(entries, last) ==
  /\ \A i, j \in DOMAIN entries : i < j /\ entries[j] # Notice => entries[i] < entries[j]
  /\ \E gone \in 0 .. last :
       /\ {entries[i] : i \in DOMAIN entries} \ {Notice} = gone + 1 .. last
       /\ gone > 0 => Len(entries) >= Window

\* NothingMissed: what a registered client has received, the history it was
\* given first and then its stream, and what is on the way to it are the
\* session's output up to now, with no chunk missing or doubled where the
\* history ends (Attach 102-115, readOutput 532-540).
NothingMissed == \A c \in subscribers : Unbroken(shown[c] \o queue[c], published)

\* EndedTranscript: the transcript kept of a session that ended shows at least
\* what the terminal showed when its process died (waitForExit 624-632).
EndedTranscript == status = "ended" /\ hasTerminal => storedText >= seenAtDeath

\* AttendedIsReleased: a client attached when the session's process dies does
\* not wait for ever, unless it came after closeSubscribers (waitForExit 633).
AttendedIsReleased ==
  \A c \in Clients :
    ClientReads(c) =>
      (clientAt[c] = "attached" /\ child = "dead" /\ waiter # "done"
         ~> clientAt[c] = "gone")

\* ReleasedAtExit: no client stays attached to a session whose process died.
ReleasedAtExit ==
  \A c \in Clients :
    ClientReads(c) => (child = "dead" ~> clientAt[c] # "attached")

===============================================================================
