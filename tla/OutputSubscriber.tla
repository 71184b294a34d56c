--------------------------- MODULE OutputSubscriber ---------------------------
(***************************************************************************)
(* One attachment's output path: readOutput publishing PTY chunks, the     *)
(* subscriber's queue and its run goroutine (session/output_subscriber.go),*)
(* and the handleAttach loop that writes the chunks to the client          *)
(* (server/attach.go).  A chunk is the interval of PTY bytes it carries,   *)
(* counted from the moment the client attached.                            *)
(***************************************************************************)
EXTENDS Naturals, Sequences

CONSTANTS
  MaxBytes,      \* maxTranscriptBytes: the largest backlog a client may have
  ChunkSizes,    \* sizes one PTY read may return
  MaxPosition    \* bound of the model: PTY bytes read while attached

ASSUME MaxBytesAssumption == MaxBytes \in Nat
ASSUME ChunkSizesAssumption == ChunkSizes \subseteq Nat \ {0}
ASSUME MaxPositionAssumption == MaxPosition \in Nat

Chunk == [from : 0 .. MaxPosition, to : 0 .. MaxPosition]
NoChunk == [from |-> 0, to |-> 0]

Size(chunk) == chunk.to - chunk.from

VARIABLES
  output,          \* history: every chunk readOutput published since the attach
  position,        \* PTY bytes those chunks hold
  reader,          \* readOutput: "reading", or "dropping" a lagging subscriber
  registered,      \* the subscriber is in session.subscribers
  exited,          \* waitForExit has run closeSubscribers
  queue,           \* outputSubscriber.queue
  queuedBytes,     \* outputSubscriber.queuedBytes
  wake,            \* a token is in the wake channel (capacity 1)
  closed,          \* outputSubscriber.closed, and its done channel is closed
  runner,          \* where run() is
  held,            \* the chunk run() dequeued and has not accounted for
  updatesClosed,   \* the updates channel is closed
  client,          \* where handleAttach is
  writing,         \* the chunk handleAttach took from updates last
  received,        \* history: the chunks written whole to the connection
  framesDone       \* readAttachFrames has returned: detach frame or hang-up

subscriberVars == <<queue, queuedBytes, wake, closed>>
runnerVars == <<runner, held, updatesClosed>>
clientVars == <<client, writing, received>>
readerVars == <<output, position, reader>>
vars == <<output, position, reader, registered, exited, queue, queuedBytes,
          wake, closed, runner, held, updatesClosed, client, writing,
          received, framesDone>>

TypeOK ==
  /\ output \in Seq(Chunk)
  /\ position \in Nat
  /\ reader \in {"reading", "dropping"}
  /\ registered \in BOOLEAN
  /\ exited \in BOOLEAN
  /\ queue \in Seq(Chunk)
  /\ queuedBytes \in Nat
  /\ wake \in BOOLEAN
  /\ closed \in BOOLEAN
  /\ runner \in {"dequeue", "send", "account", "wait", "closing", "stopped"}
  /\ held \in Chunk
  /\ updatesClosed \in BOOLEAN
  /\ client \in {"opening", "select", "writing", "detaching", "returned"}
  /\ writing \in Chunk
  /\ received \in Seq(Chunk)
  /\ framesDone \in BOOLEAN

\* Manager.Attach has registered a new subscriber and started run().
Init ==
  /\ output = <<>>
  /\ position = 0
  /\ reader = "reading"
  /\ registered = TRUE
  /\ exited = FALSE
  /\ queue = <<>>
  /\ queuedBytes = 0
  /\ wake = FALSE
  /\ closed = FALSE
  /\ runner = "dequeue"
  /\ held = NoChunk
  /\ updatesClosed = FALSE
  /\ client = "opening"
  /\ writing = NoChunk
  /\ received = <<>>
  /\ framesDone = FALSE

\* enqueue's refusal; the comparison is made under the subscriber's lock.
Refuses(chunk) == closed \/ queuedBytes + Size(chunk) > MaxBytes

\* Mutant: enqueue leaves no wake token.
AcceptSilently(chunk) ==
  /\ queue' = Append(queue, chunk)
  /\ queuedBytes' = queuedBytes + Size(chunk)
  /\ UNCHANGED wake

\* enqueue accepting a chunk: append, count, leave one wake token.
Accept(chunk) ==
  /\ queue' = Append(queue, chunk)
  /\ queuedBytes' = queuedBytes + Size(chunk)
  /\ wake' = TRUE

\* Mutant: a chunk that does not fit is dropped and the subscriber kept.
PublishDropping ==
  /\ reader = "reading"
  /\ \E size \in ChunkSizes :
       LET chunk == [from |-> position, to |-> position + size]
       IN  /\ chunk.to <= MaxPosition
           /\ position' = chunk.to
           /\ output' = Append(output, chunk)
           /\ IF registered /\ ~Refuses(chunk)
                THEN Accept(chunk)
                ELSE UNCHANGED <<queue, queuedBytes, wake>>
  /\ UNCHANGED <<reader, registered, exited, closed, runnerVars, clientVars,
                 framesDone>>

\* readOutput's section under outputMu, as one subscriber sees it.  A refused
\* subscriber is removed and closed by DropLagging before outputMu is freed.
Publish ==
  /\ reader = "reading"
  /\ \E size \in ChunkSizes :
       LET chunk == [from |-> position, to |-> position + size]
       IN  /\ chunk.to <= MaxPosition
           /\ position' = chunk.to
           /\ output' = Append(output, chunk)
           /\ IF registered
                THEN IF Refuses(chunk)
                       THEN /\ reader' = "dropping"
                            /\ UNCHANGED <<queue, queuedBytes, wake>>
                       ELSE /\ Accept(chunk)
                            /\ UNCHANGED reader
                ELSE UNCHANGED <<reader, queue, queuedBytes, wake>>
  /\ UNCHANGED <<registered, exited, closed, runnerVars, clientVars, framesDone>>

DropLagging ==
  /\ reader = "dropping"
  /\ reader' = "reading"
  /\ registered' = FALSE
  /\ closed' = TRUE
  /\ UNCHANGED <<output, position, exited, queue, queuedBytes, wake,
                 runnerVars, clientVars, framesDone>>

\* waitForExit: closeSubscribers under outputMu, once per session.
CloseSubscribers ==
  /\ ~exited
  /\ reader = "reading"
  /\ exited' = TRUE
  /\ registered' = FALSE
  /\ closed' = (closed \/ registered)
  /\ UNCHANGED <<readerVars, queue, queuedBytes, wake, runnerVars, clientVars,
                 framesDone>>

(***************************************************************************)
(* run()                                                                   *)
(***************************************************************************)
\* Mutant: dequeue takes the newest chunk.
DequeueNewest ==
  /\ runner = "dequeue"
  /\ queue # <<>>
  /\ held' = queue[Len(queue)]
  /\ queue' = SubSeq(queue, 1, Len(queue) - 1)
  /\ runner' = "send"
  /\ UNCHANGED <<readerVars, registered, exited, queuedBytes, wake, closed,
                 updatesClosed, clientVars, framesDone>>

Dequeue ==
  /\ runner = "dequeue"
  /\ IF queue = <<>>
       THEN /\ runner' = "wait"
            /\ UNCHANGED <<queue, held>>
       ELSE /\ held' = Head(queue)
            /\ queue' = Tail(queue)
            /\ runner' = "send"
  /\ UNCHANGED <<readerVars, registered, exited, queuedBytes, wake, closed,
                 updatesClosed, clientVars, framesDone>>

\* The unbuffered updates channel: run() sends as handleAttach receives.
HandOver ==
  /\ runner = "send"
  /\ client = "select"
  /\ runner' = "account"
  /\ client' = "writing"
  /\ writing' = held
  /\ UNCHANGED <<readerVars, registered, exited, subscriberVars, held,
                 updatesClosed, received, framesDone>>

\* Mutant: a delivered chunk is never subtracted.
DeliveredUncounted ==
  /\ runner = "account"
  /\ held' = NoChunk
  /\ runner' = "dequeue"
  /\ UNCHANGED <<readerVars, registered, exited, subscriberVars, updatesClosed,
                 clientVars, framesDone>>

Delivered ==
  /\ runner = "account"
  /\ queuedBytes' = queuedBytes - Size(held)
  /\ held' = NoChunk
  /\ runner' = "dequeue"
  /\ UNCHANGED <<readerVars, registered, exited, queue, wake, closed,
                 updatesClosed, clientVars, framesDone>>

WakeUp ==
  /\ runner = "wait"
  /\ wake
  /\ wake' = FALSE
  /\ runner' = "dequeue"
  /\ UNCHANGED <<readerVars, registered, exited, queue, queuedBytes, closed,
                 held, updatesClosed, clientVars, framesDone>>

\* Mutant: only the sleeping select watches done.
SeeDoneAsleep ==
  /\ runner = "wait"
  /\ closed
  /\ runner' = "closing"
  /\ UNCHANGED <<readerVars, registered, exited, subscriberVars, held,
                 updatesClosed, clientVars, framesDone>>

\* Both selects of run() also watch done.
SeeDone ==
  /\ runner \in {"send", "wait"}
  /\ closed
  /\ runner' = "closing"
  /\ UNCHANGED <<readerVars, registered, exited, subscriberVars, held,
                 updatesClosed, clientVars, framesDone>>

CloseUpdates ==
  /\ runner = "closing"
  /\ updatesClosed' = TRUE
  /\ runner' = "stopped"
  /\ UNCHANGED <<readerVars, registered, exited, subscriberVars, held,
                 clientVars, framesDone>>

Run == Dequeue \/ HandOver \/ Delivered \/ WakeUp \/ SeeDone \/ CloseUpdates

(***************************************************************************)
(* handleAttach and its readAttachFrames goroutine                         *)
(***************************************************************************)
\* The response and the history reach the client before the loop starts.
WriteHistory ==
  /\ client = "opening"
  /\ client' = "select"
  /\ UNCHANGED <<readerVars, registered, exited, subscriberVars, runnerVars,
                 writing, received, framesDone>>

\* The client detached or hung up, or a frame it sent was refused or could not
\* be carried out: the reading goroutine closes `done`.
FramesEnd ==
  /\ client \notin {"opening", "returned"}
  /\ ~framesDone
  /\ framesDone' = TRUE
  /\ UNCHANGED <<readerVars, registered, exited, subscriberVars, runnerVars,
                 clientVars>>

\* Mutant: handleAttach does not notice that updates was closed.
SelectEndFrames ==
  /\ client = "select"
  /\ framesDone
  /\ client' = "detaching"
  /\ UNCHANGED <<readerVars, registered, exited, subscriberVars, runnerVars,
                 writing, received, framesDone>>

SelectEnd ==
  /\ client = "select"
  /\ framesDone \/ updatesClosed
  /\ client' = "detaching"
  /\ UNCHANGED <<readerVars, registered, exited, subscriberVars, runnerVars,
                 writing, received, framesDone>>

WriteChunk ==
  /\ client = "writing"
  /\ received' = Append(received, writing)
  /\ writing' = NoChunk
  /\ client' = "select"
  /\ UNCHANGED <<readerVars, registered, exited, subscriberVars, runnerVars,
                 framesDone>>

\* A failed write, of the history or of a chunk, ends the handler.
WriteFails ==
  /\ client \in {"opening", "writing"}
  /\ client' = "detaching"
  /\ UNCHANGED <<readerVars, registered, exited, subscriberVars, runnerVars,
                 writing, received, framesDone>>

\* The deferred detach, under outputMu: only a registered subscriber is closed,
\* whoever unregistered it before has closed it.
Detach ==
  /\ client = "detaching"
  /\ reader = "reading"
  /\ client' = "returned"
  /\ registered' = FALSE
  /\ closed' = (closed \/ registered)
  /\ UNCHANGED <<readerVars, exited, queue, queuedBytes, wake, runnerVars,
                 writing, received, framesDone>>

Client == WriteHistory \/ SelectEnd \/ WriteChunk \/ WriteFails \/ Detach

Next == Publish \/ DropLagging \/ CloseSubscribers \/ Run \/ Client \/ FramesEnd

(***************************************************************************)
(* Fairness.  The goroutines of the daemon are scheduled: a lock section   *)
(* entered is left, and run() takes every step it can take on its own.     *)
(* Nothing makes a client read, so what needs its steps is stated under    *)
(* ClientReads.                                                            *)
(***************************************************************************)
Spec ==
  /\ Init /\ [][Next]_vars
  /\ WF_vars(DropLagging)
  /\ WF_vars(Dequeue \/ Delivered \/ WakeUp \/ SeeDone \/ CloseUpdates)

\* The client goes on reading, its connection lets writes end, and handleAttach
\* is scheduled.
ClientReads ==
  /\ WF_vars(HandOver)
  /\ WF_vars(WriteHistory \/ SelectEnd \/ WriteChunk \/ Detach)

(***************************************************************************)
(* Properties                                                              *)
(***************************************************************************)
Holding == held # NoChunk

\* The bytes from the first chunk not yet accounted for to the last one queued.
Outstanding ==
  LET first == IF Holding THEN held ELSE queue[1]
      last  == IF queue = <<>> THEN held ELSE queue[Len(queue)]
  IN  IF ~Holding /\ queue = <<>> THEN 0 ELSE last.to - first.from

\* ByteAccounting: queuedBytes, which enqueue and delivered move separately and
\* under separate lock sections, is the number of bytes accepted and not yet
\* handed over, and stays within the limit (enqueue 32, delivered 87).
ByteAccounting == queuedBytes = Outstanding /\ queuedBytes <= MaxBytes

\* NoLostWakeup: run() never sleeps on an empty wake channel while a chunk is
\* queued, although it looks at the queue and goes to sleep in two steps and the
\* token of an enqueue may be dropped (enqueue 37-40, run 67-71).
NoLostWakeup == runner = "wait" /\ queue # <<>> => wake

\* NothingSkipped: as long as the subscriber is registered, what the client has
\* received, is being sent and has queued is the whole output: a chunk is never
\* dropped from the middle (the type's comment, output_subscriber.go 5-8).
Pipeline ==
  received \o (IF writing = NoChunk THEN <<>> ELSE <<writing>>)
           \o (IF Holding /\ runner # "account" THEN <<held>> ELSE <<>>)
           \o queue

NothingSkipped == registered /\ reader = "reading" => Pipeline = output

\* CutOnlyWhenBehind: readOutput drops a subscriber only when its client is
\* behind by more than the limit, give or take the one chunk that run() has
\* handed over and not yet subtracted (enqueue 32, run 60-61).
CutOnlyWhenBehind ==
  [][reader = "reading" /\ reader' = "dropping" =>
       LET seen  == IF received = <<>> THEN 0 ELSE received[Len(received)].to
           slack == IF runner = "account" THEN Size(held) ELSE 0
       IN  position' - seen + slack > MaxBytes]_vars

\* RunnerStops: a closed subscriber's goroutine ends and closes its channel even
\* if the client never reads again (run 62 and 69 watch done).
RunnerStops == closed ~> runner = "stopped" /\ updatesClosed

\* DeliveredOrEnded: a client that goes on reading receives every chunk that is
\* published, or its stream ends.
DeliveredOrEnded ==
  ClientReads =>
    \A n \in 1 .. MaxPosition :
      Len(output) >= n ~> Len(received) >= n \/ client = "returned"

\* HandlerReturns: once the client has hung up or the session has closed its
\* subscribers, the handler of a client that reads returns, and the session no
\* longer counts it as attached.
HandlerReturns ==
  ClientReads => ((framesDone \/ exited) ~> client = "returned" /\ ~registered)

(***************************************************************************)
(* Refinement                                                              *)
(***************************************************************************)
Stream == INSTANCE OrderedStream WITH ended <- client \in {"detaching", "returned"}

\* StreamImplemented: every behaviour is one of the promised stream.
StreamImplemented == Stream!Spec
==============================================================================
