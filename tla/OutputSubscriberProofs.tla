------------------------ MODULE OutputSubscriberProofs ------------------------
(***************************************************************************)
(* Proofs that the output path of an attachment keeps its promises for     *)
(* every window size, every chunk size and every length of output.         *)
(*                                                                         *)
(* The inductive invariant says where every published chunk is: the first  *)
(* Len(received) of them are with the client, then come the one being      *)
(* written, the one run() holds and the queue, each at its own index of    *)
(* `output`.  Order, byte accounting and the refinement follow from it.    *)
(***************************************************************************)
EXTENDS OutputSubscriber, SequenceTheorems, TLAPS

\* Chunks that have left the queue: received, being written, held.
Before ==
  Len(received) + (IF writing # NoChunk THEN 1 ELSE 0)
                + (IF Holding /\ runner # "account" THEN 1 ELSE 0)

\* The published chunks tile the PTY bytes from 0 to position.
Tiling ==
  /\ \A i \in 1 .. Len(output) : output[i].from < output[i].to
  /\ \A i \in 1 .. Len(output) - 1 : output[i].to = output[i + 1].from
  /\ \A i, j \in 1 .. Len(output) : i < j => output[i].to <= output[j].from
  /\ position = IF output = <<>> THEN 0 ELSE output[Len(output)].to
  /\ position <= MaxPosition

\* Every chunk in the pipeline is at its own place of the output.
Places ==
  /\ \A i \in 1 .. Len(received) : received[i] = output[i]
  /\ writing # NoChunk => writing = output[Len(received) + 1]
  /\ Holding => Before >= 1 /\ held = output[Before]
  /\ \A i \in 1 .. Len(queue) : queue[i] = output[Before + i]
  /\ Before + Len(queue) <= Len(output)
  /\ registered /\ reader = "reading" => Before + Len(queue) = Len(output)

\* What each goroutine holds where it is.
Control ==
  /\ closed <=> ~registered
  /\ reader = "dropping" => registered
  /\ runner \in {"send", "account"} => Holding
  /\ runner \in {"dequeue", "wait"} => ~Holding
  /\ runner \in {"closing", "stopped"} => closed
  /\ client = "writing" => writing # NoChunk
  /\ client \in {"opening", "select"} => writing = NoChunk

IInv ==
  /\ TypeOK
  /\ Tiling
  /\ Places
  /\ Control
  /\ ByteAccounting
  /\ NoLostWakeup

------------------------------------------------------------------------------
\* What TypeOK says of the chunks, element by element.
LEMMA ChunkTypes ==
  ASSUME TypeOK
  PROVE  /\ Len(output) \in Nat /\ Len(queue) \in Nat /\ Len(received) \in Nat
         /\ output = <<>> <=> Len(output) = 0
         /\ queue = <<>> <=> Len(queue) = 0
         /\ \A i \in 1 .. Len(output) :
              output[i].from \in Nat /\ output[i].to \in Nat
         /\ \A i \in 1 .. Len(queue) :
              queue[i] \in Chunk /\ queue[i].from \in Nat /\ queue[i].to \in Nat
         /\ held.from \in Nat /\ held.to \in Nat
<1>1. \A chunk \in Chunk : chunk.from \in Nat /\ chunk.to \in Nat
  BY MaxPositionAssumption DEF Chunk
<1>2. output \in Seq(Chunk) /\ queue \in Seq(Chunk) /\ received \in Seq(Chunk)
  BY DEF TypeOK
<1>3. /\ \A i \in 1 .. Len(output) : output[i] \in Chunk
      /\ \A i \in 1 .. Len(queue) : queue[i] \in Chunk
  BY <1>2
<1>4. held \in Chunk
  BY DEF TypeOK
<1> QED
  BY <1>1, <1>2, <1>3, <1>4

\* Appending a chunk and taking the first one, element by element.
LEMMA AppendChunk ==
  ASSUME NEW s \in Seq(Chunk), NEW chunk \in Chunk
  PROVE  /\ Append(s, chunk) \in Seq(Chunk)
         /\ Append(s, chunk) # <<>>
         /\ Len(Append(s, chunk)) = Len(s) + 1
         /\ Append(s, chunk)[Len(s) + 1] = chunk
         /\ \A i \in 1 .. Len(s) : Append(s, chunk)[i] = s[i]
  BY AppendProperties

\* Before is a number and counts at least what was received or is being written.
LEMMA BeforeType ==
  ASSUME TypeOK
  PROVE  /\ Before \in Nat /\ Len(received) \in Nat
         /\ Len(received) <= Before
         /\ writing # NoChunk => Len(received) + 1 <= Before
<1> DEFINE w == IF writing # NoChunk THEN 1 ELSE 0
           h == IF Holding /\ runner # "account" THEN 1 ELSE 0
<1>1. w \in 0 .. 1 /\ h \in 0 .. 1 /\ (writing # NoChunk => w = 1)
  OBVIOUS
<1>2. Len(received) \in Nat
  BY ChunkTypes
<1>3. Before = Len(received) + w + h
  BY DEF Before
<1> HIDE DEF w, h
<1> QED
  BY <1>1, <1>2, <1>3

\* A new attachment has nothing queued and nothing on its way.
LEMMA InitEstablishes == Init => IInv
<1> SUFFICES ASSUME Init PROVE IInv
  OBVIOUS
<1>1. TypeOK
  <2>1. NoChunk \in Chunk
    BY MaxPositionAssumption DEF NoChunk, Chunk
  <2> QED
    BY <2>1, EmptySeq DEF Init, TypeOK
<1>2. Tiling /\ Places /\ Control
  BY MaxPositionAssumption DEF Init, Tiling, Places, Control, Before, Holding
<1>3. ByteAccounting /\ NoLostWakeup
  BY MaxBytesAssumption
  DEF Init, ByteAccounting, NoLostWakeup, Outstanding, Holding
<1> QED
  BY <1>1, <1>2, <1>3 DEF IInv

\* readOutput publishes one chunk: it lands at the next index of output and,
\* unless the subscriber refuses it, at the end of the queue.
LEMMA PublishPreserves == IInv /\ Publish => IInv'
<1> SUFFICES ASSUME IInv, Publish PROVE IInv'
  OBVIOUS
<1>0. TypeOK /\ Tiling /\ Places /\ Control /\ ByteAccounting /\ NoLostWakeup
  BY DEF IInv
<1>1. PICK size \in ChunkSizes :
        LET chunk == [from |-> position, to |-> position + size]
        IN  /\ chunk.to <= MaxPosition
            /\ position' = chunk.to
            /\ output' = Append(output, chunk)
            /\ IF registered
                 THEN IF Refuses(chunk)
                        THEN /\ reader' = "dropping"
                             /\ UNCHANGED <<queue, queuedBytes, wake>>
                        ELSE /\ Accept(chunk)
                             /\ UNCHANGED reader
                 ELSE UNCHANGED <<reader, queue, queuedBytes, wake>>
  BY DEF Publish
<1> DEFINE chunk == [from |-> position, to |-> position + size]
<1>2. /\ size \in Nat /\ size > 0
      /\ position \in Nat
      /\ position + size <= MaxPosition
  BY <1>0, <1>1, ChunkSizesAssumption DEF TypeOK
<1>3. chunk \in Chunk /\ chunk.from = position /\ chunk.to = position + size
  BY <1>2, MaxPositionAssumption DEF Chunk
<1>4. UNCHANGED <<registered, exited, closed, runner, held, updatesClosed,
                  client, writing, received, framesDone>>
  BY DEF Publish, runnerVars, clientVars
<1>5. /\ output' = Append(output, chunk)
      /\ Len(output') = Len(output) + 1
      /\ output'[Len(output) + 1] = chunk
      /\ \A i \in 1 .. Len(output) : output'[i] = output[i]
      /\ output' \in Seq(Chunk)
      /\ output' # <<>>
  BY <1>0, <1>1, <1>3, AppendChunk DEF TypeOK
<1>6. position' = position + size
  BY <1>1
<1> HIDE DEF chunk
<1>7. Tiling'
  <2>1. \A i \in 1 .. Len(output) : output[i].to <= position
    BY <1>0, ChunkTypes DEF Tiling
  <2>2. Len(output) > 0 => output[Len(output)].to = position
    BY <1>0, ChunkTypes DEF Tiling
  <2>3. \A i \in 1 .. Len(output)' : output'[i].from < output'[i].to
    BY <1>0, <1>2, <1>3, <1>5, ChunkTypes DEF Tiling
  <2>4. \A i \in 1 .. Len(output)' - 1 : output'[i].to = output'[i + 1].from
    BY <1>0, <1>2, <1>3, <1>5, <2>2, ChunkTypes DEF Tiling
  <2>5. \A i, j \in 1 .. Len(output)' : i < j => output'[i].to <= output'[j].from
    <3> SUFFICES ASSUME NEW i \in 1 .. Len(output) + 1,
                        NEW j \in 1 .. Len(output) + 1, i < j
                 PROVE  output'[i].to <= output'[j].from
      BY <1>5
    <3>1. i \in 1 .. Len(output)
      BY <1>0, ChunkTypes
    <3>2. CASE j \in 1 .. Len(output)
      BY <1>0, <1>5, <3>1, <3>2 DEF Tiling
    <3>3. CASE j = Len(output) + 1
      BY <1>3, <1>5, <2>1, <3>1, <3>3
    <3> QED
      BY <1>0, <3>2, <3>3, ChunkTypes
  <2>6. position' = output'[Len(output)'].to
    BY <1>3, <1>5, <1>6
  <2> QED
    BY <1>2, <1>5, <1>6, <2>3, <2>4, <2>5, <2>6 DEF Tiling
<1>8. Before' = Before /\ Before \in Nat
  BY <1>0, <1>4, BeforeType DEF Before, Holding
<1>9. ASSUME UNCHANGED <<queue, queuedBytes, wake>>,
             \/ reader' = reader /\ ~registered
             \/ reader' = "dropping" /\ registered
      PROVE  IInv'
  <2>1. TypeOK'
    BY <1>0, <1>2, <1>4, <1>5, <1>6, <1>9 DEF TypeOK
  <2>2. Places'
    <3>1. \A i \in 1 .. Len(received)' : received'[i] = output'[i]
      BY <1>0, <1>4, <1>5, BeforeType, ChunkTypes DEF Places
    <3>2. writing' # NoChunk => writing' = output'[Len(received)' + 1]
      BY <1>0, <1>4, <1>5, BeforeType, ChunkTypes DEF Places
    <3>3. Holding' => Before' >= 1 /\ held' = output'[Before']
      BY <1>0, <1>4, <1>5, <1>8, ChunkTypes DEF Places, Holding
    <3>4. /\ \A i \in 1 .. Len(queue)' : queue'[i] = output'[Before' + i]
          /\ Before' + Len(queue') <= Len(output')
          /\ registered' /\ reader' = "reading" => Before' + Len(queue') = Len(output')
      BY <1>0, <1>4, <1>5, <1>8, <1>9, ChunkTypes DEF Places
    <3> QED
      BY <3>1, <3>2, <3>3, <3>4 DEF Places
  <2>3. Control' /\ ByteAccounting' /\ NoLostWakeup'
    BY <1>0, <1>4, <1>9
    DEF Control, ByteAccounting, NoLostWakeup, Outstanding, Holding
  <2> QED
    BY <1>7, <2>1, <2>2, <2>3 DEF IInv
<1>10. CASE ~registered
  <2>1. reader' = reader /\ UNCHANGED <<queue, queuedBytes, wake>>
    BY <1>1, <1>10
  <2> QED
    BY <1>9, <1>10, <2>1
<1>11. CASE registered /\ Refuses(chunk)
  BY <1>1, <1>9, <1>11 DEF chunk
<1>12. CASE registered /\ ~Refuses(chunk)
  <2>0. /\ Len(output) \in Nat /\ Len(queue) \in Nat
        /\ output = <<>> <=> Len(output) = 0
        /\ queue = <<>> <=> Len(queue) = 0
    BY <1>0, ChunkTypes
  <2>1. Accept(chunk) /\ reader' = reader /\ reader = "reading"
    BY <1>1, <1>12 DEF Publish, chunk
  <2>2. /\ Len(queue') = Len(queue) + 1
        /\ queue'[Len(queue) + 1] = chunk
        /\ \A i \in 1 .. Len(queue) : queue'[i] = queue[i]
        /\ queue' # <<>>
        /\ queue' \in Seq(Chunk)
    BY <1>0, <1>3, <2>1, AppendChunk DEF Accept, TypeOK
  <2>3. Before + Len(queue) = Len(output)
    BY <1>0, <1>12, <2>1 DEF Places
  <2>4. queuedBytes' = queuedBytes + size /\ queuedBytes' <= MaxBytes
    BY <1>0, <1>2, <1>3, <1>12, <2>1, MaxBytesAssumption
    DEF Accept, Refuses, Size, TypeOK
  <2>5. TypeOK'
    BY <1>0, <1>2, <1>4, <1>5, <1>6, <2>1, <2>2, <2>4 DEF TypeOK, Accept
  <2>6. Places'
    <3>1. \A i \in 1 .. Len(received)' : received'[i] = output'[i]
      BY <1>0, <1>4, <1>5, BeforeType, ChunkTypes DEF Places
    <3>2. writing' # NoChunk => writing' = output'[Len(received)' + 1]
      BY <1>0, <1>4, <1>5, BeforeType, ChunkTypes DEF Places
    <3>3. Holding' => Before' >= 1 /\ held' = output'[Before']
      BY <1>0, <1>4, <1>5, <1>8, ChunkTypes DEF Places, Holding
    <3>4. /\ \A i \in 1 .. Len(queue)' : queue'[i] = output'[Before' + i]
          /\ Before' + Len(queue') = Len(output')
          /\ Before' + Len(queue') <= Len(output')
      <4>1. Before' + Len(queue') = Len(output')
        <5>1. Len(output') = Len(output) + 1 /\ Len(queue') = Len(queue) + 1
          BY <1>5, <2>2
        <5>2. Before' = Before /\ Before \in Nat
          BY <1>8
        <5> QED
          BY <2>0, <2>3, <5>1, <5>2
      <4>2. \A i \in 1 .. Len(queue) :
              queue'[i] = output'[Before + i] /\ Before + i \in 1 .. Len(output)
        BY <1>0, <1>5, <1>8, <2>2, <2>3, ChunkTypes DEF Places
      <4>3. queue'[Len(queue) + 1] = output'[Before + Len(queue) + 1]
        BY <1>5, <2>2, <2>3
      <4> QED
        <5>1. Before' = Before /\ Before \in Nat /\ Len(queue') = Len(queue) + 1
          BY <1>8, <2>2
        <5>2. ASSUME NEW i \in 1 .. Len(queue) + 1
              PROVE  queue'[i] = output'[Before + i]
          <6>1. CASE i \in 1 .. Len(queue)
            BY <4>2, <6>1
          <6>2. CASE i = Len(queue) + 1
            <7>1. Before + Len(queue) + 1 = Before + i
              BY <2>0, <5>1, <6>2
            <7> QED
              BY <4>3, <6>2, <7>1
          <6> QED
            BY <2>0, <6>1, <6>2
        <5> QED
          BY <2>0, <2>3, <4>1, <5>1, <5>2
    <3> QED
      BY <3>1, <3>2, <3>3, <3>4 DEF Places
  <2>7. Control' /\ NoLostWakeup'
    BY <1>0, <1>4, <2>1 DEF Control, NoLostWakeup, Holding, Accept
  <2>8. Outstanding' = Outstanding + size
    <3>1. CASE queue # <<>>
      <4>1. queue[Len(queue)] = output[Len(output)] /\ output # <<>>
        <5>1. Len(queue) \in 1 .. Len(queue)
          BY <1>0, <3>1, ChunkTypes
        <5>2. queue[Len(queue)] = output[Before + Len(queue)]
          BY <1>0, <5>1 DEF Places
        <5> QED
          BY <1>8, <2>3, <3>1, <5>2, <2>0
      <4>2. queue[Len(queue)].to = position
        BY <1>0, <4>1 DEF Tiling
      <4>3. queue'[1] = queue[1]
        BY <1>0, <2>2, <3>1, ChunkTypes
      <4> QED
        BY <1>0, <1>2, <1>3, <1>4, <2>2, <3>1, <4>2, <4>3, ChunkTypes
        DEF Outstanding, Holding
    <3>2. CASE queue = <<>> /\ Holding
      <4>1. held = output[Len(output)] /\ output # <<>>
        BY <1>0, <1>8, <2>3, <3>2, ChunkTypes DEF Places
      <4>2. held.to = position
        BY <1>0, <4>1 DEF Tiling
      <4> QED
        BY <1>0, <1>2, <1>3, <1>4, <2>2, <3>2, <4>2, ChunkTypes
        DEF Outstanding, Holding
    <3>3. CASE queue = <<>> /\ ~Holding
      BY <1>0, <1>2, <1>3, <1>4, <2>2, <3>3, ChunkTypes DEF Outstanding, Holding
    <3> QED
      BY <3>1, <3>2, <3>3
  <2>9. ByteAccounting'
    BY <1>0, <2>4, <2>8 DEF ByteAccounting
  <2> QED
    BY <1>7, <2>5, <2>6, <2>7, <2>9 DEF IInv
<1> QED
  BY <1>10, <1>11, <1>12

\* Most steps move no chunk: whatever they do to the flags, every chunk keeps
\* its place as long as run() neither enters nor leaves "account".
LEMMA ChunksStay ==
  ASSUME IInv,
         UNCHANGED <<output, position, queue, queuedBytes, held, writing, received>>,
         runner = "account" <=> runner' = "account",
         registered' /\ reader' = "reading" => registered /\ reader = "reading"
  PROVE  Tiling' /\ Places' /\ ByteAccounting'
<1>1. Before' = Before /\ (Holding' <=> Holding) /\ Outstanding' = Outstanding
  BY DEF Before, Holding, Outstanding
<1>2. Tiling'
  BY DEF IInv, Tiling
<1>3. Places'
  BY <1>1 DEF IInv, Places
<1>4. ByteAccounting'
  BY <1>1 DEF IInv, ByteAccounting
<1> QED
  BY <1>2, <1>3, <1>4

\* The steps that only end the attachment or move a goroutine.
LEMMA FlagStepsPreserve ==
  ASSUME IInv,
         \/ DropLagging \/ CloseSubscribers \/ WakeUp \/ SeeDone \/ CloseUpdates
         \/ WriteHistory \/ FramesEnd \/ SelectEnd \/ WriteFails \/ Detach
         \/ UNCHANGED vars
  PROVE  IInv'
<1> USE DEF readerVars, subscriberVars, runnerVars, clientVars
<1>0. TypeOK /\ Control /\ NoLostWakeup
  BY DEF IInv
<1>1. TypeOK'
  <2>1. CASE DropLagging
    BY <1>0, <2>1 DEF TypeOK, DropLagging
  <2>2. CASE CloseSubscribers
    BY <1>0, <2>2 DEF TypeOK, CloseSubscribers
  <2>3. CASE WakeUp
    BY <1>0, <2>3 DEF TypeOK, WakeUp
  <2>4. CASE SeeDone
    BY <1>0, <2>4 DEF TypeOK, SeeDone
  <2>5. CASE CloseUpdates
    BY <1>0, <2>5 DEF TypeOK, CloseUpdates
  <2>6. CASE WriteHistory
    BY <1>0, <2>6 DEF TypeOK, WriteHistory
  <2>7. CASE FramesEnd
    BY <1>0, <2>7 DEF TypeOK, FramesEnd
  <2>8. CASE SelectEnd
    BY <1>0, <2>8 DEF TypeOK, SelectEnd
  <2>9. CASE WriteFails
    BY <1>0, <2>9 DEF TypeOK, WriteFails
  <2>10. CASE Detach
    BY <1>0, <2>10 DEF TypeOK, Detach
  <2>11. CASE UNCHANGED vars
    BY <1>0, <2>11 DEF TypeOK, vars
  <2> QED
    BY <2>1, <2>2, <2>3, <2>4, <2>5, <2>6, <2>7, <2>8, <2>9, <2>10, <2>11
<1>2. Control' /\ NoLostWakeup'
  <2>1. CASE DropLagging
    BY <1>0, <2>1 DEF TypeOK, Control, NoLostWakeup, Holding, DropLagging
  <2>2. CASE CloseSubscribers
    BY <1>0, <2>2 DEF TypeOK, Control, NoLostWakeup, Holding, CloseSubscribers
  <2>3. CASE WakeUp
    BY <1>0, <2>3 DEF TypeOK, Control, NoLostWakeup, Holding, WakeUp
  <2>4. CASE SeeDone
    BY <1>0, <2>4 DEF TypeOK, Control, NoLostWakeup, Holding, SeeDone
  <2>5. CASE CloseUpdates
    BY <1>0, <2>5 DEF TypeOK, Control, NoLostWakeup, Holding, CloseUpdates
  <2>6. CASE WriteHistory
    BY <1>0, <2>6 DEF TypeOK, Control, NoLostWakeup, Holding, WriteHistory
  <2>7. CASE FramesEnd
    BY <1>0, <2>7 DEF TypeOK, Control, NoLostWakeup, Holding, FramesEnd
  <2>8. CASE SelectEnd
    BY <1>0, <2>8 DEF TypeOK, Control, NoLostWakeup, Holding, SelectEnd
  <2>9. CASE WriteFails
    BY <1>0, <2>9 DEF TypeOK, Control, NoLostWakeup, Holding, WriteFails
  <2>10. CASE Detach
    BY <1>0, <2>10 DEF TypeOK, Control, NoLostWakeup, Holding, Detach
  <2>11. CASE UNCHANGED vars
    BY <1>0, <2>11 DEF TypeOK, Control, NoLostWakeup, Holding, vars
  <2> QED
    BY <2>1, <2>2, <2>3, <2>4, <2>5, <2>6, <2>7, <2>8, <2>9, <2>10, <2>11
<1>3. /\ UNCHANGED <<output, position, queue, queuedBytes, held, writing, received>>
      /\ runner = "account" <=> runner' = "account"
      /\ registered' /\ reader' = "reading" => registered /\ reader = "reading"
  <2>1. CASE DropLagging
    BY <2>1 DEF DropLagging
  <2>2. CASE CloseSubscribers
    BY <2>2 DEF CloseSubscribers
  <2>3. CASE WakeUp
    BY <2>3 DEF WakeUp
  <2>4. CASE SeeDone
    BY <2>4 DEF SeeDone
  <2>5. CASE CloseUpdates
    BY <2>5 DEF CloseUpdates
  <2>6. CASE WriteHistory
    BY <2>6 DEF WriteHistory
  <2>7. CASE FramesEnd
    BY <2>7 DEF FramesEnd
  <2>8. CASE SelectEnd
    BY <2>8 DEF SelectEnd
  <2>9. CASE WriteFails
    BY <2>9 DEF WriteFails
  <2>10. CASE Detach
    BY <2>10 DEF Detach
  <2>11. CASE UNCHANGED vars
    BY <2>11 DEF vars
  <2> QED
    BY <2>1, <2>2, <2>3, <2>4, <2>5, <2>6, <2>7, <2>8, <2>9, <2>10, <2>11
<1>4. Tiling' /\ Places' /\ ByteAccounting'
  BY <1>3, ChunksStay
<1> QED
  BY <1>1, <1>2, <1>4 DEF IInv

\* run() hands its chunk to handleAttach: it is counted as being written now.
LEMMA HandOverPreserves == IInv /\ HandOver => IInv'
<1> SUFFICES ASSUME IInv, HandOver PROVE IInv'
  OBVIOUS
<1> USE DEF readerVars, subscriberVars
<1>0. TypeOK /\ Tiling /\ Places /\ Control /\ ByteAccounting /\ NoLostWakeup
  BY DEF IInv
<1>1. Holding /\ writing = NoChunk /\ writing' = held /\ held' = held
      /\ runner = "send" /\ runner' = "account"
  BY <1>0 DEF HandOver, Control
<1>2. Len(received) \in Nat /\ Before = Len(received) + 1
  BY <1>0, <1>1, ChunkTypes DEF Before
<1>3. Before' = Before /\ (Holding' <=> Holding) /\ Outstanding' = Outstanding
  <2>1. UNCHANGED <<received, queue, held>>
    BY DEF HandOver
  <2>2. Before' = Len(received) + 1
    BY <1>1, <1>2, <2>1 DEF Before, Holding
  <2> QED
    BY <1>2, <2>1, <2>2 DEF Holding, Outstanding
<1>4. TypeOK' /\ Control' /\ NoLostWakeup'
  BY <1>0, <1>1 DEF HandOver, TypeOK, Control, NoLostWakeup, Holding
<1>5. Tiling' /\ ByteAccounting'
  BY <1>0, <1>3 DEF HandOver, Tiling, ByteAccounting
<1>6. Places'
  <2>1. writing' = output[Len(received) + 1]
    BY <1>0, <1>1, <1>2 DEF Places
  <2>2. UNCHANGED <<output, received, queue, held, registered, reader>>
    BY DEF HandOver
  <2> QED
    BY <1>0, <1>3, <2>1, <2>2 DEF Places
<1> QED
  BY <1>4, <1>5, <1>6 DEF IInv

\* handleAttach has written its chunk: it is counted as received now.
LEMMA WriteChunkPreserves == IInv /\ WriteChunk => IInv'
<1> SUFFICES ASSUME IInv, WriteChunk PROVE IInv'
  OBVIOUS
<1> USE DEF readerVars, subscriberVars, runnerVars
<1>0. TypeOK /\ Tiling /\ Places /\ Control /\ ByteAccounting /\ NoLostWakeup
  BY DEF IInv
<1>1. /\ received' = Append(received, writing)
      /\ writing # NoChunk /\ writing' = NoChunk /\ writing \in Chunk
      /\ UNCHANGED <<output, queue, held, runner, registered, reader>>
  BY <1>0 DEF WriteChunk, Control, TypeOK
<1>2. /\ received' \in Seq(Chunk)
      /\ Len(received') = Len(received) + 1
      /\ received'[Len(received) + 1] = writing
      /\ \A i \in 1 .. Len(received) : received'[i] = received[i]
  BY <1>0, <1>1, AppendChunk DEF TypeOK
<1>3. Len(received) \in Nat /\ Before \in Nat
  BY <1>0, BeforeType
<1>4. Before' = Before /\ (Holding' <=> Holding) /\ Outstanding' = Outstanding
  <2> DEFINE h == IF Holding /\ runner # "account" THEN 1 ELSE 0
  <2>1. Before = Len(received) + 1 + h
    BY <1>1 DEF Before
  <2>2. Before' = Len(received) + 1 + 0 + h
    BY <1>1, <1>2 DEF Before, Holding
  <2>3. h \in Nat
    OBVIOUS
  <2> HIDE DEF h
  <2> QED
    BY <1>1, <1>3, <2>1, <2>2, <2>3 DEF Holding, Outstanding
<1>5. TypeOK' /\ Control' /\ NoLostWakeup'
  <2>1. NoChunk \in Chunk
    BY MaxPositionAssumption DEF NoChunk, Chunk
  <2> QED
    BY <1>0, <1>1, <1>2, <2>1
    DEF WriteChunk, TypeOK, Control, NoLostWakeup, Holding
<1>6. Tiling' /\ ByteAccounting'
  BY <1>0, <1>4 DEF WriteChunk, Tiling, ByteAccounting
<1>7. Places'
  <2>1. writing = output[Len(received) + 1]
    BY <1>0, <1>1 DEF Places
  <2>2. \A i \in 1 .. Len(received) + 1 : received'[i] = output[i]
    BY <1>0, <1>2, <1>3, <2>1 DEF Places
  <2> QED
    BY <1>0, <1>1, <1>2, <1>4, <2>2 DEF Places
<1> QED
  BY <1>5, <1>6, <1>7 DEF IInv

\* run() takes the head of the queue, or goes to sleep on an empty one.
LEMMA DequeuePreserves == IInv /\ Dequeue => IInv'
<1> SUFFICES ASSUME IInv, Dequeue PROVE IInv'
  OBVIOUS
<1> USE DEF readerVars, clientVars
<1>0. TypeOK /\ Tiling /\ Places /\ Control /\ ByteAccounting /\ NoLostWakeup
  BY DEF IInv
<1>1. runner = "dequeue" /\ ~Holding
  BY <1>0 DEF Dequeue, Control
<1>2. UNCHANGED <<output, position, reader, registered, exited, queuedBytes,
                  wake, closed, updatesClosed, client, writing, received,
                  framesDone>>
  BY DEF Dequeue
<1>3. /\ Len(output) \in Nat /\ Len(queue) \in Nat /\ Before \in Nat
      /\ Len(received) \in Nat
  BY <1>0, ChunkTypes, BeforeType
<1>4. CASE queue = <<>>
  <2>1. queue' = queue /\ held' = held /\ runner' = "wait"
    BY <1>4 DEF Dequeue
  <2>2. Tiling' /\ Places' /\ ByteAccounting'
    BY <1>1, <1>2, <2>1, ChunksStay
  <2>3. TypeOK' /\ Control' /\ NoLostWakeup'
    BY <1>0, <1>1, <1>2, <1>4, <2>1 DEF TypeOK, Control, NoLostWakeup, Holding
  <2> QED
    BY <2>2, <2>3 DEF IInv
<1>5. CASE queue # <<>>
  <2>1. held' = Head(queue) /\ queue' = Tail(queue) /\ runner' = "send"
    BY <1>5 DEF Dequeue
  <2>2. /\ held' = queue[1] /\ held' \in Chunk
        /\ queue' \in Seq(Chunk)
        /\ Len(queue) >= 1 /\ Len(queue') = Len(queue) - 1
        /\ \A i \in 1 .. Len(queue) - 1 : queue'[i] = queue[i + 1]
        /\ queue' = <<>> <=> Len(queue) = 1
    <3>1. queue \in Seq(Chunk) /\ queue # <<>>
      BY <1>0, <1>5 DEF TypeOK
    <3>2. /\ Head(queue) = queue[1] /\ Head(queue) \in Chunk
          /\ Tail(queue) \in Seq(Chunk) /\ Len(Tail(queue)) = Len(queue) - 1
          /\ \A i \in 1 .. Len(Tail(queue)) : Tail(queue)[i] = queue[i + 1]
      BY <3>1, HeadTailProperties
    <3>3. Len(queue) >= 1
      BY <1>3, <3>1, EmptySeq
    <3>4. \A s \in Seq(Chunk) : s = <<>> <=> Len(s) = 0
      BY EmptySeq
    <3>5. Tail(queue) = <<>> <=> Len(queue) = 1
      <4>1. Tail(queue) = <<>> <=> Len(Tail(queue)) = 0
        BY <3>2, <3>4
      <4> QED
        BY <1>3, <3>2, <4>1
    <3> QED
      BY <2>1, <3>2, <3>3, <3>5
  <2>3. held' = output[Before + 1] /\ Before + 1 \in 1 .. Len(output)
    BY <1>0, <1>3, <2>2 DEF Places
  <2>4. Holding'
    BY <1>0, <2>3 DEF Tiling, Holding, NoChunk
  <2>5. Before' = Before + 1
    <3> DEFINE w == IF writing # NoChunk THEN 1 ELSE 0
    <3>1. Before = Len(received) + w + 0
      BY <1>1 DEF Before
    <3>2. Before' = Len(received) + w + 1
      BY <1>2, <2>1, <2>4 DEF Before
    <3>3. w \in Nat
      OBVIOUS
    <3> HIDE DEF w
    <3> QED
      BY <1>3, <3>1, <3>2, <3>3
  <2>6. TypeOK' /\ Control' /\ NoLostWakeup'
    BY <1>0, <1>2, <2>1, <2>2, <2>4 DEF TypeOK, Control, NoLostWakeup
  <2>7. Tiling'
    BY <1>0, <1>2 DEF Tiling
  <2>8. Outstanding' = Outstanding
    <3>1. CASE Len(queue) = 1
      BY <1>1, <1>5, <2>2, <2>4, <3>1 DEF Outstanding
    <3>2. CASE Len(queue) # 1
      <4>1. queue'[Len(queue')] = queue[Len(queue)]
        BY <1>3, <2>2, <3>2
      <4> QED
        BY <1>1, <1>5, <2>2, <2>4, <3>2, <4>1 DEF Outstanding
    <3> QED
      BY <3>1, <3>2
  <2>9. Places'
    <3>1. \A i \in 1 .. Len(queue') : queue'[i] = output[Before' + i]
      <4> SUFFICES ASSUME NEW i \in 1 .. Len(queue')
                   PROVE  queue'[i] = output[Before' + i]
        OBVIOUS
      <4>1. i + 1 \in 1 .. Len(queue) /\ queue'[i] = queue[i + 1]
        BY <1>3, <2>2
      <4>2. queue[i + 1] = output[Before + (i + 1)]
        BY <1>0, <4>1 DEF Places
      <4>3. Before + (i + 1) = Before' + i
        BY <1>3, <2>5
      <4> QED
        BY <4>1, <4>2, <4>3
    <3>2. Before' + Len(queue') = Before + Len(queue)
      BY <1>3, <2>2, <2>5
    <3> QED
      BY <1>0, <1>2, <1>3, <2>3, <2>5, <3>1, <3>2 DEF Places
  <2> QED
    BY <1>0, <1>2, <2>6, <2>7, <2>8, <2>9 DEF IInv, ByteAccounting
<1> QED
  BY <1>4, <1>5

\* delivered: the chunk that was handed over leaves the account.
LEMMA DeliveredPreserves == IInv /\ Delivered => IInv'
<1> SUFFICES ASSUME IInv, Delivered PROVE IInv'
  OBVIOUS
<1> USE DEF readerVars, clientVars
<1>0. TypeOK /\ Tiling /\ Places /\ Control /\ ByteAccounting /\ NoLostWakeup
  BY DEF IInv
<1>1. Holding /\ runner = "account" /\ runner' = "dequeue" /\ held' = NoChunk
  BY <1>0 DEF Delivered, Control
<1>2. UNCHANGED <<output, position, reader, registered, exited, queue, wake,
                  closed, updatesClosed, client, writing, received, framesDone>>
  BY DEF Delivered
<1>3. /\ Len(output) \in Nat /\ Len(queue) \in Nat /\ Before \in Nat
      /\ queue = <<>> <=> Len(queue) = 0
      /\ held.from \in Nat /\ held.to \in Nat
      /\ \A i \in 1 .. Len(queue) : queue[i].from \in Nat /\ queue[i].to \in Nat
      /\ \A i \in 1 .. Len(output) : output[i].from \in Nat /\ output[i].to \in Nat
  BY <1>0, ChunkTypes, BeforeType
<1>4. Before' = Before /\ ~Holding'
  BY <1>1, <1>2 DEF Before, Holding
<1>5. Before >= 1 /\ held = output[Before] /\ Before + Len(queue) <= Len(output)
  BY <1>0, <1>1 DEF Places
<1>6. queuedBytes' = queuedBytes - (held.to - held.from)
  BY DEF Delivered, Size
<1>7. queuedBytes' \in Nat /\ queuedBytes' = Outstanding' /\ queuedBytes' <= queuedBytes
  <2>1. held.from < held.to
    BY <1>0, <1>3, <1>5 DEF Tiling
  <2>2. CASE queue = <<>>
    <3>1. queuedBytes = held.to - held.from
      BY <1>0, <1>1, <2>2 DEF ByteAccounting, Outstanding
    <3>2. Outstanding' = 0
      BY <1>2, <1>4, <2>2 DEF Outstanding
    <3> QED
      BY <1>3, <1>6, <2>1, <3>1, <3>2
  <2>3. CASE queue # <<>>
    <3>1. queuedBytes = queue[Len(queue)].to - held.from
      BY <1>0, <1>1, <2>3 DEF ByteAccounting, Outstanding
    <3>2. Outstanding' = queue[Len(queue)].to - queue[1].from
      BY <1>2, <1>4, <2>3 DEF Outstanding
    <3>3. Len(queue) >= 1 /\ 1 \in 1 .. Len(queue) /\ Len(queue) \in 1 .. Len(queue)
      BY <1>3, <2>3
    <3>4. /\ queue[1] = output[Before + 1]
          /\ queue[Len(queue)] = output[Before + Len(queue)]
      BY <1>0, <3>3 DEF Places
    <3>5. /\ Before \in 1 .. Len(output) /\ Before \in 1 .. Len(output) - 1
          /\ Before + 1 \in 1 .. Len(output)
          /\ Before + Len(queue) \in 1 .. Len(output)
          /\ Len(queue) = 1 \/ Before + 1 < Before + Len(queue)
      <4> DEFINE n == Len(queue)
                 m == Len(output)
      <4>1. n \in Nat /\ m \in Nat /\ Before \in Nat /\ n >= 1 /\ Before >= 1
            /\ Before + n <= m
        BY <1>3, <1>5, <3>3
      <4> HIDE DEF n, m
      <4>2. /\ Before \in 1 .. m /\ Before \in 1 .. m - 1
            /\ Before + 1 \in 1 .. m /\ Before + n \in 1 .. m
            /\ n = 1 \/ Before + 1 < Before + n
        BY <4>1
      <4> QED
        BY <4>2 DEF n, m
    <3>6. held.to = queue[1].from
      BY <1>0, <1>5, <3>4, <3>5 DEF Tiling
    <3>7. queue[1].from < queue[1].to
      BY <1>0, <3>4, <3>5 DEF Tiling
    <3>8. queue[1].to <= queue[Len(queue)].to
      <4>1. CASE Len(queue) = 1
        BY <1>3, <3>3, <4>1
      <4>2. CASE Len(queue) # 1
        <5>1. output[Before + 1].to <= output[Before + Len(queue)].from
          BY <1>0, <3>5, <4>2 DEF Tiling
        <5>2. output[Before + Len(queue)].from < output[Before + Len(queue)].to
          BY <1>0, <3>5 DEF Tiling
        <5> QED
          BY <1>3, <3>4, <3>5, <5>1, <5>2
      <4> QED
        BY <4>1, <4>2
    <3> QED
      BY <1>3, <1>6, <2>1, <3>1, <3>2, <3>3, <3>6, <3>7, <3>8
  <2> QED
    BY <2>2, <2>3
<1>8. ByteAccounting'
  <2>1. queuedBytes \in Nat /\ queuedBytes <= MaxBytes
    BY <1>0 DEF TypeOK, ByteAccounting
  <2> QED
    BY <1>7, <2>1, MaxBytesAssumption DEF ByteAccounting
<1>9. TypeOK' /\ Control' /\ NoLostWakeup'
  <2>1. NoChunk \in Chunk
    BY MaxPositionAssumption DEF NoChunk, Chunk
  <2> QED
    BY <1>0, <1>1, <1>2, <1>4, <1>7, <2>1 DEF TypeOK, Control, NoLostWakeup
<1>10. Tiling' /\ Places'
  BY <1>0, <1>2, <1>4 DEF Tiling, Places
<1> QED
  BY <1>8, <1>9, <1>10 DEF IInv

\* Every step of the reader, the goroutines and the handler keeps the invariant.
LEMMA NextPreserves == IInv /\ [Next]_vars => IInv'
  BY PublishPreserves, FlagStepsPreserve, HandOverPreserves, WriteChunkPreserves,
     DequeuePreserves, DeliveredPreserves
  DEF Next, Run, Client

\* The inductive invariant holds in every reachable state.
THEOREM Invariance == Spec => []IInv
  BY InitEstablishes, NextPreserves, PTL DEF Spec

\* Type correctness of the output path (output_subscriber.go, attach.go).
THEOREM TypeCorrect == Spec => []TypeOK
  BY Invariance, PTL DEF IInv

\* queuedBytes is exact and the backlog stays within the limit, for every limit
\* and every sequence of chunk sizes (enqueue 29-42, delivered 87-91).
THEOREM BacklogBounded == Spec => []ByteAccounting
  BY Invariance, PTL DEF IInv

\* run() never sleeps while a chunk is queued (enqueue 37-40, run 67-71).
THEOREM WakeupsNotLost == Spec => []NoLostWakeup
  BY Invariance, PTL DEF IInv

------------------------------------------------------------------------------
\* Two parts that each match their place of a sequence match it together.
LEMMA ConcatMatches ==
  ASSUME NEW s \in Seq(Chunk), NEW t \in Seq(Chunk), NEW whole \in Seq(Chunk),
         \A i \in 1 .. Len(s) : s[i] = whole[i],
         \A i \in 1 .. Len(t) : t[i] = whole[Len(s) + i]
  PROVE  /\ s \o t \in Seq(Chunk)
         /\ Len(s \o t) = Len(s) + Len(t)
         /\ \A i \in 1 .. Len(s \o t) : (s \o t)[i] = whole[i]
<1>1. /\ s \o t \in Seq(Chunk)
      /\ Len(s \o t) = Len(s) + Len(t)
      /\ Len(s) \in Nat /\ Len(t) \in Nat
      /\ \A i \in 1 .. Len(s) + Len(t) :
           (s \o t)[i] = IF i <= Len(s) THEN s[i] ELSE t[i - Len(s)]
  BY ConcatProperties
<1>2. ASSUME NEW i \in 1 .. Len(s) + Len(t)
      PROVE  (s \o t)[i] = whole[i]
  <2>1. CASE i <= Len(s)
    BY <1>1, <2>1
  <2>2. CASE i > Len(s)
    <3>1. i - Len(s) \in 1 .. Len(t) /\ Len(s) + (i - Len(s)) = i
      BY <1>1, <2>2
    <3>2. (s \o t)[i] = t[i - Len(s)]
      BY <1>1, <2>2
    <3> QED
      BY <3>1, <3>2
  <2> QED
    BY <1>1, <2>1, <2>2
<1> QED
  BY <1>1, <1>2

\* While the subscriber is registered nothing the session printed is missing
\* from what the client has, is being sent and has queued (shell.go 106-116,
\* manager.go 537-544, output_subscriber.go).
THEOREM StreamHasNoHole == Spec => []NothingSkipped
<1>1. IInv => NothingSkipped
  <2> SUFFICES ASSUME IInv, registered, reader = "reading"
               PROVE  Pipeline = output
    BY DEF NothingSkipped
  <2> DEFINE W == IF writing = NoChunk THEN <<>> ELSE <<writing>>
             H == IF Holding /\ runner # "account" THEN <<held>> ELSE <<>>
             w == IF writing # NoChunk THEN 1 ELSE 0
             h == IF Holding /\ runner # "account" THEN 1 ELSE 0
  <2>0. TypeOK /\ Places
    BY DEF IInv
  <2>1. /\ output \in Seq(Chunk) /\ received \in Seq(Chunk) /\ queue \in Seq(Chunk)
        /\ writing \in Chunk /\ held \in Chunk
        /\ Len(output) \in Nat /\ Len(received) \in Nat /\ Len(queue) \in Nat
    BY <2>0, ChunkTypes DEF TypeOK
  <2>2. /\ W \in Seq(Chunk) /\ Len(W) = w
        /\ \A i \in 1 .. Len(W) : W[i] = output[Len(received) + i]
    <3>1. CASE writing = NoChunk
      BY <3>1, EmptySeq
    <3>2. CASE writing # NoChunk
      BY <2>0, <2>1, <3>2 DEF Places
    <3> QED
      BY <3>1, <3>2
  <2>3. Before = Len(received) + w + h
    BY DEF Before
  <2>4. w \in Nat
    OBVIOUS
  <2>5. /\ H \in Seq(Chunk) /\ Len(H) = h
        /\ \A i \in 1 .. Len(H) : H[i] = output[(Len(received) + w) + i]
    <3>1. CASE Holding /\ runner # "account"
      <4>1. H = <<held>> /\ h = 1
        BY <3>1
      <4>2. held = output[Before]
        BY <2>0, <3>1 DEF Places
      <4> HIDE DEF w, h, W, H
      <4>3. held = output[(Len(received) + w) + 1]
        BY <2>3, <4>1, <4>2
      <4>4. <<held>> \in Seq(Chunk) /\ Len(<<held>>) = 1 /\ <<held>>[1] = held
        BY <2>1
      <4> QED
        BY <4>1, <4>3, <4>4
    <3>2. CASE ~(Holding /\ runner # "account")
      <4>1. H = <<>> /\ h = 0
        BY <3>2
      <4> HIDE DEF w, h, W, H
      <4> QED
        BY <4>1, EmptySeq
    <3> QED
      BY <3>1, <3>2
  <2>6. Pipeline = ((received \o W) \o H) \o queue
    BY DEF Pipeline
  <2> HIDE DEF W, H, w, h
  <2>7. /\ received \o W \in Seq(Chunk)
        /\ Len(received \o W) = Len(received) + w
        /\ \A i \in 1 .. Len(received \o W) : (received \o W)[i] = output[i]
    BY <2>0, <2>1, <2>2, ConcatMatches DEF Places
  <2>8. /\ (received \o W) \o H \in Seq(Chunk)
        /\ Len((received \o W) \o H) = Before
        /\ \A i \in 1 .. Len((received \o W) \o H) :
             ((received \o W) \o H)[i] = output[i]
    <3> DEFINE P == received \o W
    <3>1. /\ P \in Seq(Chunk) /\ Len(P) = Len(received) + w
          /\ \A i \in 1 .. Len(P) : P[i] = output[i]
      BY <2>7
    <3> HIDE DEF P
    <3>2. \A i \in 1 .. Len(H) : H[i] = output[Len(P) + i]
      BY <2>5, <3>1
    <3>3. /\ P \o H \in Seq(Chunk) /\ Len(P \o H) = Len(P) + Len(H)
          /\ \A i \in 1 .. Len(P \o H) : (P \o H)[i] = output[i]
      BY <2>1, <2>5, <3>1, <3>2, ConcatMatches
    <3>4. Len(P \o H) = Before
      BY <2>3, <2>5, <3>1, <3>3
    <3> QED
      BY <3>3, <3>4 DEF P
  <2>9. /\ ((received \o W) \o H) \o queue \in Seq(Chunk)
        /\ Len(((received \o W) \o H) \o queue) = Before + Len(queue)
        /\ \A i \in 1 .. Len(((received \o W) \o H) \o queue) :
             (((received \o W) \o H) \o queue)[i] = output[i]
    <3> DEFINE P == (received \o W) \o H
    <3>1. /\ P \in Seq(Chunk) /\ Len(P) = Before
          /\ \A i \in 1 .. Len(P) : P[i] = output[i]
      BY <2>8
    <3> HIDE DEF P
    <3>2. \A i \in 1 .. Len(queue) : queue[i] = output[Len(P) + i]
      BY <2>0, <3>1 DEF Places
    <3>3. /\ P \o queue \in Seq(Chunk) /\ Len(P \o queue) = Len(P) + Len(queue)
          /\ \A i \in 1 .. Len(P \o queue) : (P \o queue)[i] = output[i]
      <4>1. P \in Seq(Chunk) /\ queue \in Seq(Chunk) /\ output \in Seq(Chunk)
        BY <2>1, <3>1
      <4>2. \A i \in 1 .. Len(P) : P[i] = output[i]
        BY <3>1
      <4> QED
        BY <3>2, <4>1, <4>2, ConcatMatches
    <3> QED
      BY <3>1, <3>3 DEF P
  <2>10. Before + Len(queue) = Len(output)
    BY <2>0 DEF Places
  <2> QED
    BY <2>1, <2>6, <2>9, <2>10, SeqEqual
<1> QED
  BY <1>1, Invariance, PTL

\* A subscriber is cut off for lagging only when its client is behind by more
\* than the window, up to the one chunk not yet subtracted (enqueue 32).
THEOREM CutIsDeserved == Spec => CutOnlyWhenBehind
<1> DEFINE seen == IF received = <<>> THEN 0 ELSE received[Len(received)].to
           slack == IF runner = "account" THEN Size(held) ELSE 0
<1>1. ASSUME IInv, [Next]_vars, reader = "reading", reader' = "dropping"
      PROVE  position' - seen + slack > MaxBytes
  <2>0. TypeOK /\ Tiling /\ Places /\ Control /\ ByteAccounting
    BY <1>1 DEF IInv
  <2>1. Publish
    BY <1>1 DEF Next, Run, Client, DropLagging, CloseSubscribers, Dequeue, HandOver,
      Delivered, WakeUp, SeeDone, CloseUpdates, WriteHistory, FramesEnd, SelectEnd,
      WriteChunk, WriteFails, Detach, vars, readerVars
  <2>2. PICK size \in ChunkSizes :
          /\ position' = position + size
          /\ registered
          /\ closed \/ queuedBytes + size > MaxBytes
    <3>1. \A size \in ChunkSizes :
            Size([from |-> position, to |-> position + size]) = size
      BY <2>0, ChunkSizesAssumption DEF Size, TypeOK
    <3> QED
      BY <1>1, <2>1, <3>1 DEF Publish, Refuses, Accept
  <2>3. queuedBytes + size > MaxBytes /\ size \in Nat
    BY <2>0, <2>2, ChunkSizesAssumption DEF Control
  <2>4. /\ Len(output) \in Nat /\ Len(queue) \in Nat /\ Len(received) \in Nat
        /\ Before \in Nat /\ Len(received) <= Before
        /\ received = <<>> <=> Len(received) = 0
        /\ queue = <<>> <=> Len(queue) = 0
        /\ output = <<>> <=> Len(output) = 0
        /\ position \in Nat /\ held.from \in Nat /\ held.to \in Nat
        /\ \A i \in 1 .. Len(output) : output[i].from \in Nat /\ output[i].to \in Nat
    <3>1. received = <<>> <=> Len(received) = 0
      BY <2>0, EmptySeq DEF TypeOK
    <3> QED
      BY <2>0, <3>1, ChunkTypes, BeforeType DEF TypeOK
  <2>5. Before + Len(queue) = Len(output)
    BY <1>1, <2>0, <2>2 DEF Places
  <2>6. \A i \in 1 .. Len(output) : Len(received) < i => seen <= output[i].from
    <3>1. CASE Len(received) = 0
      BY <2>4, <3>1
    <3>2. CASE Len(received) # 0
      <4>1. Len(received) \in 1 .. Len(received) /\ Len(received) \in 1 .. Len(output)
        BY <2>4, <2>5, <3>2
      <4>2. seen = output[Len(received)].to
        BY <2>0, <2>4, <3>2, <4>1 DEF Places
      <4> QED
        BY <2>0, <2>4, <4>1, <4>2 DEF Tiling
    <3> QED
      BY <3>1, <3>2
  <2>7. seen \in Nat /\ seen <= position
    <3>1. CASE Len(received) = 0
      BY <2>4, <3>1
    <3>2. CASE Len(received) # 0
      <4>1. /\ Len(received) \in 1 .. Len(received)
            /\ Len(received) \in 1 .. Len(output)
            /\ Len(output) \in 1 .. Len(output)
        BY <2>4, <2>5, <3>2
      <4>2. seen = output[Len(received)].to
        BY <2>0, <2>4, <3>2, <4>1 DEF Places
      <4>3. position = output[Len(output)].to
        BY <2>0, <2>4, <4>1 DEF Tiling
      <4>4. Len(received) < Len(output) => output[Len(received)].to <= output[Len(output)].from
        BY <2>0, <4>1 DEF Tiling
      <4>5. output[Len(output)].from < output[Len(output)].to
        BY <2>0, <4>1 DEF Tiling
      <4> QED
        BY <2>4, <4>1, <4>2, <4>3, <4>4, <4>5
    <3> QED
      BY <2>4, <3>1, <3>2
  <2> HIDE DEF seen
  <2>8. CASE ~Holding /\ queue = <<>>
    <3>1. queuedBytes = 0
      BY <2>0, <2>8 DEF ByteAccounting, Outstanding
    <3>2. slack = 0
      BY <2>0, <2>8 DEF Control
    <3> HIDE DEF slack
    <3> QED
      BY <2>2, <2>3, <2>4, <2>7, <3>1, <3>2, MaxBytesAssumption
  <2>9. CASE ~Holding /\ queue # <<>>
    <3>1. /\ 1 \in 1 .. Len(queue) /\ Len(queue) \in 1 .. Len(queue)
          /\ Before + 1 \in 1 .. Len(output)
      BY <2>4, <2>5, <2>9
    <3>2. queue[1] = output[Before + 1] /\ queue[Len(queue)] = output[Len(output)]
      BY <2>0, <2>5, <3>1 DEF Places
    <3>3. queuedBytes = output[Len(output)].to - output[Before + 1].from
      BY <2>0, <2>9, <3>2 DEF ByteAccounting, Outstanding
    <3>4. position = output[Len(output)].to
      BY <2>0, <2>4, <3>1 DEF Tiling
    <3>5. seen <= output[Before + 1].from
      BY <2>4, <2>6, <3>1
    <3>6. slack = 0
      BY <2>0, <2>9 DEF Control
    <3>7. output[Before + 1].from \in Nat
      BY <2>4, <3>1
    <3>8. queuedBytes = position - output[Before + 1].from
      BY <3>3, <3>4
    <3>9. position \in Nat /\ position' = position + size /\ size \in Nat
      BY <2>2, <2>3, <2>4
    <3> HIDE DEF slack
    <3> QED
      BY <2>3, <2>7, <3>5, <3>6, <3>7, <3>8, <3>9, MaxBytesAssumption
  <2>10. CASE Holding
    <3>1. held = output[Before] /\ Before \in 1 .. Len(output)
      BY <2>0, <2>4, <2>10 DEF Places
    <3>2. queuedBytes = position - held.from
      <4>1. CASE queue = <<>>
        <5>1. Before = Len(output) /\ output # <<>>
          BY <2>4, <2>5, <3>1, <4>1
        <5>2. held.to = position
          BY <2>0, <3>1, <5>1 DEF Tiling
        <5> QED
          BY <2>0, <2>10, <4>1, <5>2 DEF ByteAccounting, Outstanding
      <4>2. CASE queue # <<>>
        <5>1. Len(queue) \in 1 .. Len(queue) /\ output # <<>>
          BY <2>4, <3>1, <4>2
        <5>2. queue[Len(queue)] = output[Len(output)]
          BY <2>0, <2>5, <5>1 DEF Places
        <5>3. queue[Len(queue)].to = position
          BY <2>0, <5>1, <5>2 DEF Tiling
        <5> QED
          BY <2>0, <2>10, <4>2, <5>3 DEF ByteAccounting, Outstanding
      <4> QED
        BY <4>1, <4>2
    <3>3. seen <= held.from + slack /\ slack \in Nat
      <4>1. held.from < held.to
        BY <2>0, <3>1 DEF Tiling
      <4>2. CASE Len(received) < Before
        <5>1. seen <= held.from
          BY <2>6, <3>1, <4>2
        <5>2. slack \in Nat
          BY <2>4, <4>1 DEF Size
        <5> HIDE DEF slack
        <5> QED
          BY <2>4, <2>7, <5>1, <5>2
      <4>3. CASE Len(received) = Before
        <5>1. runner = "account"
          <6> DEFINE w == IF writing # NoChunk THEN 1 ELSE 0
          <6>1. runner # "account" => Before = Len(received) + w + 1
            BY <2>10 DEF Before
          <6>2. w \in Nat
            OBVIOUS
          <6> HIDE DEF w
          <6> QED
            BY <2>4, <4>3, <6>1, <6>2
        <5>2. slack = held.to - held.from
          BY <5>1 DEF Size
        <5>3. seen = held.to
          <6>1. Len(received) \in 1 .. Len(received) /\ received # <<>>
            BY <2>4, <3>1, <4>3
          <6> QED
            BY <2>0, <3>1, <4>3, <6>1 DEF Places, seen
        <5> HIDE DEF slack
        <5> QED
          BY <2>4, <4>1, <5>2, <5>3
      <4> QED
        BY <2>4, <4>2, <4>3
    <3> HIDE DEF slack
    <3> QED
      BY <2>2, <2>3, <2>4, <2>7, <3>2, <3>3, MaxBytesAssumption
  <2> QED
    BY <2>8, <2>9, <2>10
<1>2. IInv /\ [Next]_vars => [reader = "reading" /\ reader' = "dropping" =>
        position' - seen + slack > MaxBytes]_vars
  BY <1>1
<1> QED
  BY <1>2, Invariance, PTL DEF CutOnlyWhenBehind, Spec

(***************************************************************************)
(* Refinement: what the client sees is a prefix of the output, cut at most *)
(* at the end.                                                             *)
(***************************************************************************)
LEMMA InitRefines == Init => Stream!Init
  BY DEF Init, Stream!Init

\* A step of the output path is a step of the promised stream, or none.
LEMMA StepRefines == IInv /\ [Next]_vars => [Stream!Next]_Stream!vars
<1> SUFFICES ASSUME IInv, [Next]_vars PROVE [Stream!Next]_Stream!vars
  OBVIOUS
<1> USE DEF readerVars, subscriberVars, runnerVars, clientVars
<1>1. CASE Publish
  <2>1. PICK size \in ChunkSizes :
          /\ position + size <= MaxPosition
          /\ output' = Append(output, [from |-> position, to |-> position + size])
    BY <1>1 DEF Publish
  <2>2. [from |-> position, to |-> position + size] \in Chunk
    BY <2>1, ChunkSizesAssumption, MaxPositionAssumption DEF IInv, TypeOK, Chunk
  <2>3. UNCHANGED <<received, client>>
    BY <1>1 DEF Publish
  <2>4. Stream!Produce
    BY <2>1, <2>2, <2>3 DEF Stream!Produce
  <2> QED
    BY <2>4 DEF Stream!Next
<1>2. CASE WriteChunk
  <2>1. writing # NoChunk /\ writing = output[Len(received) + 1]
    BY <1>2 DEF IInv, Control, Places, WriteChunk
  <2>2. Len(received) < Len(output)
    <3>1. /\ Before \in Nat /\ Len(received) + 1 <= Before /\ Len(received) \in Nat
          /\ Len(queue) \in Nat /\ Len(output) \in Nat
          /\ Before + Len(queue) <= Len(output)
      BY <2>1, BeforeType, ChunkTypes DEF IInv, Places
    <3> QED
      BY <3>1
  <2>3. Stream!Receive
    BY <1>2, <2>1, <2>2 DEF WriteChunk, Stream!Receive
  <2> QED
    BY <2>3 DEF Stream!Next
<1>3. CASE SelectEnd \/ WriteFails
  <2>1. Stream!End
    BY <1>3 DEF SelectEnd, WriteFails, Stream!End
  <2> QED
    BY <2>1 DEF Stream!Next
<1>4. CASE \/ DropLagging \/ CloseSubscribers \/ Dequeue \/ HandOver \/ Delivered
           \/ WakeUp \/ SeeDone \/ CloseUpdates \/ WriteHistory \/ FramesEnd \/ Detach
           \/ UNCHANGED vars
  <2>1. UNCHANGED <<output, received, client \in {"detaching", "returned"}>>
    <3>1. CASE DropLagging \/ CloseSubscribers \/ Dequeue \/ HandOver \/ Delivered
      BY <3>1 DEF DropLagging, CloseSubscribers, Dequeue, HandOver, Delivered
    <3>2. CASE WakeUp \/ SeeDone \/ CloseUpdates \/ WriteHistory \/ FramesEnd \/ Detach
      BY <3>2 DEF WakeUp, SeeDone, CloseUpdates, WriteHistory, FramesEnd, Detach
    <3>3. CASE UNCHANGED vars
      BY <3>3 DEF vars
    <3> QED
      BY <1>4, <3>1, <3>2, <3>3
  <2> QED
    BY <2>1 DEF Stream!vars
<1> QED
  BY <1>1, <1>2, <1>3, <1>4 DEF Next, Run, Client

\* The whole output path implements the promised stream (output_subscriber.go,
\* attach.go 72-84).
THEOREM Refinement == Spec => StreamImplemented
  BY InitRefines, StepRefines, Invariance, PTL DEF Spec, StreamImplemented, Stream!Spec
==============================================================================
