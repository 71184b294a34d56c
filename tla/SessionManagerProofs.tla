-------------------------- MODULE SessionManagerProofs --------------------------
(***************************************************************************)
(* Proofs that the session manager is honest about processes, for every    *)
(* number of sessions, request handlers, operations and crashes, and with  *)
(* every file system call failing when it likes.                           *)
(*                                                                         *)
(* The operations look at a record in one lock section and act on what     *)
(* they saw in a later one.  That is safe because what they saw is about   *)
(* the process, and the end of a process is never taken back: Fates says   *)
(* at which places a thread relies on it.                                  *)
(***************************************************************************)
EXTENDS SessionManager, TLAPS

Started == {s \in Sessions : child[s] # "none"}
Gone(s) == child[s] \in {"dead", "orphan"}

\* Where each thread may be, and where its persist returns to.
CallerControl ==
  \A t \in Callers :
    /\ pc[t] \in Saving \cup {"idle", "kill", "setStopped", "nestedStop", "remove",
                              "archive", "launch", "unlink", "killUnlinked", "untitle"}
    /\ pc[t] # "idle" => target[t] \in Sessions
    /\ pc[t] \in {"kill", "setStopped", "nestedStop"} =>
         onSaved[t] \in {"idle", "remove"} /\ onFailed[t] = "idle"
    /\ pc[t] \in Saving =>
         onSaved[t] \in {"idle", "launch", "remove"} /\ onFailed[t] \in {"idle", "unlink", "untitle"}
WaiterControl ==
  \A s \in Sessions :
    /\ pc[s] \in Saving \cup {"idle", "waiting", "check", "setEnded"}
    /\ pc[s] # "idle" => target[s] = s
    /\ pc[s] \in Saving => onSaved[s] = "idle" /\ onFailed[s] = "idle"
BootControl ==
  /\ pc[Boot] \in Saving \cup {"idle", "up", "down"}
  /\ pc[Boot] \in Saving => onSaved[Boot] = "up" /\ onFailed[Boot] = "down"
  /\ pc[Boot] # "idle" => ~up
  /\ ~up => \A t \in Callers \cup Sessions : pc[t] = "idle"

\* Whatever names a session names one whose process was started.
Known ==
  /\ sessions \subseteq Started
  /\ \A t \in Threads : todo[t] \subseteq Started /\ DOMAIN snap[t] \subseteq Started
  /\ DOMAIN temporary.data \subseteq Started
  /\ DOMAIN path.data \subseteq Started
  /\ \A t \in Callers : pc[t] # "idle" => target[t] \in Started

\* What records and threads may conclude about a process.
Fates ==
  /\ ~up => \A s \in Sessions : child[s] # "alive"
  /\ \A s \in Sessions :
       /\ record[s].status # "running" => child[s] # "alive"
       /\ record[s].archived => record[s].status # "running"
       /\ pc[s] \in {"check", "setEnded"} => Gone(s)
  /\ \A t \in Callers :
       /\ pc[t] \in {"setStopped", "remove", "archive"} => Gone(target[t])
       /\ pc[t] \in Saving /\ onSaved[t] = "remove" => Gone(target[t])
       /\ pc[t] = "archive" => record[target[t]].status # "running"

Control == CallerControl /\ WaiterControl /\ BootControl

IInv == TypeOK /\ Control /\ Known /\ Fates /\ NoStrayProcess

------------------------------------------------------------------------------
\* Sets of saved records, element by element.
LEMMA SavesMember ==
  ASSUME NEW known \in SUBSET Sessions, NEW data \in [known -> Record]
  PROVE  data \in Saves
  BY DEF Saves

\* A state file may hold no session at all.
LEMMA EmptySaves == <<>> \in Saves /\ DOMAIN <<>> = {}
<1>1. <<>> \in [{} -> Record]
  OBVIOUS
<1> QED
  BY <1>1, SavesMember

\* What it means to be the content of a state file.
LEMMA SavesFacts ==
  ASSUME NEW data \in Saves
  PROVE  DOMAIN data \subseteq Sessions /\ \A x \in DOMAIN data : data[x] \in Record
  BY DEF Saves

\* Changing a flag of a record leaves a record.
LEMMA RecordUpdates ==
  ASSUME NEW r \in Record, NEW b \in BOOLEAN
  PROVE  /\ [r EXCEPT !["archived"] = b] \in Record
         /\ [r EXCEPT !["muted"] = ~r.muted] \in Record
  BY DEF Record

\* A loaded session is not running.
LEMMA LoadedFacts ==
  ASSUME NEW r \in Record
  PROVE  Loaded(r) \in Record /\ Loaded(r).status # "running"
  BY DEF Loaded, Record

\* A request handler begins an operation.
LEMMA RequestPreserves ==
  ASSUME IInv, NEW t \in Callers, Request(t)
  PROVE  IInv'
<1>0. TypeOK /\ CallerControl /\ WaiterControl /\ BootControl /\ Known /\ Fates /\ NoStrayProcess
  BY DEF IInv, Control
<1>t. /\ sessions \subseteq Sessions /\ record \in [Sessions -> Record]
      /\ child \in [Sessions -> {"none", "alive", "dead", "orphan"}]
      /\ pc \in [Threads -> Places] /\ target \in [Threads -> Sessions \cup {NoSession}]
      /\ onSaved \in [Threads -> Places] /\ onFailed \in [Threads -> Places]
      /\ todo \in [Threads -> SUBSET Sessions] /\ snap \in [Threads -> Saves]
  BY <1>0 DEF TypeOK
<1> USE ThreadsAreDistinct DEF ThreadsAssumption, Threads, NoSession, Saving
<1>1. ASSUME NEW s \in Sessions, Create(t, s) PROVE IInv'
  <2> USE <1>0, <1>t, <1>1 DEF Create, Call, Persist, memoryVars, threadVars, saveVars, fileVars, boundVars
  <2>1. TypeOK'
    BY BoundsAreNumbers, FirstTitleIsATitle DEF TypeOK, Places, Record, NewRecord, TitlesAssumption, BoundsAssumption
  <2>2. CallerControl'
    BY DEF CallerControl
  <2>3. WaiterControl'
    BY DEF WaiterControl
  <2>4. BootControl'
    BY DEF BootControl
  <2>5. Known'
    BY DEF Known, Started
  <2>6. Fates'
    BY DEF Fates, Gone, Known, Started, CallerControl, WaiterControl, BootControl, NewRecord
  <2>7. NoStrayProcess'
    BY DEF NoStrayProcess
  <2> QED BY <2>1, <2>2, <2>3, <2>4, <2>5, <2>6, <2>7 DEF IInv, Control
<1>2. ASSUME NEW s \in Sessions, Stop(t, s) PROVE IInv'
  <2> USE <1>0, <1>t, <1>2 DEF Stop, Call, Goto, memoryVars, threadVars, saveVars, fileVars, boundVars
  <2>1. TypeOK'
    BY BoundsAreNumbers, FirstTitleIsATitle DEF TypeOK, Places, Record, NewRecord, TitlesAssumption, BoundsAssumption
  <2>2. CallerControl'
    BY DEF CallerControl
  <2>3. WaiterControl'
    BY DEF WaiterControl
  <2>4. BootControl'
    BY DEF BootControl
  <2>5. Known'
    BY DEF Known, Started
  <2>6. Fates'
    BY DEF Fates, Gone
  <2>7. NoStrayProcess'
    BY DEF NoStrayProcess
  <2> QED BY <2>1, <2>2, <2>3, <2>4, <2>5, <2>6, <2>7 DEF IInv, Control
<1>3. ASSUME NEW s \in Sessions, Delete(t, s) PROVE IInv'
  <2> USE <1>0, <1>t, <1>3 DEF Delete, Call, Goto, memoryVars, threadVars, saveVars, fileVars, boundVars
  <2>1. TypeOK'
    BY BoundsAreNumbers, FirstTitleIsATitle DEF TypeOK, Places, Record, NewRecord, TitlesAssumption, BoundsAssumption
  <2>2. CallerControl'
    BY DEF CallerControl
  <2>3. WaiterControl'
    BY DEF WaiterControl
  <2>4. BootControl'
    BY DEF BootControl
  <2>5. Known'
    BY DEF Known, Started
  <2>6. Fates'
    BY DEF Fates, Gone, Known, Started, CallerControl, WaiterControl, BootControl
  <2>7. NoStrayProcess'
    BY DEF NoStrayProcess
  <2> QED BY <2>1, <2>2, <2>3, <2>4, <2>5, <2>6, <2>7 DEF IInv, Control
<1>4. ASSUME NEW s \in Sessions, Archive(t, s) PROVE IInv'
  <2> USE <1>0, <1>t, <1>4 DEF Archive, Call, Goto, memoryVars, threadVars, saveVars, fileVars, boundVars
  <2>1. TypeOK'
    BY BoundsAreNumbers, FirstTitleIsATitle DEF TypeOK, Places, Record, NewRecord, TitlesAssumption, BoundsAssumption
  <2>2. CallerControl'
    BY DEF CallerControl
  <2>3. WaiterControl'
    BY DEF WaiterControl
  <2>4. BootControl'
    BY DEF BootControl
  <2>5. Known'
    BY DEF Known, Started
  <2>6. Fates'
    BY DEF Fates, Gone, Known, Started, CallerControl, WaiterControl, BootControl
  <2>7. NoStrayProcess'
    BY DEF NoStrayProcess
  <2> QED BY <2>1, <2>2, <2>3, <2>4, <2>5, <2>6, <2>7 DEF IInv, Control
<1>5. ASSUME NEW s \in Sessions, Restore(t, s) PROVE IInv'
  <2> USE <1>0, <1>t, <1>5 DEF Restore, Call, Update, Persist, memoryVars, threadVars, saveVars, fileVars, boundVars
  <2>r. record' \in [Sessions -> Record]
    BY RecordUpdates
  <2>1. TypeOK'
    BY <2>r, BoundsAreNumbers DEF TypeOK, Places, CallerControl, BoundsAssumption
  <2>2. CallerControl'
    BY DEF CallerControl
  <2>3. WaiterControl'
    BY DEF WaiterControl
  <2>4. BootControl'
    BY DEF BootControl
  <2>5. Known'
    BY DEF Known, Started
  <2>6. Fates'
    BY DEF Fates, Gone
  <2>7. NoStrayProcess'
    BY DEF NoStrayProcess
  <2> QED BY <2>1, <2>2, <2>3, <2>4, <2>5, <2>6, <2>7 DEF IInv, Control
<1>6. ASSUME NEW s \in Sessions, SetNotificationsMuted(t, s) PROVE IInv'
  <2> USE <1>0, <1>t, <1>6 DEF SetNotificationsMuted, Call, Update, Persist, memoryVars, threadVars, saveVars, fileVars, boundVars
  <2>r. record' \in [Sessions -> Record]
    BY RecordUpdates
  <2>1. TypeOK'
    BY <2>r, BoundsAreNumbers DEF TypeOK, Places, CallerControl, BoundsAssumption
  <2>2. CallerControl'
    BY DEF CallerControl
  <2>3. WaiterControl'
    BY DEF WaiterControl
  <2>4. BootControl'
    BY DEF BootControl
  <2>5. Known'
    BY DEF Known, Started
  <2>6. Fates'
    BY DEF Fates, Gone
  <2>7. NoStrayProcess'
    BY DEF NoStrayProcess
  <2> QED BY <2>1, <2>2, <2>3, <2>4, <2>5, <2>6, <2>7 DEF IInv, Control
<1>7. ASSUME NEW s \in Sessions, NEW title \in Titles, Rename(t, s, title) PROVE IInv'
  <2> USE <1>0, <1>t, <1>7 DEF Rename, Call, Update, Persist, memoryVars, threadVars, saveVars, fileVars, boundVars
  <2>1. TypeOK'
    BY SMTT(60), BoundsAreNumbers, FirstTitleIsATitle DEF TypeOK, Places, Record, NewRecord, TitlesAssumption, BoundsAssumption
  <2>2. CallerControl'
    BY DEF CallerControl
  <2>3. WaiterControl'
    BY DEF WaiterControl
  <2>4. BootControl'
    BY DEF BootControl
  <2>5. Known'
    BY DEF Known, Started
  <2>6. Fates'
    BY DEF Fates, Gone
  <2>7. NoStrayProcess'
    BY DEF NoStrayProcess
  <2> QED BY <2>1, <2>2, <2>3, <2>4, <2>5, <2>6, <2>7 DEF IInv, Control
<1> QED BY <1>1, <1>2, <1>3, <1>4, <1>5, <1>6, <1>7 DEF Request

\* A request handler goes on.
LEMMA CallerPreserves ==
  ASSUME IInv, NEW t \in Callers, CallerStep(t)
  PROVE  IInv'
<1>0. TypeOK /\ CallerControl /\ WaiterControl /\ BootControl /\ Known /\ Fates /\ NoStrayProcess
  BY DEF IInv, Control
<1>t. /\ sessions \subseteq Sessions /\ record \in [Sessions -> Record]
      /\ child \in [Sessions -> {"none", "alive", "dead", "orphan"}]
      /\ pc \in [Threads -> Places] /\ target \in [Threads -> Sessions \cup {NoSession}]
      /\ onSaved \in [Threads -> Places] /\ onFailed \in [Threads -> Places]
      /\ todo \in [Threads -> SUBSET Sessions] /\ snap \in [Threads -> Saves]
  BY <1>0 DEF TypeOK
<1> USE ThreadsAreDistinct DEF ThreadsAssumption, Threads, NoSession, Saving
<1>1. ASSUME Launch(t) PROVE IInv'
  <2> USE <1>0, <1>t, <1>1 DEF Launch, Goto, memoryVars, threadVars, saveVars, fileVars, boundVars
  <2>1. TypeOK'
    BY DEF TypeOK, Places, Record
  <2>2. CallerControl'
    BY DEF CallerControl
  <2>3. WaiterControl'
    BY DEF WaiterControl
  <2>4. BootControl'
    BY DEF BootControl, CallerControl
  <2>5. Known'
    BY DEF Known, Started
  <2>6. Fates'
    BY DEF Fates, Gone
  <2>7. NoStrayProcess'
    BY DEF NoStrayProcess
  <2> QED BY <2>1, <2>2, <2>3, <2>4, <2>5, <2>6, <2>7 DEF IInv, Control
<1>2. ASSUME Unlink(t) PROVE IInv'
  <2> USE <1>0, <1>t, <1>2 DEF Unlink, Goto, memoryVars, threadVars, saveVars, fileVars, boundVars
  <2>1. TypeOK'
    BY DEF TypeOK, Places, Record
  <2>2. CallerControl'
    BY DEF CallerControl
  <2>3. WaiterControl'
    BY DEF WaiterControl
  <2>4. BootControl'
    BY DEF BootControl
  <2>5. Known'
    BY DEF Known, Started
  <2>6. Fates'
    BY DEF Fates, Gone
  <2>7. NoStrayProcess'
    BY DEF NoStrayProcess
  <2> QED BY <2>1, <2>2, <2>3, <2>4, <2>5, <2>6, <2>7 DEF IInv, Control
<1>3. ASSUME Kill(t) PROVE IInv'
  <2> USE <1>0, <1>t, <1>3 DEF Kill, Dies, Goto, memoryVars, threadVars, saveVars, fileVars, boundVars
  <2>k. target[t] \in Sessions /\ child[target[t]] # "none"
    BY DEF CallerControl, Known, Started
  <2>1. TypeOK'
    BY ZenonT(60) DEF TypeOK, Places, Record
  <2>2. CallerControl'
    BY DEF CallerControl
  <2>3. WaiterControl'
    BY DEF WaiterControl
  <2>4. BootControl'
    BY DEF BootControl
  <2>5. Known'
    BY DEF Known, Started, CallerControl
  <2>6. Fates'
    BY <2>k DEF Fates, Gone, CallerControl, WaiterControl
  <2>7. NoStrayProcess'
    BY DEF NoStrayProcess
  <2> QED BY <2>1, <2>2, <2>3, <2>4, <2>5, <2>6, <2>7 DEF IInv, Control
<1>4. ASSUME SetStopped(t) PROVE IInv'
  <2> USE <1>0, <1>t, <1>4 DEF SetStopped, Update, Goto, memoryVars, threadVars, saveVars, fileVars, boundVars
  <2>1. TypeOK'
    BY DEF TypeOK, Places, Record, CallerControl
  <2>2. CallerControl'
    BY DEF CallerControl
  <2>3. WaiterControl'
    BY DEF WaiterControl
  <2>4. BootControl'
    BY DEF BootControl
  <2>5. Known'
    BY DEF Known, Started
  <2>6. Fates'
    BY DEF Fates, Gone
  <2>7. NoStrayProcess'
    BY DEF NoStrayProcess
  <2> QED BY <2>1, <2>2, <2>3, <2>4, <2>5, <2>6, <2>7 DEF IInv, Control
<1>5. ASSUME NestedStop(t) PROVE IInv'
  <2> USE <1>0, <1>t, <1>5 DEF NestedStop, Goto, memoryVars, threadVars, saveVars, fileVars, boundVars
  <2>1. TypeOK'
    BY DEF TypeOK, Places, Record
  <2>2. CallerControl'
    BY DEF CallerControl
  <2>3. WaiterControl'
    BY DEF WaiterControl
  <2>4. BootControl'
    BY DEF BootControl
  <2>5. Known'
    BY DEF Known, Started, CallerControl
  <2>6. Fates'
    BY DEF Fates, Gone, Known, Started, CallerControl, WaiterControl, BootControl
  <2>7. NoStrayProcess'
    BY DEF NoStrayProcess
  <2> QED BY <2>1, <2>2, <2>3, <2>4, <2>5, <2>6, <2>7 DEF IInv, Control
<1>6. ASSUME Remove(t) PROVE IInv'
  <2> USE <1>0, <1>t, <1>6 DEF Remove, Persist, memoryVars, threadVars, saveVars, fileVars, boundVars
  <2>1. TypeOK'
    BY DEF TypeOK, Places, Record
  <2>2. CallerControl'
    BY DEF CallerControl
  <2>3. WaiterControl'
    BY DEF WaiterControl
  <2>4. BootControl'
    BY DEF BootControl
  <2>5. Known'
    BY DEF Known, Started
  <2>6. Fates'
    BY DEF Fates, Gone
  <2>7. NoStrayProcess'
    BY DEF NoStrayProcess, Fates, Gone
  <2> QED BY <2>1, <2>2, <2>3, <2>4, <2>5, <2>6, <2>7 DEF IInv, Control
<1>7. ASSUME SetArchived(t) PROVE IInv'
  <2> USE <1>0, <1>t, <1>7 DEF SetArchived, Update, Persist, memoryVars, threadVars, saveVars, fileVars, boundVars
  <2>r. record' \in [Sessions -> Record]
    BY RecordUpdates DEF CallerControl
  <2>1. TypeOK'
    BY <2>r DEF TypeOK, Places, CallerControl
  <2>2. CallerControl'
    BY DEF CallerControl
  <2>3. WaiterControl'
    BY DEF WaiterControl
  <2>4. BootControl'
    BY DEF BootControl
  <2>5. Known'
    BY DEF Known, Started
  <2>6. Fates'
    BY DEF Fates, Gone
  <2>7. NoStrayProcess'
    BY DEF NoStrayProcess
  <2> QED BY <2>1, <2>2, <2>3, <2>4, <2>5, <2>6, <2>7 DEF IInv, Control
<1>8. ASSUME Untitle(t) PROVE IInv'
  <2> USE <1>0, <1>t, <1>8 DEF Untitle, Update, Goto, memoryVars, threadVars, saveVars, fileVars, boundVars
  <2>1. TypeOK'
    BY DEF TypeOK, Places, Record, CallerControl
  <2>2. CallerControl'
    BY DEF CallerControl
  <2>3. WaiterControl'
    BY DEF WaiterControl
  <2>4. BootControl'
    BY DEF BootControl
  <2>5. Known'
    BY DEF Known, Started
  <2>6. Fates'
    BY DEF Fates, Gone
  <2>7. NoStrayProcess'
    BY DEF NoStrayProcess
  <2> QED BY <2>1, <2>2, <2>3, <2>4, <2>5, <2>6, <2>7 DEF IInv, Control
<1> QED BY <1>1, <1>2, <1>3, <1>4, <1>5, <1>6, <1>7, <1>8 DEF CallerStep

\* The waitForExit goroutine of a session.
LEMMA WaiterPreserves ==
  ASSUME IInv, NEW s \in Sessions, WaiterStep(s)
  PROVE  IInv'
<1>0. TypeOK /\ CallerControl /\ WaiterControl /\ BootControl /\ Known /\ Fates /\ NoStrayProcess
  BY DEF IInv, Control
<1>t. /\ sessions \subseteq Sessions /\ record \in [Sessions -> Record]
      /\ child \in [Sessions -> {"none", "alive", "dead", "orphan"}]
      /\ pc \in [Threads -> Places] /\ target \in [Threads -> Sessions \cup {NoSession}]
      /\ onSaved \in [Threads -> Places] /\ onFailed \in [Threads -> Places]
      /\ todo \in [Threads -> SUBSET Sessions] /\ snap \in [Threads -> Saves]
  BY <1>0 DEF TypeOK
<1> USE ThreadsAreDistinct DEF ThreadsAssumption, Threads, NoSession, Saving
<1>1. ASSUME WaitReturns(s) PROVE IInv'
  <2> USE <1>0, <1>t, <1>1 DEF WaitReturns, Goto, memoryVars, threadVars, saveVars, fileVars, boundVars
  <2>1. TypeOK'
    BY DEF TypeOK, Places, Record
  <2>2. CallerControl'
    BY DEF CallerControl
  <2>3. WaiterControl'
    BY DEF WaiterControl
  <2>4. BootControl'
    BY DEF BootControl
  <2>5. Known'
    BY DEF Known, Started
  <2>6. Fates'
    BY DEF Fates, Gone
  <2>7. NoStrayProcess'
    BY DEF NoStrayProcess
  <2> QED BY <2>1, <2>2, <2>3, <2>4, <2>5, <2>6, <2>7 DEF IInv, Control
<1>2. ASSUME WaiterChecks(s) PROVE IInv'
  <2> USE <1>0, <1>t, <1>2 DEF WaiterChecks, Goto, memoryVars, threadVars, saveVars, fileVars, boundVars
  <2>1. TypeOK'
    BY DEF TypeOK, Places, Record
  <2>2. CallerControl'
    BY DEF CallerControl
  <2>3. WaiterControl'
    BY DEF WaiterControl
  <2>4. BootControl'
    BY DEF BootControl
  <2>5. Known'
    BY DEF Known, Started
  <2>6. Fates'
    BY DEF Fates, Gone
  <2>7. NoStrayProcess'
    BY DEF NoStrayProcess
  <2> QED BY <2>1, <2>2, <2>3, <2>4, <2>5, <2>6, <2>7 DEF IInv, Control
<1>3. ASSUME SetEnded(s) PROVE IInv'
  <2> USE <1>0, <1>t, <1>3 DEF SetEnded, Update, Persist, memoryVars, threadVars, saveVars, fileVars, boundVars
  <2>1. TypeOK'
    BY DEF TypeOK, Places, Record
  <2>2. CallerControl'
    BY DEF CallerControl
  <2>3. WaiterControl'
    BY DEF WaiterControl
  <2>4. BootControl'
    BY DEF BootControl
  <2>5. Known'
    BY DEF Known, Started
  <2>6. Fates'
    BY DEF Fates, Gone
  <2>7. NoStrayProcess'
    BY DEF NoStrayProcess
  <2> QED BY <2>1, <2>2, <2>3, <2>4, <2>5, <2>6, <2>7 DEF IInv, Control
<1> QED BY <1>1, <1>2, <1>3 DEF WaiterStep

\* One step of persist, in any thread.
LEMMA SavePreserves ==
  ASSUME IInv, NEW t \in Threads, SaveStep(t) \/ WriteFails(t)
  PROVE  IInv'
<1>0. TypeOK /\ CallerControl /\ WaiterControl /\ BootControl /\ Known /\ Fates /\ NoStrayProcess
  BY DEF IInv, Control
<1>t. /\ sessions \subseteq Sessions /\ record \in [Sessions -> Record]
      /\ child \in [Sessions -> {"none", "alive", "dead", "orphan"}]
      /\ pc \in [Threads -> Places] /\ target \in [Threads -> Sessions \cup {NoSession}]
      /\ onSaved \in [Threads -> Places] /\ onFailed \in [Threads -> Places]
      /\ todo \in [Threads -> SUBSET Sessions] /\ snap \in [Threads -> Saves]
  BY <1>0 DEF TypeOK
<1> USE ThreadsAreDistinct DEF ThreadsAssumption, Threads, NoSession, Saving
<1>1. ASSUME List(t) PROVE IInv'
  <2> USE <1>0, <1>t, <1>1 DEF List, Goto, memoryVars, threadVars, saveVars, fileVars, boundVars
  <2>1. TypeOK'
    BY EmptySaves DEF TypeOK, Places
  <2>2. CallerControl'
    BY DEF CallerControl
  <2>3. WaiterControl'
    BY DEF WaiterControl
  <2>4. BootControl'
    BY DEF BootControl
  <2>5. Known'
    BY DEF Known, Started
  <2>6. Fates'
    BY DEF Fates, Gone
  <2>7. NoStrayProcess'
    BY DEF NoStrayProcess
  <2> QED BY <2>1, <2>2, <2>3, <2>4, <2>5, <2>6, <2>7 DEF IInv, Control
<1>2. ASSUME Snapshot(t) PROVE IInv'
  <2> USE <1>0, <1>t, <1>2 DEF Snapshot, Goto, memoryVars, threadVars, saveVars, fileVars, boundVars
  <2>s. PICK s \in todo[t] : /\ todo' = [todo EXCEPT ![t] = @ \ {s}]
                           /\ snap' = [snap EXCEPT ![t] =
                                [x \in DOMAIN @ \cup {s} |-> IF x = s THEN record[s] ELSE @[x]]]
    OBVIOUS
  <2>d. DOMAIN snap[t] \subseteq Sessions /\ \A x \in DOMAIN snap[t] : snap[t][x] \in Record
    BY SavesFacts
  <2>n. [x \in DOMAIN snap[t] \cup {s} |-> IF x = s THEN record[s] ELSE snap[t][x]]
          \in [DOMAIN snap[t] \cup {s} -> Record]
    BY <2>s, <2>d
  <2>m. DOMAIN snap[t] \cup {s} \in SUBSET Sessions
    BY <2>s, <2>d
  <2>o. [x \in DOMAIN snap[t] \cup {s} |-> IF x = s THEN record[s] ELSE snap[t][x]] \in Saves
    BY <2>n, <2>m, SavesMember
  <2>e. snap' \in [Threads -> Saves]
    BY <2>s, <2>o
  <2>1. TypeOK'
    BY <2>e DEF TypeOK, Places
  <2>2. CallerControl'
    BY DEF CallerControl
  <2>3. WaiterControl'
    BY DEF WaiterControl
  <2>4. BootControl'
    BY DEF BootControl
  <2>5. Known'
    BY <2>s DEF Known, Started
  <2>6. Fates'
    BY DEF Fates, Gone
  <2>7. NoStrayProcess'
    BY DEF NoStrayProcess
  <2> QED BY <2>1, <2>2, <2>3, <2>4, <2>5, <2>6, <2>7 DEF IInv, Control
<1>3. ASSUME SnapshotNothing(t) PROVE IInv'
  <2> USE <1>0, <1>t, <1>3 DEF SnapshotNothing, Goto, memoryVars, threadVars, saveVars, fileVars, boundVars
  <2>1. TypeOK'
    BY DEF TypeOK, Places, Record
  <2>2. CallerControl'
    BY DEF CallerControl
  <2>3. WaiterControl'
    BY DEF WaiterControl
  <2>4. BootControl'
    BY DEF BootControl
  <2>5. Known'
    BY DEF Known, Started
  <2>6. Fates'
    BY DEF Fates, Gone
  <2>7. NoStrayProcess'
    BY DEF NoStrayProcess
  <2> QED BY <2>1, <2>2, <2>3, <2>4, <2>5, <2>6, <2>7 DEF IInv, Control
<1>4. ASSUME Open(t) PROVE IInv'
  <2> USE <1>0, <1>t, <1>4 DEF Open, Goto, memoryVars, threadVars, saveVars, fileVars, boundVars
  <2>1. TypeOK'
    BY EmptySaves DEF TypeOK, Places, Truncated
  <2>2. CallerControl'
    BY DEF CallerControl
  <2>3. WaiterControl'
    BY DEF WaiterControl
  <2>4. BootControl'
    BY DEF BootControl
  <2>5. Known'
    BY EmptySaves DEF Known, Started, Truncated
  <2>6. Fates'
    BY DEF Fates, Gone
  <2>7. NoStrayProcess'
    BY DEF NoStrayProcess
  <2> QED BY <2>1, <2>2, <2>3, <2>4, <2>5, <2>6, <2>7 DEF IInv, Control
<1>5. ASSUME Write(t) PROVE IInv'
  <2> USE <1>0, <1>t, <1>5 DEF Write, Goto, memoryVars, threadVars, saveVars, fileVars, boundVars
  <2>w. {temporary', path'} \subseteq {temporary, path, Document(snap[t]), Torn}
    BY DEF Overlaid
  <2>e. /\ {Document(snap[t]), Torn} \subseteq
            [kind : {"none", "empty", "whole", "torn"}, data : Saves]
        /\ DOMAIN Document(snap[t]).data \subseteq Sessions /\ DOMAIN Torn.data = {}
    BY EmptySaves, SavesFacts DEF Document, Torn
  <2>1. TypeOK'
    BY <2>w, <2>e DEF TypeOK, Places
  <2>2. CallerControl'
    BY DEF CallerControl
  <2>3. WaiterControl'
    BY DEF WaiterControl
  <2>4. BootControl'
    BY DEF BootControl
  <2>5. Known'
    BY <2>w, <2>e DEF Known, Started, Document
  <2>6. Fates'
    BY DEF Fates, Gone
  <2>7. NoStrayProcess'
    BY DEF NoStrayProcess
  <2> QED BY <2>1, <2>2, <2>3, <2>4, <2>5, <2>6, <2>7 DEF IInv, Control
<1>6. ASSUME Replace(t) PROVE IInv'
  <2> USE <1>0, <1>t, <1>6 DEF Replace, Return, Goto, Moved, Nowhere, memoryVars, threadVars, saveVars, fileVars, boundVars
  <2>1. TypeOK'
    BY EmptySaves DEF TypeOK, Places
  <2>2. CallerControl'
    BY DEF CallerControl
  <2>3. WaiterControl'
    BY DEF WaiterControl
  <2>4. BootControl'
    BY DEF BootControl
  <2>5. Known'
    BY DEF Known, Started
  <2>6. Fates'
    BY DEF Fates, Gone, Known, Started, CallerControl, WaiterControl, BootControl
  <2>7. NoStrayProcess'
    BY DEF NoStrayProcess
  <2> QED BY <2>1, <2>2, <2>3, <2>4, <2>5, <2>6, <2>7 DEF IInv, Control
<1>7. ASSUME ReplaceFails(t) PROVE IInv'
  <2> USE <1>0, <1>t, <1>7 DEF ReplaceFails, Return, Goto, memoryVars, threadVars, saveVars, fileVars, boundVars
  <2>1. TypeOK'
    BY EmptySaves DEF TypeOK, Places
  <2>2. CallerControl'
    BY DEF CallerControl
  <2>3. WaiterControl'
    BY DEF WaiterControl
  <2>4. BootControl'
    BY DEF BootControl
  <2>5. Known'
    BY DEF Known, Started
  <2>6. Fates'
    BY DEF Fates, Gone, Known, Started, CallerControl, WaiterControl, BootControl
  <2>7. NoStrayProcess'
    BY DEF NoStrayProcess
  <2> QED BY <2>1, <2>2, <2>3, <2>4, <2>5, <2>6, <2>7 DEF IInv, Control
<1>8. ASSUME WriteFails(t) PROVE IInv'
  <2> USE <1>0, <1>t, <1>8 DEF WriteFails, Return, Goto, memoryVars, threadVars, saveVars, fileVars, boundVars
  <2>1. TypeOK'
    BY EmptySaves DEF TypeOK, Places
  <2>2. CallerControl'
    BY DEF CallerControl
  <2>3. WaiterControl'
    BY DEF WaiterControl
  <2>4. BootControl'
    BY DEF BootControl
  <2>5. Known'
    BY DEF Known, Started
  <2>6. Fates'
    BY DEF Fates, Gone, Known, Started, CallerControl, WaiterControl, BootControl
  <2>7. NoStrayProcess'
    BY DEF NoStrayProcess
  <2> QED BY <2>1, <2>2, <2>3, <2>4, <2>5, <2>6, <2>7 DEF IInv, Control
<1> QED BY <1>1, <1>2, <1>3, <1>4, <1>5, <1>6, <1>7, <1>8 DEF SaveStep

\* The process is gone, and with it all it had in memory.
LEMMA DeathPreserves ==
  ASSUME IInv, Forget,
         child' = [s \in Sessions |-> IF child[s] = "none" THEN "none" ELSE "orphan"],
         crashes' \in 0 .. MaxCrashes, suspect' = suspect
  PROVE  IInv'
<1>0. TypeOK /\ CallerControl /\ WaiterControl /\ BootControl /\ Known /\ Fates /\ NoStrayProcess
  BY DEF IInv, Control
<1>t. /\ sessions \subseteq Sessions /\ record \in [Sessions -> Record]
      /\ child \in [Sessions -> {"none", "alive", "dead", "orphan"}]
      /\ pc \in [Threads -> Places] /\ target \in [Threads -> Sessions \cup {NoSession}]
      /\ onSaved \in [Threads -> Places] /\ onFailed \in [Threads -> Places]
      /\ todo \in [Threads -> SUBSET Sessions] /\ snap \in [Threads -> Saves]
  BY <1>0 DEF TypeOK
<1> USE ThreadsAreDistinct DEF ThreadsAssumption, Threads, NoSession, Saving
<1> USE <1>0, <1>t DEF Forget, memoryVars, threadVars, saveVars, fileVars, boundVars
<1>r. record' \in [Sessions -> Record]
  BY FirstTitleIsATitle DEF Record, NewRecord, TitlesAssumption
<1>1. TypeOK'
  BY <1>r, EmptySaves DEF TypeOK, Places
<1>2. CallerControl'
  BY DEF CallerControl
<1>3. WaiterControl'
  BY DEF WaiterControl
<1>4. BootControl'
  BY DEF BootControl
<1>5. Known'
  BY DEF Known, Started
<1>6. Fates'
  BY DEF Fates, Gone, Known, Started, CallerControl, WaiterControl, BootControl, NewRecord
<1>7. NoStrayProcess'
  BY DEF NoStrayProcess
<1> QED BY <1>1, <1>2, <1>3, <1>4, <1>5, <1>6, <1>7 DEF IInv, Control

\* The daemon dies and starts; a process ends.
LEMMA DaemonPreserves ==
  ASSUME IInv, Crash \/ EnablePersistence \/ Serve \/ ExitAtBoot
  PROVE  IInv'
<1>0. TypeOK /\ CallerControl /\ WaiterControl /\ BootControl /\ Known /\ Fates /\ NoStrayProcess
  BY DEF IInv, Control
<1>t. /\ sessions \subseteq Sessions /\ record \in [Sessions -> Record]
      /\ child \in [Sessions -> {"none", "alive", "dead", "orphan"}]
      /\ pc \in [Threads -> Places] /\ target \in [Threads -> Sessions \cup {NoSession}]
      /\ onSaved \in [Threads -> Places] /\ onFailed \in [Threads -> Places]
      /\ todo \in [Threads -> SUBSET Sessions] /\ snap \in [Threads -> Saves]
  BY <1>0 DEF TypeOK
<1> USE ThreadsAreDistinct DEF ThreadsAssumption, Threads, NoSession, Saving
<1>1. ASSUME Crash PROVE IInv'
  <2>1. crashes' \in 0 .. MaxCrashes
    BY <1>1, <1>0, BoundsAreNumbers DEF Crash, TypeOK, BoundsAssumption
  <2> QED
    BY <1>1, <2>1, DeathPreserves DEF Crash
<1>2. ASSUME EnablePersistence PROVE IInv'
  <2> USE <1>0, <1>t, <1>2 DEF EnablePersistence, Persist, memoryVars, threadVars, saveVars, fileVars, boundVars
  <2>d. path.data \in Saves
    BY <1>0 DEF TypeOK
  <2>l. \A x \in DOMAIN path.data : Loaded(path.data[x]) \in Record
    BY <2>d, SavesFacts, LoadedFacts
  <2>r. record' \in [Sessions -> Record]
    BY <2>l, <2>d
  <2>1. TypeOK'
    BY <2>d, <2>r, SavesFacts DEF TypeOK, Places
  <2>2. CallerControl'
    BY DEF CallerControl
  <2>3. WaiterControl'
    BY DEF WaiterControl
  <2>4. BootControl'
    BY DEF BootControl
  <2>5. Known'
    BY DEF Known, Started
  <2>6. Fates'
    BY <2>d, SavesFacts, LoadedFacts DEF Fates, Gone, BootControl, TypeOK, Record
  <2>7. NoStrayProcess'
    BY DEF NoStrayProcess, Fates
  <2> QED BY <2>1, <2>2, <2>3, <2>4, <2>5, <2>6, <2>7 DEF IInv, Control
<1>3. ASSUME Serve PROVE IInv'
  <2> USE <1>0, <1>t, <1>3 DEF Serve, Goto, memoryVars, threadVars, saveVars, fileVars, boundVars
  <2>1. TypeOK'
    BY DEF TypeOK, Places, Record
  <2>2. CallerControl'
    BY DEF CallerControl
  <2>3. WaiterControl'
    BY DEF WaiterControl
  <2>4. BootControl'
    BY DEF BootControl
  <2>5. Known'
    BY DEF Known, Started
  <2>6. Fates'
    BY DEF Fates, Gone
  <2>7. NoStrayProcess'
    BY DEF NoStrayProcess
  <2> QED BY <2>1, <2>2, <2>3, <2>4, <2>5, <2>6, <2>7 DEF IInv, Control
<1>4. ASSUME ExitAtBoot PROVE IInv'
  <2> USE <1>0, <1>t, <1>4 DEF ExitAtBoot, Forget, memoryVars, threadVars, saveVars, fileVars, boundVars
  <2>1. TypeOK'
    BY EmptySaves, FirstTitleIsATitle DEF TypeOK, Places, Record, NewRecord, TitlesAssumption
  <2>2. CallerControl'
    BY DEF CallerControl
  <2>3. WaiterControl'
    BY DEF WaiterControl
  <2>4. BootControl'
    BY DEF BootControl
  <2>5. Known'
    BY DEF Known, Started
  <2>6. Fates'
    BY DEF Fates, Gone, Known, Started, CallerControl, WaiterControl, BootControl, NewRecord
  <2>7. NoStrayProcess'
    BY DEF NoStrayProcess, Fates, BootControl
  <2> QED BY <2>1, <2>2, <2>3, <2>4, <2>5, <2>6, <2>7 DEF IInv, Control
<1> QED BY <1>1, <1>2, <1>3, <1>4 DEF Next

\* The process of a session ends by itself.
LEMMA ExitPreserves ==
  ASSUME IInv, NEW s \in Sessions, ChildExits(s)
  PROVE  IInv'
<1>0. TypeOK /\ CallerControl /\ WaiterControl /\ BootControl /\ Known /\ Fates /\ NoStrayProcess
  BY DEF IInv, Control
<1>t. /\ sessions \subseteq Sessions /\ record \in [Sessions -> Record]
      /\ child \in [Sessions -> {"none", "alive", "dead", "orphan"}]
      /\ pc \in [Threads -> Places] /\ target \in [Threads -> Sessions \cup {NoSession}]
      /\ onSaved \in [Threads -> Places] /\ onFailed \in [Threads -> Places]
      /\ todo \in [Threads -> SUBSET Sessions] /\ snap \in [Threads -> Saves]
  BY <1>0 DEF TypeOK
<1> USE ThreadsAreDistinct DEF ThreadsAssumption, Threads, NoSession, Saving
<1>1. ASSUME ChildExits(s) PROVE IInv'
  <2> USE <1>0, <1>t, <1>1 DEF ChildExits, Dies, memoryVars, threadVars, saveVars, fileVars, boundVars
  <2>1. TypeOK'
    BY DEF TypeOK, Places, Record
  <2>2. CallerControl'
    BY DEF CallerControl
  <2>3. WaiterControl'
    BY DEF WaiterControl
  <2>4. BootControl'
    BY DEF BootControl
  <2>5. Known'
    BY DEF Known, Started
  <2>6. Fates'
    BY DEF Fates, Gone
  <2>7. NoStrayProcess'
    BY DEF NoStrayProcess
  <2> QED BY <2>1, <2>2, <2>3, <2>4, <2>5, <2>6, <2>7 DEF IInv, Control
<1> QED BY <1>1 DEF Next


\* Before the daemon has ever started everything is empty.
LEMMA InitEstablishes == Init => IInv
<1> SUFFICES ASSUME Init PROVE IInv
  OBVIOUS
<1> USE ThreadsAreDistinct DEF ThreadsAssumption, Init, Threads, NoSession
<1>1. NewRecord \in Record
  BY FirstTitleIsATitle DEF Record, NewRecord, TitlesAssumption
<1>2. TypeOK
  <2>1. Nowhere \in [kind : {"none", "empty", "whole", "torn"}, data : Saves]
    BY EmptySaves DEF Nowhere
  <2>2. 0 \in 0 .. MaxCalls /\ 0 \in 0 .. MaxCrashes
    BY BoundsAreNumbers DEF BoundsAssumption
  <2> QED
    BY <1>1, <2>1, <2>2, EmptySaves, FirstTitleIsATitle
       DEF TypeOK, Places, TitlesAssumption
<1>3. CallerControl /\ WaiterControl /\ BootControl
  BY DEF CallerControl, WaiterControl, BootControl, Saving
<1>4. Known
  BY EmptySaves DEF Known, Started, Nowhere
<1>5. Fates /\ NoStrayProcess
  BY DEF Fates, NoStrayProcess, Gone, NewRecord, Saving
<1> QED
  BY <1>2, <1>3, <1>4, <1>5 DEF IInv, Control

\* Nothing the invariant speaks of is outside vars.
LEMMA StutterPreserves == ASSUME IInv, UNCHANGED vars PROVE IInv'
<1> USE DEF vars
<1>1. TypeOK'
  BY DEF IInv, TypeOK
<1>2. Control'
  BY DEF IInv, Control, CallerControl, WaiterControl, BootControl
<1>3. Known' /\ Fates' /\ NoStrayProcess'
  BY DEF IInv, Known, Fates, NoStrayProcess, Started, Gone
<1> QED
  BY <1>1, <1>2, <1>3 DEF IInv

\* Every step of requests, waiters, saves and the daemon keeps the invariant.
LEMMA NextPreserves == ASSUME IInv, [Next]_vars PROVE IInv'
<1>1. ASSUME NEW t \in Callers, Request(t) \/ CallerStep(t) PROVE IInv'
  BY <1>1, RequestPreserves, CallerPreserves
<1>2. ASSUME NEW s \in Sessions, ChildExits(s) \/ WaiterStep(s) PROVE IInv'
  BY <1>2, ExitPreserves, WaiterPreserves
<1>3. ASSUME NEW t \in Threads, SaveStep(t) \/ WriteFails(t) PROVE IInv'
  BY <1>3, SavePreserves
<1>4. ASSUME Crash \/ EnablePersistence \/ Serve \/ ExitAtBoot PROVE IInv'
  BY <1>4, DaemonPreserves
<1>5. CASE UNCHANGED vars
  BY <1>5, StutterPreserves
<1> QED
  BY <1>1, <1>2, <1>3, <1>4, <1>5 DEF Next

\* The inductive invariant holds in every reachable state.
LEMMA Invariance == Spec => []IInv
  BY InitEstablishes, NextPreserves, PTL DEF Spec

\* Every variable of the session manager keeps its type.
THEOREM TypeCorrect == Spec => []TypeOK
  BY Invariance, PTL DEF IInv

\* A session shown as finished has no live process and an archived one is
\* finished, although Stop, Delete, Archive and waitForExit look at the record in
\* one lock section and change it in another (manager.go 398-447, 619-636).
THEOREM StatusIsHonest == Spec => []StatusHonest
<1>1. IInv => StatusHonest
  BY DEF IInv, TypeOK, Fates, StatusHonest
<1> QED
  BY <1>1, Invariance, PTL

\* No process outlives the session it was started for: it is in the map or about
\* to be killed (manager.go 294-347, 396-422).
THEOREM NoProcessStrays == Spec => []NoStrayProcess
  BY Invariance, PTL DEF IInv
==============================================================================
