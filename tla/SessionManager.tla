---------------------------- MODULE SessionManager ----------------------------
(***************************************************************************)
(* The session manager of falknd (internal/session/manager.go): the map of *)
(* sessions, the operations request handlers call on it, the waitForExit   *)
(* goroutine of every session, and persist(), which each of them runs with *)
(* no lock around it as a whole.                                           *)
(*                                                                         *)
(* A thread is a request handler (Callers), the waitForExit goroutine of a *)
(* session (named by the session itself) or EnablePersistence (Boot).  One *)
(* action is one section under a lock or one system call.                  *)
(***************************************************************************)
EXTENDS Naturals, FiniteSets, Functions

CONSTANTS
  Sessions,      \* session IDs newSessionID may return
  Callers,       \* request handlers that may run at once
  Boot,          \* the thread that runs EnablePersistence
  Titles,        \* titles a session may be given
  FirstTitle,    \* the one it is created with
  Operations,    \* the operations callers use in this instance
  Faults,        \* whether writing the state file may fail (disk full, ...)
  MaxCalls,      \* bound of the model: operations started
  MaxCrashes     \* bound of the model: times the daemon dies

ThreadsAssumption ==
  Callers \cap Sessions = {} /\ Boot \notin Callers \cup Sessions
TitlesAssumption == FirstTitle \in Titles
ASSUME ThreadsAreDistinct == ThreadsAssumption
BoundsAssumption == MaxCalls \in Nat /\ MaxCrashes \in Nat
ASSUME FirstTitleIsATitle == TitlesAssumption
ASSUME BoundsAreNumbers == BoundsAssumption

Threads == Callers \cup Sessions \cup {Boot}
NoSession == Boot   \* target of a thread that has none

Record == [status : {"running", "stopped", "ended"}, archived : BOOLEAN,
           title : Titles, muted : BOOLEAN]

NewRecord == [status |-> "running", archived |-> FALSE, title |-> FirstTitle,
              muted |-> FALSE]

\* The records of some of the sessions: what a state file lists.
Saves == UNION {[known -> Record] : known \in SUBSET Sessions}

\* What a state file holds: nothing yet, truncated, a whole document, or one
\* that does not decode.
Nowhere == [kind |-> "none", data |-> <<>>]
Truncated == [kind |-> "empty", data |-> <<>>]
Document(data) == [kind |-> "whole", data |-> data]
Torn == [kind |-> "torn", data |-> <<>>]

VARIABLES
  up,         \* the daemon runs and has loaded its state
  sessions,   \* Manager.sessions: the sessions of the map
  record,     \* liveSession.record of every session object
  child,      \* the session's process: none, alive, dead, or of a dead daemon
  pc,         \* where each thread is
  target,     \* the session it works on
  previous,   \* Rename's `previous` title
  onSaved,    \* where it goes on when its persist returns nil
  onFailed,   \* and when it returns an error
  todo,       \* persist: sessions listed and not yet read
  snap,       \* persist: the records read
  handle,     \* the file behind the descriptor of its WriteFile
  temporary,  \* <path>.tmp
  path,       \* the state file
  calls,      \* operations started
  crashes,    \* times the daemon died
  suspect     \* history: two persists overlapped, one failed with no rollback,
              \* or another had saved what a rollback undid

memoryVars == <<sessions, record>>
threadVars == <<pc, target, previous, onSaved, onFailed>>
saveVars == <<todo, snap, handle>>
fileVars == <<temporary, path>>
boundVars == <<calls, crashes>>
vars == <<up, sessions, record, child, pc, target, previous, onSaved, onFailed,
          todo, snap, handle, temporary, path, calls, crashes, suspect>>

Saving == {"list", "snapshot", "open", "write", "rename"}
\* From the list persist takes until it has returned and been rolled back.
Unsettled == (Saving \ {"list"}) \cup {"unlink", "untitle"}
Places == Saving \cup {"idle", "kill", "setStopped", "nestedStop", "remove",
            "archive", "launch", "unlink", "killUnlinked", "untitle",
            "waiting", "check", "setEnded", "up", "down"}

TypeOK ==
  /\ up \in BOOLEAN
  /\ sessions \subseteq Sessions
  /\ record \in [Sessions -> Record]
  /\ child \in [Sessions -> {"none", "alive", "dead", "orphan"}]
  /\ pc \in [Threads -> Places]
  /\ target \in [Threads -> Sessions \cup {NoSession}]
  /\ previous \in [Threads -> Titles]
  /\ onSaved \in [Threads -> Places]
  /\ onFailed \in [Threads -> Places]
  /\ todo \in [Threads -> SUBSET Sessions]
  /\ snap \in [Threads -> Saves]
  /\ handle \in [Threads -> {"none", "temporary", "path", "unlinked"}]
  /\ {temporary, path} \subseteq [kind : {"none", "empty", "whole", "torn"}, data : Saves]
  /\ calls \in 0 .. MaxCalls
  /\ crashes \in 0 .. MaxCrashes
  /\ suspect \in BOOLEAN

\* falknd has not started for the first time yet.
Init ==
  /\ up = FALSE
  /\ sessions = {}
  /\ record = [s \in Sessions |-> NewRecord]
  /\ child = [s \in Sessions |-> "none"]
  /\ pc = [t \in Threads |-> "idle"]
  /\ target = [t \in Threads |-> NoSession]
  /\ previous = [t \in Threads |-> FirstTitle]
  /\ onSaved = [t \in Threads |-> "idle"]
  /\ onFailed = [t \in Threads |-> "idle"]
  /\ todo = [t \in Threads |-> {}]
  /\ snap = [t \in Threads |-> <<>>]
  /\ handle = [t \in Threads |-> "none"]
  /\ temporary = Nowhere
  /\ path = Nowhere
  /\ calls = 0
  /\ crashes = 0
  /\ suspect = FALSE

Goto(t, place) == pc' = [pc EXCEPT ![t] = place]

\* Thread t calls persist() and goes on at ok or at failed.
Persist(t, s, ok, failed) ==
  /\ pc' = [pc EXCEPT ![t] = "list"]
  /\ target' = [target EXCEPT ![t] = s]
  /\ onSaved' = [onSaved EXCEPT ![t] = ok]
  /\ onFailed' = [onFailed EXCEPT ![t] = failed]

Update(s, field, value) == record' = [record EXCEPT ![s][field] = value]

(***************************************************************************)
(* Operations.  A request handler that finds no session, or nothing to do, *)
(* returns without a change and is not an action.                          *)
(***************************************************************************)
Call(t, operation) ==
  /\ up
  /\ operation \in Operations
  /\ pc[t] = "idle"
  /\ calls < MaxCalls
  /\ calls' = calls + 1
  /\ UNCHANGED <<up, crashes, suspect, saveVars, fileVars>>

\* Create and CreateShell: the process is started, the session enters the map
\* as running, and only after a successful persist does anyone wait for it.
Create(t, s) ==
  /\ Call(t, "create")
  /\ child[s] = "none"
  /\ child' = [child EXCEPT ![s] = "alive"]
  /\ sessions' = sessions \cup {s}
  /\ record' = [record EXCEPT ![s] = NewRecord]
  /\ Persist(t, s, "launch", "unlink")
  /\ UNCHANGED previous

\* Mutant: a created session is returned with nobody waiting for its process.
LaunchUnwatched(t) ==
  /\ pc[t] = "launch"
  /\ Goto(t, "idle")
  /\ target' = [target EXCEPT ![t] = NoSession]
  /\ UNCHANGED <<up, memoryVars, child, previous, onSaved, onFailed, saveVars,
                 fileVars, boundVars, suspect>>

Launch(t) ==
  /\ pc[t] = "launch"
  /\ pc' = [pc EXCEPT ![t] = "idle", ![target[t]] = "waiting"]
  /\ target' = [target EXCEPT ![t] = NoSession, ![target[t]] = target[t]]
  /\ UNCHANGED <<up, memoryVars, child, previous, onSaved, onFailed, saveVars,
                 fileVars, boundVars, suspect>>

\* A creation that could not be saved is undone: out of the map, then killed.
Unlink(t) ==
  /\ pc[t] = "unlink"
  /\ sessions' = sessions \ {target[t]}
  /\ Goto(t, "killUnlinked")
  /\ suspect' = (suspect \/ target[t] \in DOMAIN path.data)
  /\ UNCHANGED <<up, record, child, target, previous, onSaved, onFailed,
                 saveVars, fileVars, boundVars>>

\* Mutant: the process does not get the signal.
Survives(s) == UNCHANGED child

Dies(s) == child' = [child EXCEPT ![s] = IF @ = "alive" THEN "dead" ELSE @]

\* Process.Kill; a process that is gone already is no error.  A session loaded
\* from the state file has no command and is never running.
Kill(t) ==
  /\ pc[t] \in {"kill", "killUnlinked"}
  /\ Dies(target[t])
  /\ IF pc[t] = "kill"
       THEN /\ Goto(t, "setStopped")
            /\ UNCHANGED target
       ELSE /\ Goto(t, "idle")
            /\ target' = [target EXCEPT ![t] = NoSession]
  /\ UNCHANGED <<up, memoryVars, previous, onSaved, onFailed, saveVars,
                 fileVars, boundVars, suspect>>

\* Stop looks at the status; what follows trusts that answer.
Stop(t, s) ==
  /\ Call(t, "stop")
  /\ s \in sessions
  /\ record[s].status = "running"
  /\ Goto(t, "kill")
  /\ target' = [target EXCEPT ![t] = s]
  /\ onSaved' = [onSaved EXCEPT ![t] = "idle"]
  /\ onFailed' = [onFailed EXCEPT ![t] = "idle"]
  /\ UNCHANGED <<memoryVars, child, previous>>

SetStopped(t) ==
  /\ pc[t] = "setStopped"
  /\ Update(target[t], "status", "stopped")
  /\ Goto(t, "list")
  /\ UNCHANGED <<up, sessions, child, target, previous, onSaved, onFailed,
                 saveVars, fileVars, boundVars, suspect>>

\* Mutant: Delete does not stop a running session.
DeleteRunning(t, s) ==
  /\ Call(t, "delete")
  /\ s \in sessions
  /\ Goto(t, "remove")
  /\ target' = [target EXCEPT ![t] = s]
  /\ UNCHANGED <<memoryVars, child, previous, onSaved, onFailed>>

\* Delete of a running session calls Stop first, which looks it up again.
Delete(t, s) ==
  /\ Call(t, "delete")
  /\ s \in sessions
  /\ Goto(t, IF record[s].status = "running" THEN "nestedStop" ELSE "remove")
  /\ target' = [target EXCEPT ![t] = s]
  /\ onSaved' = [onSaved EXCEPT ![t] = "remove"]
  /\ onFailed' = [onFailed EXCEPT ![t] = "idle"]
  /\ UNCHANGED <<memoryVars, child, previous>>

NestedStop(t) ==
  /\ pc[t] = "nestedStop"
  /\ IF target[t] \notin sessions
       THEN /\ Goto(t, "idle")
            /\ target' = [target EXCEPT ![t] = NoSession]
       ELSE /\ Goto(t, IF record[target[t]].status = "running"
                         THEN "kill" ELSE "remove")
            /\ UNCHANGED target
  /\ UNCHANGED <<up, memoryVars, child, previous, onSaved, onFailed, saveVars,
                 fileVars, boundVars, suspect>>

Remove(t) ==
  /\ pc[t] = "remove"
  /\ sessions' = sessions \ {target[t]}
  /\ Persist(t, target[t], "idle", "idle")
  /\ UNCHANGED <<up, record, child, previous, saveVars, fileVars, boundVars,
                 suspect>>

Archive(t, s) ==
  /\ Call(t, "archive")
  /\ s \in sessions
  /\ record[s].status # "running"
  /\ Goto(t, "archive")
  /\ target' = [target EXCEPT ![t] = s]
  /\ UNCHANGED <<memoryVars, child, previous, onSaved, onFailed>>

\* Mutant: Archive returns without saving.
SetArchivedUnsaved(t) ==
  /\ pc[t] = "archive"
  /\ Update(target[t], "archived", TRUE)
  /\ Goto(t, "idle")
  /\ target' = [target EXCEPT ![t] = NoSession]
  /\ UNCHANGED <<up, sessions, child, previous, onSaved, onFailed, saveVars,
                 fileVars, boundVars, suspect>>

SetArchived(t) ==
  /\ pc[t] = "archive"
  /\ Update(target[t], "archived", TRUE)
  /\ Persist(t, target[t], "idle", "idle")
  /\ UNCHANGED <<up, sessions, child, previous, saveVars, fileVars, boundVars,
                 suspect>>

Restore(t, s) ==
  /\ Call(t, "restore")
  /\ s \in sessions
  /\ Update(s, "archived", FALSE)
  /\ Persist(t, s, "idle", "idle")
  /\ UNCHANGED <<sessions, child, previous>>

Rename(t, s, title) ==
  /\ Call(t, "rename")
  /\ s \in sessions
  /\ record[s].title # title
  /\ previous' = [previous EXCEPT ![t] = record[s].title]
  /\ Update(s, "title", title)
  /\ Persist(t, s, "idle", "untitle")
  /\ UNCHANGED <<sessions, child>>

\* Rename puts the title it replaced back when it could not be saved.
Untitle(t) ==
  /\ pc[t] = "untitle"
  /\ Update(target[t], "title", previous[t])
  /\ Goto(t, "idle")
  /\ target' = [target EXCEPT ![t] = NoSession]
  /\ suspect' = \/ suspect
                \/ /\ target[t] \in DOMAIN path.data
                   /\ path.data[target[t]].title # previous[t]
  /\ UNCHANGED <<up, sessions, child, previous, onSaved, onFailed, saveVars,
                 fileVars, boundVars>>

SetNotificationsMuted(t, s) ==
  /\ Call(t, "mute")
  /\ s \in sessions
  /\ Update(s, "muted", ~record[s].muted)
  /\ Persist(t, s, "idle", "idle")
  /\ UNCHANGED <<sessions, child, previous>>

(***************************************************************************)
(* The session's process and its waitForExit goroutine                     *)
(***************************************************************************)
ChildExits(s) ==
  /\ child[s] = "alive"
  /\ Dies(s)
  /\ UNCHANGED <<up, memoryVars, threadVars, saveVars, fileVars, boundVars, suspect>>

WaitReturns(s) ==
  /\ pc[s] = "waiting"
  /\ child[s] = "dead"
  /\ Goto(s, "check")
  /\ UNCHANGED <<up, memoryVars, child, target, previous, onSaved, onFailed,
                 saveVars, fileVars, boundVars, suspect>>

\* The status is read here and set in the next step, as in Stop.
WaiterChecks(s) ==
  /\ pc[s] = "check"
  /\ IF record[s].status = "running"
       THEN /\ Goto(s, "setEnded")
            /\ UNCHANGED target
       ELSE /\ Goto(s, "idle")
            /\ target' = [target EXCEPT ![s] = NoSession]
  /\ UNCHANGED <<up, memoryVars, child, previous, onSaved, onFailed, saveVars,
                 fileVars, boundVars, suspect>>

SetEnded(s) ==
  /\ pc[s] = "setEnded"
  /\ Update(s, "status", "ended")
  /\ Persist(s, s, "idle", "idle")
  /\ UNCHANGED <<up, sessions, child, previous, saveVars, fileVars, boundVars,
                 suspect>>

(***************************************************************************)
(* persist()                                                               *)
(***************************************************************************)
\* The list of sessions is taken under the manager's lock ...
List(t) ==
  /\ pc[t] = "list"
  /\ todo' = [todo EXCEPT ![t] = sessions]
  /\ snap' = [snap EXCEPT ![t] = <<>>]
  /\ Goto(t, "snapshot")
  /\ suspect' = (suspect \/ \E u \in Threads \ {t} : pc[u] \in Unsettled)
  /\ UNCHANGED <<up, memoryVars, child, target, previous, onSaved, onFailed,
                 handle, fileVars, boundVars>>

\* ... and each record under that session's lock, in the order of the map.
Snapshot(t) ==
  /\ pc[t] = "snapshot"
  /\ \E s \in todo[t] :
       /\ todo' = [todo EXCEPT ![t] = @ \ {s}]
       /\ snap' = [snap EXCEPT ![t] =
                     [x \in DOMAIN @ \cup {s} |-> IF x = s THEN record[s] ELSE @[x]]]
       /\ Goto(t, IF todo[t] = {s} THEN "open" ELSE "snapshot")
  /\ UNCHANGED <<up, memoryVars, child, target, previous, onSaved, onFailed,
                 handle, fileVars, boundVars, suspect>>

SnapshotNothing(t) ==
  /\ pc[t] = "snapshot"
  /\ todo[t] = {}
  /\ Goto(t, "open")
  /\ UNCHANGED <<up, memoryVars, child, target, previous, onSaved, onFailed,
                 saveVars, fileVars, boundVars, suspect>>

\* Mutant: the state file is written in place.
OpenInPlace(t) ==
  /\ pc[t] = "open"
  /\ path' = Truncated
  /\ handle' = [handle EXCEPT ![t] = "path"]
  /\ Goto(t, "write")
  /\ UNCHANGED <<up, memoryVars, child, target, previous, onSaved, onFailed,
                 todo, snap, temporary, boundVars, suspect>>

\* os.WriteFile opens the one temporary name with O_CREATE and O_TRUNC ...
Open(t) ==
  /\ pc[t] = "open"
  /\ temporary' = Truncated
  /\ handle' = [handle EXCEPT ![t] = "temporary"]
  /\ Goto(t, "write")
  /\ UNCHANGED <<up, memoryVars, child, target, previous, onSaved, onFailed,
                 todo, snap, path, boundVars, suspect>>

\* What a file holds once `data` is written at its start: the tail of a longer
\* document stays behind it.
Overlaid(file, data) ==
  IF file.kind = "empty" \/ file = Document(data)
    THEN {Document(data)}
    ELSE {Document(data), Torn}

\* ... and writes through its descriptor, wherever that file has gone since.
Write(t) ==
  /\ pc[t] = "write"
  /\ IF handle[t] = "temporary"
       THEN temporary' \in Overlaid(temporary, snap[t])
       ELSE UNCHANGED temporary
  /\ IF handle[t] = "path"
       THEN path' \in Overlaid(path, snap[t])
       ELSE UNCHANGED path
  /\ handle' = [handle EXCEPT ![t] = "none"]
  /\ Goto(t, "rename")
  /\ UNCHANGED <<up, memoryVars, child, target, previous, onSaved, onFailed,
                 todo, snap, boundVars, suspect>>

\* persist returns; a thread with nothing left to do is done with its session.
Return(t, place) ==
  /\ Goto(t, place)
  /\ target' = [target EXCEPT ![t] = IF place = "idle" THEN NoSession ELSE @]
  /\ todo' = [todo EXCEPT ![t] = {}]
  /\ snap' = [snap EXCEPT ![t] = <<>>]

Moved(where) ==
  CASE where = "temporary" -> "path"
    [] where = "path" -> "unlinked"
    [] OTHER -> where

\* os.Rename replaces the state file; the descriptors follow their files.
Replace(t) ==
  /\ pc[t] = "rename"
  /\ temporary # Nowhere
  /\ path' = temporary
  /\ temporary' = Nowhere
  /\ handle' = [u \in Threads |-> Moved(handle[u])]
  /\ Return(t, onSaved[t])
  /\ UNCHANGED <<up, memoryVars, child, previous, onSaved, onFailed, boundVars,
                 suspect>>

\* Another persist has renamed the temporary file away.
ReplaceFails(t) ==
  /\ pc[t] = "rename"
  /\ temporary = Nowhere
  /\ Return(t, onFailed[t])
  /\ UNCHANGED <<up, memoryVars, child, previous, onSaved, onFailed, handle,
                 fileVars, boundVars, suspect>>

\* The file cannot be opened or written.
WriteFails(t) ==
  /\ Faults
  /\ pc[t] \in {"open", "write"}
  /\ handle' = [handle EXCEPT ![t] = "none"]
  /\ Return(t, onFailed[t])
  /\ suspect' = (suspect \/ onFailed[t] \notin {"unlink", "untitle"})
  /\ UNCHANGED <<up, memoryVars, child, previous, onSaved, onFailed, fileVars,
                 boundVars>>

(***************************************************************************)
(* The daemon dies and starts                                              *)
(***************************************************************************)
Forget ==
  /\ up' = FALSE
  /\ sessions' = {}
  /\ record' = [s \in Sessions |-> NewRecord]
  /\ pc' = [t \in Threads |-> "idle"]
  /\ target' = [t \in Threads |-> NoSession]
  /\ todo' = [t \in Threads |-> {}]
  /\ snap' = [t \in Threads |-> <<>>]
  /\ handle' = [t \in Threads |-> "none"]
  /\ UNCHANGED <<previous, onSaved, onFailed, fileVars, calls>>

Crash ==
  /\ up \/ pc[Boot] # "idle"
  /\ crashes < MaxCrashes
  /\ crashes' = crashes + 1
  /\ child' = [s \in Sessions |-> IF child[s] = "none" THEN "none" ELSE "orphan"]
  /\ Forget
  /\ UNCHANGED suspect

\* EnablePersistence: an empty file is no state, a torn one stops the daemon.
Loaded(stored) ==
  [stored EXCEPT !.status = IF @ = "running" THEN "stopped" ELSE @]

EnablePersistence ==
  /\ ~up
  /\ pc[Boot] = "idle"
  /\ path.kind # "torn"
  /\ sessions' = DOMAIN path.data
  /\ record' = [s \in Sessions |->
                  IF s \in DOMAIN path.data THEN Loaded(path.data[s]) ELSE record[s]]
  /\ Persist(Boot, NoSession, "up", "down")
  /\ UNCHANGED <<up, child, previous, saveVars, fileVars, boundVars, suspect>>

Serve ==
  /\ pc[Boot] = "up"
  /\ up' = TRUE
  /\ Goto(Boot, "idle")
  /\ UNCHANGED <<memoryVars, child, target, previous, onSaved, onFailed, saveVars,
                 fileVars, boundVars, suspect>>

\* EnablePersistence returned an error: the process exits.
ExitAtBoot ==
  /\ pc[Boot] = "down"
  /\ Forget
  /\ UNCHANGED <<child, crashes, suspect>>

SaveStep(t) ==
  \/ List(t) \/ Snapshot(t) \/ SnapshotNothing(t) \/ Open(t) \/ Write(t)
  \/ Replace(t) \/ ReplaceFails(t)

CallerStep(t) ==
  \/ Launch(t) \/ Unlink(t) \/ Kill(t) \/ SetStopped(t) \/ NestedStop(t)
  \/ Remove(t) \/ SetArchived(t) \/ Untitle(t)

WaiterStep(s) == WaitReturns(s) \/ WaiterChecks(s) \/ SetEnded(s)

Request(t) ==
  \E s \in Sessions :
    \/ Create(t, s) \/ Stop(t, s) \/ Delete(t, s) \/ Archive(t, s)
    \/ Restore(t, s) \/ SetNotificationsMuted(t, s)
    \/ \E title \in Titles : Rename(t, s, title)

Next ==
  \/ \E t \in Callers : Request(t) \/ CallerStep(t)
  \/ \E s \in Sessions : ChildExits(s) \/ WaiterStep(s)
  \/ \E t \in Threads : SaveStep(t) \/ WriteFails(t)
  \/ Crash \/ EnablePersistence \/ Serve \/ ExitAtBoot

\* Every goroutine that can go on is scheduled; a file system call returns.
Spec ==
  /\ Init /\ [][Next]_vars
  /\ \A t \in Callers : WF_vars(CallerStep(t))
  /\ \A s \in Sessions : WF_vars(WaiterStep(s))
  /\ \A t \in Threads : WF_vars(SaveStep(t))
  /\ WF_vars(EnablePersistence \/ Serve \/ ExitAtBoot)

(***************************************************************************)
(* Properties                                                              *)
(***************************************************************************)
\* StatusHonest: a session that is shown as finished has no live process, and a
\* session that was archived is finished (Stop 398-408, waitForExit 624-632,
\* Archive 438-441, each of which looks first and acts later).
StatusHonest ==
  \A s \in sessions :
    /\ record[s].status # "running" => child[s] # "alive"
    /\ record[s].archived => record[s].status # "running"

\* NoStrayProcess: a live process always belongs to a session of the map, where
\* it can be seen and stopped, except for the moment a failed creation kills it.
NoStrayProcess ==
  \A s \in Sessions :
    child[s] = "alive" =>
      s \in sessions \/ \E t \in Callers : pc[t] = "killUnlinked" /\ target[t] = s

OnDisk == path.data

Untouched(s) ==
  pc[Boot] = "idle" /\ \A t \in Threads : target[t] = s => pc[t] \in {"idle", "waiting"}

\* AcknowledgedIsSaved: unless two persists overlapped or one failed, what the
\* last finished operation on a session did is what a restart would load.
AcknowledgedIsSaved ==
  up /\ ~suspect =>
    \A s \in Sessions : Untouched(s) =>
      /\ s \in sessions <=> s \in DOMAIN OnDisk
      /\ s \in sessions => record[s] = OnDisk[s]

\* StateFileWhole: unless two persists overlapped, the state file is a whole
\* document at every moment the daemon may die (persist 666-672).
StateFileWhole == ~suspect => path.kind \in {"none", "whole"}

\* DeathIsNoticed: the end of a session's process is recorded, whoever else is
\* working on the session (waitForExit 624-634).
DeathIsNoticed ==
  \A s \in Sessions :
    child[s] = "dead" ~> s \notin sessions \/ record[s].status # "running"

\* StoppedStays: a session recorded as stopped is never recorded as one that
\* ended by itself.
StoppedStays ==
  [][\A s \in sessions : record[s].status = "stopped" => record'[s].status # "ended"]_vars

\* QuietIsSaved: when every operation has returned without a fault, the state
\* file holds what the daemon shows.
QuietIsSaved ==
  up /\ (\A t \in Threads : pc[t] \in {"idle", "waiting"}) =>
    path = Document([s \in sessions |-> record[s]])
==============================================================================
