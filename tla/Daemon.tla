-------------------------------- MODULE Daemon --------------------------------
(***************************************************************************)
(* The life of falknd around its session manager: a process takes the      *)
(* daemon lock, loads the state, replaces the socket and serves until it   *)
(* is asked to stop (internal/server/server.go); clients connect to the    *)
(* socket, start a process when nobody answers, and restart the daemon     *)
(* when no session runs (internal/server/client.go, cmd/falkn/main.go).    *)
(*                                                                         *)
(* The variables of SessionManager are the memory of the process that      *)
(* holds the lock and the state file.                                      *)
(***************************************************************************)
EXTENDS SessionManager

CONSTANTS
  Procs,       \* processes of `falkn serve`, numbered as they are started
  Clients,     \* commands that call the daemon
  Restarters,  \* the ones among them that are `falkn daemon restart`
  Nobody,
  MaxUpsets    \* bound of the model: signals the daemon is sent and its deaths

NobodyAssumption == Nobody \notin Procs
ASSUME NobodyIsNoProcess == NobodyAssumption
UpsetsAssumption == MaxUpsets \in Nat
ASSUME UpsetsAreANumber == UpsetsAssumption

VARIABLES
  proc,     \* where each process is in Serve
  lock,     \* who holds the daemon lock
  socket,   \* whose listener the socket file leads to, alive or not
  asked,    \* who asked a process to stop: nobody, daemon.shutdown, a signal
  client,   \* where each client is, the call it makes and to which process
  late,     \* history: sessions created after the last shutdown was accepted
  signals   \* signals sent

processVars == <<proc, lock, socket, asked>>
daemonVars == <<proc, lock, socket, asked, client, late, signals>>
allVars == <<vars, daemonVars>>

\* The phases of a process that has the lock.
Holding == {"locked", "loaded", "removed", "serving", "closed", "leaving"}
Answering == {"serving", "closed", "leaving"}

DaemonInit ==
  /\ Init
  /\ proc = [d \in Procs |-> "off"]
  /\ lock = Nobody
  /\ socket = Nobody
  /\ asked = [d \in Procs |-> "no"]
  /\ client = [c \in Clients |->
                 [pc |-> "idle", call |-> "request", to |-> Nobody]]
  /\ late = {}
  /\ signals = 0

At(d, phase) == proc[d] = phase
Becomes(d, phase) == proc' = [proc EXCEPT ![d] = phase]

-----------------------------------------------------------------------------
(* Serve. *)

\* flock does not wait: a second daemon gives up at once.
TakeLock(d) ==
  /\ At(d, "started")
  /\ IF lock = Nobody
       THEN Becomes(d, "locked") /\ lock' = d
       ELSE Becomes(d, "gone") /\ UNCHANGED lock
  /\ UNCHANGED <<vars, socket, asked, client, late, signals>>

\* EnablePersistence begins, and succeeds or fails.
Load(d) ==
  /\ At(d, "locked") /\ lock = d
  /\ EnablePersistence
  /\ UNCHANGED daemonVars

LoadEnds(d) ==
  /\ At(d, "locked") /\ lock = d
  /\ Serve
  /\ Becomes(d, "loaded")
  /\ UNCHANGED <<lock, socket, asked, client, late, signals>>

\* What the operating system does when a process is gone.
Ended(d) ==
  /\ Becomes(d, "gone")
  /\ lock' = IF lock = d THEN Nobody ELSE lock
  /\ late' = {}

LoadFails(d) ==
  /\ At(d, "locked") /\ lock = d
  /\ \/ ExitAtBoot
     \/ ~up /\ pc[Boot] = "idle" /\ path.kind = "torn" /\ UNCHANGED vars
  /\ Ended(d)
  /\ UNCHANGED <<socket, asked, client, signals>>

RemoveStaleSocket(d) ==
  /\ At(d, "loaded")
  /\ Becomes(d, "removed") /\ socket' = Nobody
  /\ UNCHANGED <<vars, lock, asked, client, late, signals>>

\* Listen finds the path free, since only the holder of the lock binds it.
Listen(d) ==
  /\ At(d, "removed") /\ socket = Nobody
  /\ Becomes(d, "serving") /\ socket' = d
  /\ UNCHANGED <<vars, lock, asked, client, late, signals>>

\* Mutant of Stopping: only signals are waited for.
StoppingBySignal(d) == asked[d] = "signal"
Stopping(d) == asked[d] # "no"

\* Mutant of CloseListener: the lock is given back before the socket is removed.
CloseUnlocked(d) ==
  /\ At(d, "serving") /\ Stopping(d)
  /\ Becomes(d, "closed") /\ socket' = Nobody /\ lock' = Nobody
  /\ UNCHANGED <<vars, asked, client, late, signals>>
\* Closing the listener removes the path it was bound to ...
CloseListener(d) ==
  /\ At(d, "serving") /\ Stopping(d)
  /\ Becomes(d, "closed") /\ socket' = Nobody
  /\ UNCHANGED <<vars, lock, asked, client, late, signals>>

\* ... and so does Serve when it returns.
RemoveSocket(d) ==
  /\ At(d, "closed")
  /\ Becomes(d, "leaving") /\ socket' = Nobody
  /\ UNCHANGED <<vars, lock, asked, client, late, signals>>

\* The lock is released and the process ends, whatever its handlers are doing;
\* sessions that run lose their terminal.
Exit(d) ==
  /\ At(d, "leaving")
  /\ child' = [s \in Sessions |-> IF child[s] = "none" THEN "none" ELSE "orphan"]
  /\ Forget
  /\ Ended(d)
  /\ UNCHANGED <<crashes, suspect, socket, asked, client, signals>>

\* The process is killed at any point; the socket file stays.
Killed(d) ==
  /\ lock = d /\ crashes + signals < MaxUpsets
  /\ Crash
  /\ Ended(d)
  /\ UNCHANGED <<socket, asked, client, signals>>

\* SIGINT or SIGTERM, which the daemon takes once it listens.
Signal(d) ==
  /\ At(d, "serving") /\ crashes + signals < MaxUpsets
  /\ signals' = signals + 1
  /\ asked' = [asked EXCEPT ![d] = IF @ = "no" THEN "signal" ELSE @]
  /\ UNCHANGED <<vars, proc, lock, socket, client, late>>

ServeStep(d) ==
  \/ TakeLock(d) \/ Load(d) \/ LoadEnds(d) \/ LoadFails(d) \/ RemoveStaleSocket(d)
  \/ Listen(d) \/ CloseListener(d) \/ RemoveSocket(d) \/ Exit(d)

-----------------------------------------------------------------------------
(* The session manager inside it.  A handler lives on while its process does, *)
(* also when the listener is closed already.                                  *)

HandlersRun == lock # Nobody /\ proc[lock] \in Answering

Handle(t) ==
  /\ HandlersRun
  /\ Request(t)
  /\ late' = late \cup {s \in Sessions : child[s] = "none" /\ child'[s] = "alive"}
  /\ UNCHANGED <<processVars, client, signals>>

GoOn ==
  /\ \/ \E t \in Callers : CallerStep(t)
     \/ \E s \in Sessions : ChildExits(s) \/ WaiterStep(s)
     \/ \E t \in Threads : SaveStep(t) \/ WriteFails(t)
  /\ UNCHANGED daemonVars

Running == {s \in sessions : record[s].status = "running"}

-----------------------------------------------------------------------------
(* The clients. *)

ClientAt(c, place) == client[c].pc = place
Moves(c, place, call, to) ==
  client' = [client EXCEPT ![c] = [pc |-> place, call |-> call, to |-> to]]
Reachable == socket # Nobody /\ proc[socket] = "serving"
OnItsWay(d) == proc[d] \in {"started", "locked", "loaded", "removed"}

Begin(c) ==
  /\ ClientAt(c, "idle")
  /\ Moves(c, "connect", IF c \in Restarters THEN "list" ELSE "request", Nobody)
  /\ UNCHANGED <<vars, processVars, late, signals>>

\* connect, at once or while waitForDaemon polls.
Connect(c) ==
  /\ client[c].pc \in {"connect", "wait"} /\ Reachable
  /\ Moves(c, "answer", client[c].call, socket)
  /\ UNCHANGED <<vars, processVars, late, signals>>

StartDaemon(c) ==
  /\ ClientAt(c, "connect") /\ ~Reachable
  /\ \E d \in Procs :
       /\ At(d, "off") /\ \A e \in Procs : At(e, "off") => d <= e
       /\ Becomes(d, "started")
  /\ Moves(c, "wait", client[c].call, Nobody)
  /\ UNCHANGED <<vars, lock, socket, asked, late, signals>>

\* waitForDaemon gives up; three seconds are enough for what is on its way.
WaitTimesOut(c) ==
  /\ ClientAt(c, "wait") /\ ~Reachable /\ \A d \in Procs : ~OnItsWay(d)
  /\ Moves(c, "failed", client[c].call, Nobody)
  /\ UNCHANGED <<vars, processVars, late, signals>>

\* The process went, or closed its listener, before the call was handled.
Dropped(c) ==
  /\ ClientAt(c, "answer") /\ proc[client[c].to] \in {"closed", "leaving", "gone"}
  /\ Moves(c, "failed", client[c].call, Nobody)
  /\ UNCHANGED <<vars, processVars, late, signals>>

\* A handler of the process answers the call.
Answers(c, call) ==
  /\ ClientAt(c, "answer") /\ client[c].call = call
  /\ proc[client[c].to] \in Answering
  /\ UNCHANGED <<vars, proc, lock, socket, signals>>

Answer(c) ==
  /\ \E call \in {"request", "preflight"} : Answers(c, call)
  /\ Moves(c, "done", client[c].call, Nobody)
  /\ UNCHANGED <<asked, late>>

\* restartDaemon looks at the list it was given ...
AnswerList(c) ==
  /\ Answers(c, "list")
  /\ IF Running # {} THEN Moves(c, "refused", "list", Nobody)
                     ELSE Moves(c, "connect", "shutdown", Nobody)
  /\ UNCHANGED <<asked, late>>

\* Mutant of AnswerShutdown: the client's own look at the list is enough.
AnswerAnyShutdown(c) ==
  /\ Answers(c, "shutdown")
  /\ Moves(c, "waitGone", "shutdown", client[c].to)
  /\ asked' = [asked EXCEPT ![client[c].to] = IF @ = "no" THEN "shutdown" ELSE @]
  /\ late' = {}
\* ... and the daemon at its own, before it says that it will stop.
AnswerShutdown(c) ==
  /\ Answers(c, "shutdown")
  /\ IF Running # {}
       THEN /\ Moves(c, "refused", "shutdown", Nobody)
            /\ UNCHANGED <<asked, late>>
       ELSE /\ Moves(c, "waitGone", "shutdown", client[c].to)
            /\ asked' = [asked EXCEPT ![client[c].to] = IF @ = "no" THEN "shutdown" ELSE @]
            /\ late' = {}

\* The socket is gone: the next call starts the new daemon.
SeeGone(c) ==
  /\ ClientAt(c, "waitGone") /\ socket = Nobody
  /\ Moves(c, "connect", "preflight", Nobody)
  /\ UNCHANGED <<vars, processVars, late, signals>>

\* Another daemon has taken the path, or the old one died and left it behind.
GoneTimesOut(c) ==
  /\ ClientAt(c, "waitGone") /\ socket # Nobody
  /\ socket # client[c].to \/ At(client[c].to, "gone")
  /\ Moves(c, "failed", "shutdown", Nobody)
  /\ UNCHANGED <<vars, processVars, late, signals>>

ClientStep(c) ==
  \/ Connect(c) \/ StartDaemon(c) \/ WaitTimesOut(c) \/ Dropped(c) \/ Answer(c)
  \/ AnswerList(c) \/ AnswerShutdown(c) \/ SeeGone(c) \/ GoneTimesOut(c)

DaemonNext ==
  \/ \E d \in Procs : ServeStep(d) \/ Killed(d) \/ Signal(d)
  \/ \E t \in Callers : Handle(t)
  \/ GoOn
  \/ \E c \in Clients : Begin(c) \/ ClientStep(c)

\* What Spec assumes of the manager, and that a process runs on and a client's
\* calls return.
DaemonSpec ==
  /\ DaemonInit /\ [][DaemonNext]_allVars
  /\ \A t \in Callers : WF_allVars(CallerStep(t) /\ UNCHANGED daemonVars)
  /\ \A s \in Sessions : WF_allVars(WaiterStep(s) /\ UNCHANGED daemonVars)
  /\ \A t \in Threads : WF_allVars(SaveStep(t) /\ UNCHANGED daemonVars)
  /\ \A d \in Procs : WF_allVars(ServeStep(d))
  /\ \A c \in Clients : WF_allVars(ClientStep(c))

-----------------------------------------------------------------------------
(* Properties. *)

DaemonTypeOK ==
  /\ proc \in [Procs -> Holding \cup {"off", "started", "gone"}]
  /\ lock \in Procs \cup {Nobody} /\ socket \in Procs \cup {Nobody}
  /\ asked \in [Procs -> {"no", "shutdown", "signal"}]
  /\ late \subseteq Sessions /\ signals \in 0..MaxUpsets
  /\ client \in [Clients -> [
       pc : {"idle", "connect", "wait", "answer", "waitGone", "done", "refused", "failed"},
       call : {"request", "list", "shutdown", "preflight"}, to : Procs \cup {Nobody}]]

\* Of all the processes ever started at most one is past the lock, it alone has
\* touched the state file, and while it serves the socket leads to it: no
\* process that comes late or is on its way out takes the socket away (Serve).
OneDaemon ==
  /\ \A d \in Procs : proc[d] \in Holding => lock = d
  /\ \A d \in Procs : proc[d] = "serving" => socket = d
  /\ up \/ pc[Boot] # "idle" => lock # Nobody

\* A daemon that was asked to shut down never takes a session with it that ran
\* when it agreed, only one that was created afterwards
\* (daemon.shutdown, RunningSessions).
ShutdownSpares ==
  [][\A d \in Procs :
       proc[d] = "leaving" /\ proc'[d] = "gone" /\ asked[d] = "shutdown" =>
         {s \in Running : child[s] = "alive"} \subseteq late]_allVars

\* A daemon that agreed to stop goes, and takes lock and socket with it unless
\* it is killed meanwhile, so that a restart gets on (Serve, restartDaemon).
ShutdownCompletes ==
  \A d \in Procs : asked[d] # "no" ~> lock # d /\ (socket # d \/ crashes > 0)
=============================================================================
