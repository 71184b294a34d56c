------------------------------ MODULE DaemonProofs ------------------------------
(***************************************************************************)
(* Proofs about the life of the daemon, for any number of processes,       *)
(* clients, sessions, signals and deaths: the lock admits one process, the *)
(* socket belongs to it, and a shutdown that was agreed to spares every    *)
(* session that ran at that moment.                                        *)
(*                                                                         *)
(* The manager's own invariant (SessionManagerProofs) is carried along: a  *)
(* step of a process either is a step of the manager, leaves it alone, or  *)
(* ends the process and with it the manager.                               *)
(***************************************************************************)
EXTENDS Daemon, SessionManagerProofs

\* The lock is held by a process that lives, and a process past the lock holds it.
LockIsHeld ==
  /\ lock # Nobody => proc[lock] \in Holding
  /\ \A d \in Procs : proc[d] \in Holding => lock = d

\* The socket leads to the process that serves.
SocketIsServed == \A d \in Procs : proc[d] = "serving" => socket = d

\* The manager is in use only inside a process that holds the lock.
ManagerIsOwned == up \/ pc[Boot] # "idle" => lock # Nobody

\* Only a process that serves, or did, was asked to stop.
AskedServed ==
  /\ \A d \in Procs : asked[d] # "no" => proc[d] \in Answering \cup {"gone"}
  /\ \A c \in Clients : client[c].pc = "answer" => client[c].to \in Procs

\* Whatever runs in a daemon that agreed to shut down was created afterwards.
LateOnly ==
  lock # Nobody /\ asked[lock] = "shutdown" => Running \subseteq late

DInv ==
  /\ IInv /\ DaemonTypeOK
  /\ LockIsHeld /\ SocketIsServed /\ ManagerIsOwned /\ AskedServed /\ LateOnly

------------------------------------------------------------------------------
\* A session starts to run only when it is created.
LEMMA RequestRuns ==
  ASSUME IInv, NEW t \in Callers, Request(t)
  PROVE  Running' \subseteq Running \cup {s \in Sessions : child[s] = "none" /\ child'[s] = "alive"}
<1>0. /\ sessions \subseteq Sessions /\ record \in [Sessions -> Record]
      /\ child \in [Sessions -> {"none", "alive", "dead", "orphan"}]
  BY DEF IInv, TypeOK
<1> USE <1>0 DEF Running, Call, Persist, Update, Goto, memoryVars
<1>1. ASSUME NEW s \in Sessions, Create(t, s)
      PROVE  Running' \subseteq Running \cup {x \in Sessions : child[x] = "none" /\ child'[x] = "alive"}
  BY <1>1 DEF Create, NewRecord
<1>2. ASSUME NEW s \in Sessions, Stop(t, s) \/ Delete(t, s) \/ Archive(t, s)
      PROVE  Running' \subseteq Running
  BY <1>2 DEF Stop, Delete, Archive
<1>3. ASSUME NEW s \in Sessions, Restore(t, s) PROVE Running' \subseteq Running
  BY <1>3 DEF Restore, Record
<1>4. ASSUME NEW s \in Sessions, SetNotificationsMuted(t, s) PROVE Running' \subseteq Running
  BY <1>4 DEF SetNotificationsMuted, Record
<1>5. ASSUME NEW s \in Sessions, NEW title \in Titles, Rename(t, s, title)
      PROVE  Running' \subseteq Running
  BY <1>5 DEF Rename, Record
<1> QED
  BY <1>1, <1>2, <1>3, <1>4, <1>5 DEF Request

\* Nothing else the manager does starts one or takes it into use.
LEMMA GoOnRuns ==
  ASSUME IInv,
         \/ \E t \in Callers : CallerStep(t)
         \/ \E s \in Sessions : ChildExits(s) \/ WaiterStep(s)
         \/ \E t \in Threads : SaveStep(t) \/ WriteFails(t)
  PROVE  Running' \subseteq Running /\ up' = up /\ (pc[Boot] = "idle" => pc'[Boot] = "idle")
<1>0. /\ sessions \subseteq Sessions /\ record \in [Sessions -> Record]
      /\ pc \in [Threads -> Places]
      /\ CallerControl /\ WaiterControl /\ BootControl
  BY DEF IInv, TypeOK, Control
<1> DEFINE Good == Running' \subseteq Running /\ up' = up /\ (pc[Boot] = "idle" => pc'[Boot] = "idle")
<1> USE <1>0, ThreadsAreDistinct
    DEF Running, Goto, Update, Persist, memoryVars, ThreadsAssumption, Threads, Saving
<1>1. ASSUME NEW t \in Callers, CallerStep(t) PROVE Good
  <2>0. pc[t] # "idle" => target[t] \in Sessions
    BY DEF CallerControl
  <2>1. CASE Launch(t) \/ Unlink(t) \/ Kill(t) \/ NestedStop(t) \/ Remove(t)
    BY <2>0, <2>1 DEF Launch, Unlink, Kill, NestedStop, Remove
  <2>2. CASE SetStopped(t) \/ SetArchived(t)
    BY <2>0, <2>2 DEF SetStopped, SetArchived, Record
  <2>3. CASE Untitle(t)
    BY <2>0, <2>3 DEF Untitle, Record
  <2> QED
    BY <1>1, <2>1, <2>2, <2>3 DEF CallerStep
<1>2. ASSUME NEW s \in Sessions, ChildExits(s) \/ WaiterStep(s) PROVE Good
  BY <1>2 DEF ChildExits, WaiterStep, WaitReturns, WaiterChecks, SetEnded, Record, threadVars
<1>3. ASSUME NEW t \in Threads, SaveStep(t) \/ WriteFails(t) PROVE Good
  BY <1>3 DEF SaveStep, List, Snapshot, SnapshotNothing, Open, Write, Replace,
              ReplaceFails, WriteFails, Return
<1> QED
  BY <1>1, <1>2, <1>3

\* What a step that leaves the manager alone leaves alone.
LEMMA ManagerRests ==
  ASSUME IInv, UNCHANGED vars
  PROVE  IInv' /\ Running' = Running /\ up' = up /\ pc' = pc
  BY StutterPreserves DEF vars, Running

\* A process takes the lock, binds the socket, leaves.
LEMMA ServePreserves ==
  ASSUME DInv, NEW d \in Procs, ServeStep(d) \/ Killed(d) \/ Signal(d)
  PROVE  DInv'
<1>0. /\ IInv /\ DaemonTypeOK /\ LockIsHeld /\ SocketIsServed /\ ManagerIsOwned
      /\ AskedServed /\ LateOnly
  BY DEF DInv
<1> USE <1>0, NobodyIsNoProcess DEF NobodyAssumption, Holding, Answering, At, Becomes
<1>1. ASSUME UNCHANGED vars,
             TakeLock(d) \/ RemoveStaleSocket(d) \/ Listen(d) \/ CloseListener(d)
             \/ RemoveSocket(d) \/ Signal(d)
      PROVE  DInv'
  <2>0. IInv' /\ Running' = Running /\ up' = up /\ pc' = pc
    BY <1>1, ManagerRests
  <2> USE <1>1, <2>0, UpsetsAreANumber
      DEF TakeLock, RemoveStaleSocket, Listen, CloseListener, RemoveSocket, Signal, UpsetsAssumption
  <2>c. crashes \in Nat
    BY BoundsAreNumbers DEF IInv, TypeOK, BoundsAssumption
  <2>1. DaemonTypeOK'
    BY <2>c DEF DaemonTypeOK
  <2>2. LockIsHeld'
    BY DEF LockIsHeld, DaemonTypeOK
  <2>3. SocketIsServed'
    BY DEF SocketIsServed, LockIsHeld, DaemonTypeOK
  <2>4. ManagerIsOwned'
    BY DEF ManagerIsOwned, DaemonTypeOK
  <2>5. AskedServed'
    BY DEF AskedServed, DaemonTypeOK
  <2>6. LateOnly'
    BY DEF LateOnly, AskedServed, LockIsHeld, DaemonTypeOK
  <2> QED
    BY <2>0, <2>1, <2>2, <2>3, <2>4, <2>5, <2>6 DEF DInv
<1>2. ASSUME Load(d) \/ LoadEnds(d) PROVE DInv'
  <2>0. IInv'
    BY <1>2, DaemonPreserves DEF Load, LoadEnds
  <2> USE <1>2, <2>0 DEF Load, LoadEnds, daemonVars
  <2>1. DaemonTypeOK' /\ LockIsHeld' /\ SocketIsServed' /\ AskedServed'
    BY DEF DaemonTypeOK, LockIsHeld, SocketIsServed, AskedServed
  <2>2. ManagerIsOwned'
    BY DEF ManagerIsOwned
  <2>3. LateOnly'
    BY DEF LateOnly, AskedServed
  <2> QED
    BY <2>0, <2>1, <2>2, <2>3 DEF DInv
<1>3. ASSUME LoadFails(d) \/ Exit(d) \/ Killed(d) PROVE DInv'
  <2>1. IInv'
    <3>1. CASE LoadFails(d)
      BY <3>1, DaemonPreserves, StutterPreserves DEF LoadFails
    <3>2. CASE Exit(d)
      <4>1. crashes' \in 0 .. MaxCrashes
        BY <3>2 DEF Exit, IInv, TypeOK
      <4> QED
        BY <3>2, <4>1, DeathPreserves DEF Exit
    <3>3. CASE Killed(d)
      BY <3>3, DaemonPreserves DEF Killed
    <3> QED
      BY <1>3, <3>1, <3>2, <3>3
  <2>2. /\ lock = d /\ Ended(d) /\ UNCHANGED <<socket, asked, client, signals>>
        /\ ~up' /\ pc'[Boot] = "idle"
    <3>1. CASE LoadFails(d)
      BY <3>1 DEF LoadFails, ExitAtBoot, Forget, Threads, vars
    <3>2. CASE Exit(d)
      BY <3>2 DEF Exit, Forget, Threads, LockIsHeld
    <3>3. CASE Killed(d)
      BY <3>3 DEF Killed, Crash, Forget, Threads
    <3> QED
      BY <1>3, <3>1, <3>2, <3>3
  <2> USE <2>1, <2>2 DEF Ended
  <2>3. DaemonTypeOK'
    BY DEF DaemonTypeOK
  <2>4. LockIsHeld' /\ SocketIsServed' /\ AskedServed'
    BY DEF LockIsHeld, SocketIsServed, AskedServed, DaemonTypeOK
  <2>5. ManagerIsOwned' /\ LateOnly'
    BY DEF ManagerIsOwned, LateOnly
  <2> QED
    BY <2>1, <2>3, <2>4, <2>5 DEF DInv
<1> QED
  BY <1>1, <1>2, <1>3
     DEF ServeStep, TakeLock, RemoveStaleSocket, Listen, CloseListener, RemoveSocket, Signal

\* The manager works inside the process that holds the lock.
LEMMA ManagerPreserves ==
  ASSUME DInv, (\E t \in Callers : Handle(t)) \/ GoOn
  PROVE  DInv'
<1>0. /\ IInv /\ DaemonTypeOK /\ LockIsHeld /\ SocketIsServed /\ ManagerIsOwned
      /\ AskedServed /\ LateOnly
  BY DEF DInv
<1> USE <1>0
<1>1. ASSUME NEW t \in Callers, Handle(t) PROVE DInv'
  <2>1. IInv' /\ Running' \subseteq Running \cup {s \in Sessions : child[s] = "none" /\ child'[s] = "alive"}
    BY <1>1, RequestPreserves, RequestRuns DEF Handle
  <2> USE <1>1, <2>1 DEF Handle, processVars
  <2>2. DaemonTypeOK' /\ LockIsHeld' /\ SocketIsServed' /\ AskedServed'
    BY DEF DaemonTypeOK, LockIsHeld, SocketIsServed, AskedServed
  <2>3. ManagerIsOwned' /\ LateOnly'
    BY DEF ManagerIsOwned, LateOnly, HandlersRun
  <2> QED
    BY <2>1, <2>2, <2>3 DEF DInv
<1>2. ASSUME GoOn PROVE DInv'
  <2>1. IInv'
    BY <1>2, CallerPreserves, ExitPreserves, WaiterPreserves, SavePreserves DEF GoOn
  <2>2. Running' \subseteq Running /\ up' = up /\ (pc[Boot] = "idle" => pc'[Boot] = "idle")
    BY <1>2, GoOnRuns DEF GoOn
  <2> USE <2>1, <2>2, <1>2 DEF GoOn, daemonVars
  <2>3. DaemonTypeOK' /\ LockIsHeld' /\ SocketIsServed' /\ AskedServed'
    BY DEF DaemonTypeOK, LockIsHeld, SocketIsServed, AskedServed
  <2>4. ManagerIsOwned' /\ LateOnly'
    BY DEF ManagerIsOwned, LateOnly
  <2> QED
    BY <2>1, <2>3, <2>4 DEF DInv
<1> QED
  BY <1>1, <1>2

\* The clients start processes and ask for a shutdown, and leave the rest alone.
LEMMA ClientPreserves ==
  ASSUME DInv, NEW c \in Clients, Begin(c) \/ ClientStep(c)
  PROVE  DInv'
<1>0. /\ IInv /\ DaemonTypeOK /\ LockIsHeld /\ SocketIsServed /\ ManagerIsOwned
      /\ AskedServed /\ LateOnly
  BY DEF DInv
<1>1. UNCHANGED <<vars, lock, socket, signals>>
  BY DEF Begin, ClientStep, Connect, StartDaemon, WaitTimesOut, Dropped, Answer, AnswerList,
         AnswerShutdown, SeeGone, GoneTimesOut, Answers, processVars
<1>2. IInv' /\ Running' = Running /\ up' = up /\ pc' = pc
  BY <1>0, <1>1, ManagerRests
<1> USE <1>0, <1>1, <1>2, NobodyIsNoProcess
    DEF NobodyAssumption, Holding, Answering, At, Becomes, ClientAt, Moves, processVars
<1>3. CASE StartDaemon(c)
  <2>1. PICK d \in Procs : proc[d] = "off" /\ proc' = [proc EXCEPT ![d] = "started"]
    BY <1>3 DEF StartDaemon
  <2> USE <1>3, <2>1 DEF StartDaemon
  <2>2. DaemonTypeOK'
    BY DEF DaemonTypeOK
  <2>3. LockIsHeld' /\ SocketIsServed' /\ ManagerIsOwned'
    BY DEF LockIsHeld, SocketIsServed, ManagerIsOwned, DaemonTypeOK
  <2>4. AskedServed' /\ LateOnly'
    BY DEF AskedServed, LateOnly, DaemonTypeOK
  <2> QED
    BY <2>2, <2>3, <2>4 DEF DInv
<1>4. CASE AnswerShutdown(c)
  <2>0. client[c].to \in Procs /\ proc[client[c].to] \in Answering
    BY <1>4 DEF AnswerShutdown, Answers, AskedServed
  <2>1. lock = client[c].to
    BY <2>0 DEF LockIsHeld
  <2> USE <1>4, <2>0, <2>1 DEF AnswerShutdown, Answers
  <2>2. DaemonTypeOK'
    BY DEF DaemonTypeOK
  <2>3. LockIsHeld' /\ SocketIsServed' /\ ManagerIsOwned'
    BY DEF LockIsHeld, SocketIsServed, ManagerIsOwned
  <2>4. AskedServed'
    BY DEF AskedServed, DaemonTypeOK
  <2>5. LateOnly'
    BY DEF LateOnly, DaemonTypeOK
  <2> QED
    BY <2>2, <2>3, <2>4, <2>5 DEF DInv
<1>5. ASSUME UNCHANGED <<proc, asked, late>>,
             Begin(c) \/ Connect(c) \/ WaitTimesOut(c) \/ Dropped(c) \/ Answer(c)
             \/ AnswerList(c) \/ SeeGone(c) \/ GoneTimesOut(c)
      PROVE  DInv'
  <2> USE <1>5 DEF Begin, Connect, WaitTimesOut, Dropped, Answer, AnswerList, SeeGone,
                   GoneTimesOut, Answers, Reachable
  <2>1. DaemonTypeOK'
    BY DEF DaemonTypeOK
  <2>2. LockIsHeld' /\ SocketIsServed' /\ ManagerIsOwned' /\ LateOnly'
    BY DEF LockIsHeld, SocketIsServed, ManagerIsOwned, LateOnly
  <2>3. AskedServed'
    BY DEF AskedServed, DaemonTypeOK
  <2> QED
    BY <2>1, <2>2, <2>3 DEF DInv
<1> QED
  BY <1>3, <1>4, <1>5
     DEF ClientStep, Begin, Connect, WaitTimesOut, Dropped, Answer, AnswerList, SeeGone,
         GoneTimesOut, Answers

\* The invariant of the daemon processes, over that of the manager.
LEMMA DaemonInvariance == DaemonSpec => []DInv
<1>1. DaemonInit => DInv
  <2> SUFFICES ASSUME DaemonInit PROVE DInv
    OBVIOUS
  <2>1. IInv
    BY InitEstablishes DEF DaemonInit
  <2>2. DaemonTypeOK
    BY UpsetsAreANumber DEF DaemonInit, DaemonTypeOK, UpsetsAssumption
  <2>3. LockIsHeld /\ SocketIsServed /\ ManagerIsOwned /\ AskedServed /\ LateOnly
    BY DEF DaemonInit, Init, LockIsHeld, SocketIsServed, ManagerIsOwned, AskedServed,
           LateOnly, Holding, Threads
  <2> QED
    BY <2>1, <2>2, <2>3 DEF DInv
<1>2. ASSUME DInv, [DaemonNext]_allVars PROVE DInv'
  <2>1. CASE UNCHANGED allVars
    <3>1. IInv' /\ Running' = Running /\ up' = up /\ pc' = pc
      BY <1>2, <2>1, ManagerRests DEF allVars, DInv
    <3> QED
      BY <1>2, <2>1, <3>1 DEF allVars, daemonVars, DInv, DaemonTypeOK, LockIsHeld,
         SocketIsServed, ManagerIsOwned, AskedServed, LateOnly
  <2>2. CASE DaemonNext
    BY <1>2, <2>2, ServePreserves, ManagerPreserves, ClientPreserves DEF DaemonNext
  <2> QED
    BY <1>2, <2>1, <2>2
<1> QED
  BY <1>1, <1>2, PTL DEF DaemonSpec

\* Of all the processes ever started at most one is past the lock, it alone uses
\* the state file, and while it serves the socket leads to it (Serve 38-93).
THEOREM OneDaemonEver == DaemonSpec => []OneDaemon
<1>1. DInv => OneDaemon
  BY DEF DInv, LockIsHeld, SocketIsServed, ManagerIsOwned, OneDaemon
<1> QED
  BY <1>1, DaemonInvariance, PTL

\* A shutdown that was agreed to ends no session that ran at that moment
\* (handle 137-146, Serve 76-93).
THEOREM ShutdownIsSparing == DaemonSpec => ShutdownSpares
<1> DEFINE Spares ==
             \A d \in Procs :
               proc[d] = "leaving" /\ proc'[d] = "gone" /\ asked[d] = "shutdown" =>
                 {s \in Running : child[s] = "alive"} \subseteq late
<1>1. DInv => Spares
  <2> SUFFICES ASSUME DInv, NEW d \in Procs, proc[d] = "leaving", asked[d] = "shutdown"
               PROVE  {s \in Running : child[s] = "alive"} \subseteq late
    OBVIOUS
  <2>1. lock = d
    BY DEF DInv, LockIsHeld, Holding
  <2> QED
    BY <2>1, NobodyIsNoProcess DEF DInv, LateOnly, NobodyAssumption
<1>2. ASSUME []DInv PROVE [][Spares]_allVars
  BY <1>1, <1>2, PTL
<1> QED
  BY <1>2, DaemonInvariance, PTL DEF ShutdownSpares
==============================================================================
