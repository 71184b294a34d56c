---------------------------- MODULE WatcherProofs ----------------------------
(***************************************************************************)
(* Theorems about the notification watcher (Watcher), for every set of     *)
(* sessions and devices, however many screens are shown, inputs marked,    *)
(* polls failed and watchers killed.                                       *)
(*                                                                         *)
(* The watcher cannot see turns.  That it tells of each of them once rests *)
(* on what it recorded: as long as a known turn lasts, its record either   *)
(* names what is shown, or an input since was given to the screen it       *)
(* names.                                                                  *)
(***************************************************************************)
EXTENDS Watcher, TLAPS

Screens == [attention : Kinds, print : Nat, turn : Nat]
Records == [attention : Kinds, print : Nat, activity : Nat, awaiting : BOOLEAN]

Polling == pc \in {"next", "judge", "recheck", "deliver"}
Looking == pc \in {"judge", "recheck", "deliver"}
Telling == pc \in {"recheck", "deliver"}

Typed ==
  /\ life \in [Sessions -> {"new", "listed", "deleted"}]
  /\ screen \in [Sessions -> Screens]
  /\ activity \in [Sessions -> Nat]
  /\ pc \in {"off", "sleep", "next", "judge", "recheck", "deliver"}
  /\ baseline \in BOOLEAN
  /\ config \subseteq Devices
  /\ file \in [Sessions -> Records]
  /\ poll \in [memory : [Sessions -> Records], changed : BOOLEAN,
               registrations : SUBSET Devices, seen : SUBSET Sessions,
               quiet : SUBSET Sessions, todo : SUBSET Sessions]
  /\ look \in [session : Sessions \cup {"none"}, read : Screens, marks : Nat, activity : Nat,
               previous : Records, left : SUBSET Devices, allDelivered : BOOLEAN]
  /\ announced \subseteq Devices \X Sessions \X Nat
  /\ again \subseteq announced
  /\ dismissed \subseteq Sessions \X Nat

\* A turn the watcher is done with: told to a device, or recorded untold.
Known(s, n) == (\E d \in Devices : <<d, s, n>> \in announced) \/ <<s, n>> \in dismissed
Excused(s, n) == <<s, n>> \in excused

\* A session the watcher has not met has no record and no known turn.
Unmet(s) ==
  /\ file[s] = Blank /\ poll.memory[s] = Blank
  /\ \A n \in Nat : ~Known(s, n)

\* What a poll works on.
PollSound ==
  /\ \A s \in Sessions : life[s] = "new" => s \notin poll.seen /\ Unmet(s)
  /\ Polling =>
       /\ poll.todo \subseteq poll.seen
       /\ ~poll.changed => poll.memory = file
       /\ \A s \in Sessions : life[s] = "listed" /\ s \notin poll.seen => Unmet(s)
  /\ ~Polling => poll = NoPoll

\* What was read is a past of the screen, and the same while neither a turn nor a
\* redraw came between.
ReadSound ==
  Looking =>
    LET s == look.session
    IN  /\ s \in poll.seen \ poll.todo
        /\ look.read.turn <= screen[s].turn
        /\ look.read.turn = screen[s].turn =>
             /\ look.read.attention = "none" => screen[s].attention = "none"
             /\ s \notin redrawn => look.read = screen[s]

\* No turn is known before it was read.
TurnsPast ==
  \A s \in Sessions, n \in Nat : Known(s, n) =>
    /\ n <= screen[s].turn
    /\ Looking /\ look.session = s => n <= look.read.turn

\* Marks of inputs only grow while a session is listed.
MarksGrow ==
  /\ \A s \in Sessions : life[s] = "listed" =>
       file[s].activity <= activity[s] /\ poll.memory[s].activity <= activity[s]
  /\ Looking =>
       /\ poll.memory[look.session].activity <= look.marks
       /\ look.marks <= activity[look.session]
  /\ Telling => look.activity = look.marks

\* What the watcher goes by: its state file, or the state of the poll under way.
Memory(s) == IF Polling THEN poll.memory[s] ELSE file[s]

\* The watcher has looked at s since it started.
Handled(s) ==
  \/ ~baseline
  \/ Polling /\ s \in poll.seen \ poll.todo /\ ~(Looking /\ look.session = s)

\* What s shows is a turn the watcher is done with, and must not tell again.
Concluded(s) ==
  /\ life[s] = "listed"
  /\ screen[s].attention # "none"
  /\ Known(s, screen[s].turn)
  /\ ~Excused(s, screen[s].turn)

\* The record m keeps it from doing so.  Only an input opens a record again, and
\* then its fingerprint is that of what is shown.
Closes(m, s) ==
  /\ m.awaiting => m.print = screen[s].print
  /\ ~m.awaiting =>
       /\ m.attention # "none"
       /\ s \notin redrawn \/ activity[s] > m.activity => m.print = screen[s].print
  /\ m.awaiting \/ activity[s] > m.activity => s \in typed

KnownIsRecorded ==
  \A s \in Sessions :
    Concluded(s) /\ Handled(s) /\ ~(pc = "deliver" /\ look.session = s) => Closes(Memory(s), s)

\* ... and so it was when the watcher read the screen.
KnownIsPassedOver ==
  LET s == look.session
      m == poll.memory[s]
  IN  /\ pc = "judge" /\ ~baseline
      /\ look.read.attention # "none"
      /\ Known(s, look.read.turn) /\ ~Excused(s, look.read.turn)
      => IF m.awaiting THEN m.print = look.read.print ELSE m.attention # "none"

\* What the watcher tells is new, and an input since finds what was read.
ToldIsNew ==
  /\ pc \in {"judge", "recheck"} => look.allDelivered
  /\ Telling =>
       LET s == look.session
           n == look.read.turn
       IN  /\ ~baseline /\ look.read.attention # "none"
           /\ Excused(s, n) \/
                /\ look.allDelivered
                /\ <<s, n>> \notin dismissed
                /\ \A d \in Devices : <<d, s,
                                        n>> \in announced => pc = "deliver" /\ d \notin look.left
                /\ screen[s].turn = n /\ screen[s].attention # "none" /\ activity[s] > look.activity
                   => s \in typed /\ look.read.print = screen[s].print

\* A device that was tried has heard, is gone, or keeps the turn open.
TriedIsHeard ==
  pc = "deliver" =>
    /\ look.left \subseteq poll.registrations
    /\ \A d \in poll.registrations \ look.left :
         Wanted(d) => Report(d) \in announced \/ d \in retired \/ ~look.allDelivered

\* Nobody is told twice, nor of a dismissed turn.
Quiet == OncePerTurn /\ DismissedStaysQuiet

\* The inductive invariant.
IInv ==
  /\ Typed /\ PollSound /\ ReadSound /\ TurnsPast /\ MarksGrow
  /\ KnownIsRecorded /\ KnownIsPassedOver /\ ToldIsNew /\ TriedIsHeard /\ Quiet

-------------------------------------------------------------------------------
\* What the watcher starts from.
LEMMA NothingYet ==
  /\ Blank \in Records
  /\ NoPoll \in [memory : [Sessions -> Records], changed : BOOLEAN,
                 registrations : SUBSET Devices, seen : SUBSET Sessions,
                 quiet : SUBSET Sessions, todo : SUBSET Sessions]
  /\ NoLook \in [session : Sessions \cup {"none"}, read : Screens, marks : Nat, activity : Nat,
                 previous : Records, left : SUBSET Devices, allDelivered : BOOLEAN]
  /\ \A s \in Sessions : NoPoll.memory[s] = Blank
  /\ NoPoll.todo = {} /\ NoPoll.seen = {}
  /\ Blank.activity = 0
<1>1. Blank \in Records /\ FirstScreen \in Screens
  BY DEF Blank, Records, Kinds, FirstScreen, Screens
<1> QED
  BY <1>1 DEF NoPoll, NoLook, Blank

\* What nobody's record depends on: users come and go, a watcher starts.
LEMMA BystandersPreserve ==
  ASSUME IInv, UNCHANGED <<life, screen, activity, baseline, file, poll, look, redrawn,
                           announced,
                     again, dismissed, excused>>,
         typed \subseteq typed', retired \subseteq retired', config' \subseteq Devices,
         pc' = pc \/ (pc = "off" /\ pc' = "sleep")
  PROVE  IInv'
<1>0. Typed /\ PollSound /\ ReadSound /\ TurnsPast /\ MarksGrow /\
      KnownIsRecorded /\ KnownIsPassedOver /\ ToldIsNew /\ TriedIsHeard /\ Quiet
  BY DEF IInv
<1> USE <1>0 DEF Polling, Looking, Telling
<1>1. Typed'
  BY DEF Typed
<1>2. PollSound'
  BY DEF Typed, PollSound, Unmet, Known
<1>3. ReadSound'
  BY DEF Typed, ReadSound
<1>4. TurnsPast'
  BY DEF Typed, TurnsPast, Known
<1>5. MarksGrow'
  BY DEF Typed, MarksGrow
<1>6. KnownIsRecorded'
  BY DEF KnownIsRecorded, Concluded, Closes, Handled, Memory, Known, Excused
<1>7. KnownIsPassedOver'
  BY DEF Typed, KnownIsPassedOver, Known, Excused
<1>8. ToldIsNew'
  BY DEF Typed, ToldIsNew, Excused
<1>9. TriedIsHeard'
  BY DEF Typed, TriedIsHeard, Wanted, Report
<1>10. Quiet'
  BY DEF Typed, Quiet, OncePerTurn, DismissedStaysQuiet
<1> QED
  BY <1>1, <1>2, <1>3, <1>4, <1>5, <1>6, <1>7, <1>8, <1>9, <1>10 DEF IInv

\* A new session is unmet.
LEMMA CreatePreserves ==
  ASSUME IInv, NEW s \in Sessions, Create(s)
  PROVE  IInv'
<1>0. Typed /\ PollSound /\ ReadSound /\ TurnsPast /\ MarksGrow /\
      KnownIsRecorded /\ KnownIsPassedOver /\ ToldIsNew /\ TriedIsHeard /\ Quiet
  BY DEF IInv
<1> USE <1>0 DEF Create, userVars, deviceVars, inputVars, reportVars, watcherVars, Polling,
         Looking, Telling
<1>u. /\ file[s].activity = 0 /\ poll.memory[s].activity = 0
      /\ \A n \in Nat : ~Known(s, n)
  BY NothingYet DEF PollSound, Unmet
<1>1. Typed'
  BY DEF Typed
<1>2. PollSound'
  BY DEF Typed, PollSound, Unmet, Known
<1>3. ReadSound'
  BY DEF Typed, ReadSound
<1>4. TurnsPast'
  BY DEF Typed, TurnsPast, Known
<1>5. MarksGrow'
  BY <1>u DEF Typed, MarksGrow
<1>6. KnownIsRecorded'
  <2> SUFFICES ASSUME NEW t \in Sessions, Concluded(t)', Handled(t)',
                      ~(pc = "deliver" /\ look.session = t)'
               PROVE  Closes(Memory(t), t)'
    BY DEF KnownIsRecorded
  <2>1. CASE t = s
    BY <2>1, <1>u DEF Typed, KnownIsRecorded, Concluded, Closes, Handled, Memory, Known, Excused
  <2>2. CASE t # s
    BY <2>2 DEF Typed, KnownIsRecorded, Concluded, Closes, Handled, Memory, Known, Excused
  <2> QED
    BY <2>1, <2>2
<1>7. KnownIsPassedOver'
  BY DEF Typed, KnownIsPassedOver, Known, Excused
<1>8. ToldIsNew'
  BY DEF Typed, ToldIsNew, Excused
<1>9. TriedIsHeard'
  BY DEF Typed, TriedIsHeard, Wanted, Report
<1>10. Quiet'
  BY DEF Typed, Quiet, OncePerTurn, DismissedStaysQuiet
<1> QED
  BY <1>1, <1>2, <1>3, <1>4, <1>5, <1>6, <1>7, <1>8, <1>9, <1>10 DEF IInv

\* A deleted session concerns nobody.
LEMMA DeletePreserves ==
  ASSUME IInv, NEW s \in Sessions, Delete(s)
  PROVE  IInv'
<1>0. Typed /\ PollSound /\ ReadSound /\ TurnsPast /\ MarksGrow /\
      KnownIsRecorded /\ KnownIsPassedOver /\ ToldIsNew /\ TriedIsHeard /\ Quiet
  BY DEF IInv
<1> USE <1>0 DEF Delete, Event, userVars, deviceVars, inputVars, reportVars, watcherVars,
         Polling, Looking, Telling
<1>1. Typed'
  BY DEF Typed
<1>2. PollSound'
  BY DEF Typed, PollSound, Unmet, Known
<1>3. ReadSound'
  BY DEF Typed, ReadSound
<1>4. TurnsPast'
  BY DEF Typed, TurnsPast, Known
<1>5. MarksGrow'
  BY DEF Typed, MarksGrow
<1>6. KnownIsRecorded'
  <2> SUFFICES ASSUME NEW t \in Sessions, Concluded(t)', Handled(t)',
                      ~(pc = "deliver" /\ look.session = t)'
               PROVE  Closes(Memory(t), t)'
    BY DEF KnownIsRecorded
  <2>1. Concluded(t) /\ Handled(t) /\ ~(pc = "deliver" /\ look.session = t)
    BY DEF Concluded, Known, Excused, Handled
  <2>2. Closes(Memory(t), t)
    BY <2>1 DEF KnownIsRecorded
  <2> QED
    BY <2>2 DEF Closes, Memory
<1>7. KnownIsPassedOver'
  BY DEF Typed, KnownIsPassedOver, Known, Excused
<1>8. ToldIsNew'
  BY DEF Typed, ToldIsNew, Excused
<1>9. TriedIsHeard'
  BY DEF Typed, TriedIsHeard, Wanted, Report
<1>10. Quiet'
  BY DEF Typed, Quiet, OncePerTurn, DismissedStaysQuiet
<1> QED
  BY <1>1, <1>2, <1>3, <1>4, <1>5, <1>6, <1>7, <1>8, <1>9, <1>10 DEF IInv

\* A new turn is not known; a redraw lets a record stand until the next input excuses it.
LEMMA ShowPreserves ==
  ASSUME IInv, NEW s \in Sessions, NEW kind \in Kinds, Show(s, kind)
  PROVE  IInv'
<1>0. Typed /\ PollSound /\ ReadSound /\ TurnsPast /\ MarksGrow /\
      KnownIsRecorded /\ KnownIsPassedOver /\ ToldIsNew /\ TriedIsHeard /\ Quiet
  BY DEF IInv
<1> USE <1>0 DEF userVars, deviceVars, reportVars, watcherVars, Polling, Looking, Telling
<1>s. /\ screen' \in [Sessions -> Screens]
      /\ \A t \in Sessions \ {s} : screen'[t] = screen[t]
      /\ screen'[s].attention = kind
      /\ screen'[s].turn \in {screen[s].turn, screen[s].turn + 1}
  BY DEF Show, Typed, Screens
<1>t. /\ redrawn \ {s} \subseteq redrawn' /\ redrawn' \subseteq redrawn \cup {s}
      /\ typed \ {s} \subseteq typed'
      /\ screen'[s].turn = screen[s].turn =>
           /\ s \in redrawn' /\ typed' = typed
           /\ kind # "none" => screen[s].attention # "none" /\ s \notin typed
  BY DEF Show, Typed, Screens
<1>u. /\ s \in Listed
      /\ UNCHANGED <<life, activity, pc, baseline, file, poll, look, config, retired, announced,
                     again, dismissed, excused>>
  BY DEF Show
<1>n. look.read.turn \in Nat /\ \A t \in Sessions : screen[t].turn \in Nat
  BY DEF Typed, Screens
<1>new. screen'[s].turn = screen[s].turn + 1 => ~Known(s, screen'[s].turn)
  BY <1>s DEF TurnsPast, Typed, Screens
<1>1. Typed'
  BY <1>s, <1>u DEF Typed
<1>2. PollSound'
  BY <1>u DEF Typed, PollSound, Unmet, Known
<1>3. ReadSound'
  <2>1. CASE look.session = s
    BY <2>1, <1>s, <1>t, <1>u, <1>n DEF ReadSound
  <2>2. CASE look.session # s
    BY <2>2, <1>s, <1>t, <1>u DEF ReadSound, Typed
  <2> QED
    BY <2>1, <2>2
<1>4. TurnsPast'
  <2>1. \A t \in Sessions, n \in Nat : Known(t, n)' => Known(t, n)
    BY <1>u DEF Known
  <2>2. CASE look.session = s
    BY <2>1, <2>2, <1>s, <1>n, <1>u DEF TurnsPast
  <2>3. CASE look.session # s
    BY <2>1, <2>3, <1>s, <1>n, <1>u DEF TurnsPast
  <2> QED
    BY <2>2, <2>3
<1>5. MarksGrow'
  BY <1>u DEF Typed, MarksGrow
<1>6. KnownIsRecorded'
  <2> SUFFICES ASSUME NEW t \in Sessions, Concluded(t)', Handled(t)',
                      ~(pc = "deliver" /\ look.session = t)'
               PROVE  Closes(Memory(t), t)'
    BY DEF KnownIsRecorded
  <2>1. CASE t = s
    BY <2>1, <1>s, <1>t, <1>u, <1>new
       DEF Typed, KnownIsRecorded, Concluded, Closes, Handled, Memory, Known, Excused
  <2>2. CASE t # s
    <3>1. Concluded(t) /\ Handled(t) /\ ~(pc = "deliver" /\ look.session = t)
      BY <2>2, <1>s, <1>u DEF Concluded, Known, Excused, Handled
    <3>2. Closes(Memory(t), t)
      BY <3>1 DEF KnownIsRecorded
    <3> QED
      BY <2>2, <3>2, <1>s, <1>t, <1>u DEF Closes, Memory
  <2> QED
    BY <2>1, <2>2
<1>7. KnownIsPassedOver'
  BY <1>u DEF Typed, KnownIsPassedOver, Known, Excused
<1>8. ToldIsNew'
  <2>1. CASE look.session = s
    BY <2>1, <1>s, <1>t, <1>u, <1>n DEF ToldIsNew, ReadSound, Excused
  <2>2. CASE look.session # s
    BY <2>2, <1>s, <1>t, <1>u DEF ToldIsNew, ReadSound, Typed, Excused
  <2> QED
    BY <2>1, <2>2
<1>9. TriedIsHeard'
  BY <1>u DEF Typed, TriedIsHeard, Wanted, Report
<1>10. Quiet'
  BY <1>u DEF Typed, Quiet, OncePerTurn, DismissedStaysQuiet
<1> QED
  BY <1>1, <1>2, <1>3, <1>4, <1>5, <1>6, <1>7, <1>8, <1>9, <1>10 DEF IInv

\* An input opens the record of a turn that is shown as it was recorded.
LEMMA MarkPreserves ==
  ASSUME IInv, NEW s \in Sessions, Mark(s)
  PROVE  IInv'
<1>0. Typed /\ PollSound /\ ReadSound /\ TurnsPast /\ MarksGrow /\
      KnownIsRecorded /\ KnownIsPassedOver /\ ToldIsNew /\ TriedIsHeard /\ Quiet
  BY DEF IInv
<1> USE <1>0 DEF Mark, userVars, deviceVars, inputVars, reportVars, watcherVars, Polling,
         Looking, Telling
<1>a. /\ activity'[s] = activity[s] + 1 /\ activity[s] \in Nat
      /\ \A t \in Sessions \ {s} : activity'[t] = activity[t]
  BY DEF Typed
<1>x. excused \subseteq excused' /\ (s \in redrawn => Excused(s, screen[s].turn)')
  BY DEF Excused
<1>1. Typed'
  BY DEF Typed
<1>2. PollSound'
  BY DEF Typed, PollSound, Unmet, Known
<1>3. ReadSound'
  BY DEF Typed, ReadSound
<1>4. TurnsPast'
  BY DEF Typed, TurnsPast, Known
<1>5. MarksGrow'
  BY <1>a DEF Typed, MarksGrow, Records
<1>6. KnownIsRecorded'
  <2> SUFFICES ASSUME NEW t \in Sessions, Concluded(t)', Handled(t)',
                      ~(pc = "deliver" /\ look.session = t)'
               PROVE  Closes(Memory(t), t)'
    BY DEF KnownIsRecorded
  <2>1. CASE t = s
    BY <2>1, <1>a, <1>x
       DEF Typed, KnownIsRecorded, Concluded, Closes, Handled, Memory, Known, Excused
  <2>2. CASE t # s
    BY <2>2, <1>a, <1>x
       DEF Typed, KnownIsRecorded, Concluded, Closes, Handled, Memory, Known, Excused
  <2> QED
    BY <2>1, <2>2
<1>7. KnownIsPassedOver'
  BY DEF Typed, KnownIsPassedOver, Known, Excused
<1>8. ToldIsNew'
  BY <1>a, <1>x DEF Typed, ToldIsNew, Excused, ReadSound
<1>9. TriedIsHeard'
  BY DEF Typed, TriedIsHeard, Wanted, Report
<1>10. Quiet'
  BY DEF Typed, Quiet, OncePerTurn, DismissedStaysQuiet
<1> QED
  BY <1>1, <1>2, <1>3, <1>4, <1>5, <1>6, <1>7, <1>8, <1>9, <1>10 DEF IInv

\* A watcher that was killed has looked at nothing.
LEMMA CrashPreserves ==
  ASSUME IInv, Crash
  PROVE  IInv'
<1>0. Typed /\ PollSound /\ ReadSound /\ TurnsPast /\ MarksGrow /\
      KnownIsRecorded /\ KnownIsPassedOver /\ ToldIsNew /\ TriedIsHeard /\ Quiet
  BY DEF IInv
<1> USE <1>0 DEF Crash, Event, userVars, deviceVars, inputVars, reportVars, watcherVars,
         Polling, Looking, Telling
<1>1. Typed'
  BY NothingYet DEF Typed
<1>2. PollSound'
  BY NothingYet DEF Typed, PollSound, Unmet, Known
<1>3. ReadSound'
  BY DEF Typed, ReadSound
<1>4. TurnsPast'
  BY DEF Typed, TurnsPast, Known
<1>5. MarksGrow'
  BY NothingYet DEF Typed, MarksGrow
<1>6. KnownIsRecorded'
  BY DEF Typed, KnownIsRecorded, Concluded, Closes, Handled, Memory, Known, Excused
<1>7. KnownIsPassedOver'
  BY DEF Typed, KnownIsPassedOver, Known, Excused
<1>8. ToldIsNew'
  BY DEF Typed, ToldIsNew, Excused
<1>9. TriedIsHeard'
  BY DEF Typed, TriedIsHeard, Wanted, Report
<1>10. Quiet'
  BY DEF Typed, Quiet, OncePerTurn, DismissedStaysQuiet
<1> QED
  BY <1>1, <1>2, <1>3, <1>4, <1>5, <1>6, <1>7, <1>8, <1>9, <1>10 DEF IInv

\* A first poll without devices excuses what it did not look at.
LEMMA PollNobodyPreserves ==
  ASSUME IInv, PollNobody
  PROVE  IInv'
<1>0. Typed /\ PollSound /\ ReadSound /\ TurnsPast /\ MarksGrow /\
      KnownIsRecorded /\ KnownIsPassedOver /\ ToldIsNew /\ TriedIsHeard /\ Quiet
  BY DEF IInv
<1> USE <1>0 DEF PollNobody, CurrentTurns, userVars, deviceVars, inputVars, reportVars,
         watcherVars, Polling, Looking, Telling
<1>1. Typed'
  BY DEF Typed
<1>2. PollSound'
  BY DEF Typed, PollSound, Unmet, Known
<1>3. ReadSound'
  BY DEF Typed, ReadSound
<1>4. TurnsPast'
  BY DEF Typed, TurnsPast, Known
<1>5. MarksGrow'
  BY DEF Typed, MarksGrow
<1>6. KnownIsRecorded'
  BY DEF Typed, KnownIsRecorded, Concluded, Closes, Handled, Memory, Known, Excused
<1>7. KnownIsPassedOver'
  BY DEF Typed, KnownIsPassedOver, Known, Excused
<1>8. ToldIsNew'
  BY DEF Typed, ToldIsNew, Excused
<1>9. TriedIsHeard'
  BY DEF Typed, TriedIsHeard, Wanted, Report
<1>10. Quiet'
  BY DEF Typed, Quiet, OncePerTurn, DismissedStaysQuiet
<1> QED
  BY <1>1, <1>2, <1>3, <1>4, <1>5, <1>6, <1>7, <1>8, <1>9, <1>10 DEF IInv

\* A poll begins with what the file says.
LEMMA PollListsPreserves ==
  ASSUME IInv, PollLists
  PROVE  IInv'
<1>0. Typed /\ PollSound /\ ReadSound /\ TurnsPast /\ MarksGrow /\
      KnownIsRecorded /\ KnownIsPassedOver /\ ToldIsNew /\ TriedIsHeard /\ Quiet
  BY DEF IInv
<1> USE <1>0 DEF PollLists, Listed, userVars, deviceVars, inputVars, reportVars,
         watcherVars, Polling, Looking, Telling
<1>1. Typed'
  BY DEF Typed
<1>2. PollSound'
  BY DEF Typed, PollSound, Unmet, Known
<1>3. ReadSound'
  BY DEF Typed, ReadSound
<1>4. TurnsPast'
  BY DEF Typed, TurnsPast, Known
<1>5. MarksGrow'
  BY DEF Typed, MarksGrow
<1>6. KnownIsRecorded'
  BY DEF Typed, KnownIsRecorded, Concluded, Closes, Handled, Memory, Known, Excused
<1>7. KnownIsPassedOver'
  BY DEF Typed, KnownIsPassedOver, Known, Excused
<1>8. ToldIsNew'
  BY DEF Typed, ToldIsNew, Excused
<1>9. TriedIsHeard'
  BY DEF Typed, TriedIsHeard, Wanted, Report
<1>10. Quiet'
  BY DEF Typed, Quiet, OncePerTurn, DismissedStaysQuiet
<1> QED
  BY <1>1, <1>2, <1>3, <1>4, <1>5, <1>6, <1>7, <1>8, <1>9, <1>10 DEF IInv

\* The watcher reads a screen.
LEMMA TranscriptPreserves ==
  ASSUME IInv, NEW s \in Sessions, Transcript(s)
  PROVE  IInv'
<1>0. Typed /\ PollSound /\ ReadSound /\ TurnsPast /\ MarksGrow /\
      KnownIsRecorded /\ KnownIsPassedOver /\ ToldIsNew /\ TriedIsHeard /\ Quiet
  BY DEF IInv
<1> USE <1>0 DEF Transcript, Listed, userVars, deviceVars, inputVars, reportVars,
         watcherVars, Polling, Looking, Telling
<1>p. /\ poll' = [poll EXCEPT !.todo = @ \ {s}]
      /\ look' = [NoLook EXCEPT !.session = s, !.read = screen[s], !.marks = activity[s]]
      /\ look'.session = s /\ look'.read = screen[s] /\ look'.marks = activity[s]
      /\ look'.allDelivered
      /\ poll'.memory = poll.memory /\ poll'.seen = poll.seen /\ poll'.todo = poll.todo \ {s}
  BY DEF NoLook, Typed
<1>1. Typed'
  <2>1. activity[s] \in Nat /\ screen[s] \in Screens
    BY DEF Typed
  <2>2. look' \in [session : Sessions \cup {"none"}, read : Screens, marks : Nat,
           activity : Nat,
                  previous : Records, left : SUBSET Devices, allDelivered : BOOLEAN]
    BY <2>1, <1>p, NothingYet
  <2> QED
    BY <2>2, <1>p DEF Typed
<1>2. PollSound'
  BY DEF Typed, PollSound, Unmet, Known
<1>3. ReadSound'
  BY <1>p DEF Typed, ReadSound, PollSound, Screens
<1>4. TurnsPast'
  BY DEF Typed, TurnsPast, Known
<1>5. MarksGrow'
  BY DEF Typed, MarksGrow
<1>6. KnownIsRecorded'
  <2> SUFFICES ASSUME NEW t \in Sessions, Concluded(t)', Handled(t)',
                      ~(pc = "deliver" /\ look.session = t)'
               PROVE  Closes(Memory(t), t)'
    BY DEF KnownIsRecorded
  <2>1. Concluded(t) /\ Handled(t) /\ ~(pc = "deliver" /\ look.session = t)
    BY <1>p DEF Concluded, Known, Excused, Handled
  <2>2. Closes(Memory(t), t)
    BY <2>1 DEF KnownIsRecorded
  <2> QED
    BY <2>2, <1>p DEF Closes, Memory
<1>7. KnownIsPassedOver'
  <2> SUFFICES ASSUME ~baseline, screen[s].attention # "none", Known(s, screen[s].turn),
                      ~Excused(s, screen[s].turn)
               PROVE  IF poll.memory[s].awaiting THEN poll.memory[s].print = screen[s].print
                                                 ELSE poll.memory[s].attention # "none"
    BY <1>p DEF KnownIsPassedOver, Known, Excused
  <2>1. Concluded(s) /\ Handled(s) /\ Memory(s) = poll.memory[s]
    BY DEF Concluded, Handled, Memory
  <2> QED
    BY <2>1 DEF KnownIsRecorded, Closes, Typed
<1>8. ToldIsNew'
  BY <1>p DEF Typed, ToldIsNew, Excused
<1>9. TriedIsHeard'
  BY DEF Typed, TriedIsHeard, Wanted, Report
<1>10. Quiet'
  BY DEF Typed, Quiet, OncePerTurn, DismissedStaysQuiet
<1> QED
  BY <1>1, <1>2, <1>3, <1>4, <1>5, <1>6, <1>7, <1>8, <1>9, <1>10 DEF IInv

\* The watcher passes over what it cannot read.
LEMMA NoTranscriptPreserves ==
  ASSUME IInv, NEW s \in Sessions, NoTranscript(s)
  PROVE  IInv'
<1>0. Typed /\ PollSound /\ ReadSound /\ TurnsPast /\ MarksGrow /\
      KnownIsRecorded /\ KnownIsPassedOver /\ ToldIsNew /\ TriedIsHeard /\ Quiet
  BY DEF IInv
<1> USE <1>0 DEF NoTranscript, Fails, Event, userVars, deviceVars, inputVars, reportVars,
         watcherVars, Polling, Looking, Telling
<1>x. /\ excused \subseteq excused' /\ (baseline => Excused(s, screen[s].turn)')
      /\ poll'.memory = poll.memory /\ poll'.seen = poll.seen /\ poll'.todo = poll.todo \ {s}
  BY DEF Excused, Typed
<1>1. Typed'
  BY DEF Typed
<1>2. PollSound'
  BY DEF Typed, PollSound, Unmet, Known
<1>3. ReadSound'
  BY DEF Typed, ReadSound
<1>4. TurnsPast'
  BY DEF Typed, TurnsPast, Known
<1>5. MarksGrow'
  BY DEF Typed, MarksGrow
<1>6. KnownIsRecorded'
  <2> SUFFICES ASSUME NEW t \in Sessions, Concluded(t)', Handled(t)',
                      ~(pc = "deliver" /\ look.session = t)'
               PROVE  Closes(Memory(t), t)'
    BY DEF KnownIsRecorded
  <2>1. Concluded(t) /\ Handled(t) /\ ~(pc = "deliver" /\ look.session = t)
    BY <1>x DEF Concluded, Known, Excused, Handled
  <2>2. Closes(Memory(t), t)
    BY <2>1 DEF KnownIsRecorded
  <2> QED
    BY <2>2, <1>x DEF Closes, Memory
<1>7. KnownIsPassedOver'
  BY DEF Typed, KnownIsPassedOver, Known, Excused
<1>8. ToldIsNew'
  BY DEF Typed, ToldIsNew, Excused
<1>9. TriedIsHeard'
  BY DEF Typed, TriedIsHeard, Wanted, Report
<1>10. Quiet'
  BY DEF Typed, Quiet, OncePerTurn, DismissedStaysQuiet
<1> QED
  BY <1>1, <1>2, <1>3, <1>4, <1>5, <1>6, <1>7, <1>8, <1>9, <1>10 DEF IInv

\* A turn that is shown and known is the one that was read.
LEMMA KnownWasRead ==
  ASSUME IInv, Looking, NEW s \in Sessions, s = look.session,
         UNCHANGED <<baseline, file, announced, again, excused, userVars, deviceVars,
                     inputVars>>,
         UNCHANGED dismissed \/ Dismiss, Concluded(s)'
  PROVE  /\ screen[s].attention # "none" /\ look.read.attention # "none"
         /\ look.read.turn = screen[s].turn
         /\ s \notin redrawn => look.read = screen[s]
         /\ ~Excused(s, look.read.turn)
         /\ UNCHANGED dismissed => Concluded(s)
<1> USE DEF userVars, deviceVars, inputVars
<1>1. /\ screen[s].turn \in Nat /\ look.read.turn \in Nat /\ look.read.turn <= screen[s].turn
      /\ look.read.turn = screen[s].turn =>
           /\ look.read.attention = "none" => screen[s].attention = "none"
           /\ s \notin redrawn => look.read = screen[s]
  BY DEF IInv, Typed, ReadSound, Screens
<1>2. /\ life[s] = "listed" /\ screen[s].attention # "none"
      /\ <<s, screen[s].turn>> \notin excused
      /\ \/ \E d \in Devices : <<d, s, screen[s].turn>> \in announced
         \/ <<s, screen[s].turn>> \in dismissed'
  BY DEF Concluded, Known, Excused
<1>3. screen[s].turn = look.read.turn
  <2>1. CASE Known(s, screen[s].turn)
    BY <2>1, <1>1 DEF IInv, TurnsPast
  <2>2. CASE ~Known(s, screen[s].turn)
    <3>1. <<s, screen[s].turn>> \in dismissed' /\ <<s, screen[s].turn>> \notin dismissed
      BY <2>2, <1>2 DEF Known
    <3>2. <<s, screen[s].turn>> = <<s, look.read.turn>>
      BY <3>1 DEF Dismiss, ThisTurn
    <3> QED
      BY <3>2
  <2> QED
    BY <2>1, <2>2
<1>4. UNCHANGED dismissed => Concluded(s)
  BY <1>2 DEF Concluded, Known, Excused
<1> QED
  BY <1>1, <1>2, <1>3, <1>4 DEF Excused

\* What is recorded of the session looked at has to close its turn.
LEMMA RecordPreserves ==
  ASSUME IInv, Looking, NEW s \in Sessions, s = look.session,
         NEW what \in Records, Record(what),
         UNCHANGED <<baseline, file, announced, again, excused, userVars, deviceVars,
                     inputVars>>,
         UNCHANGED dismissed \/ Dismiss,
         what.activity <= activity[s],
         Concluded(s)' => Closes(what, s)
  PROVE  IInv'
<1>0. Typed /\ PollSound /\ ReadSound /\ TurnsPast /\ MarksGrow /\
      KnownIsRecorded /\ KnownIsPassedOver /\ ToldIsNew /\ TriedIsHeard /\ Quiet
  BY DEF IInv
<1> USE <1>0 DEF Record, userVars, deviceVars, inputVars, Polling, Looking, Telling
<1>s. /\ s \in poll.seen \ poll.todo
      /\ look.read.turn \in Nat /\ screen[s].turn \in Nat /\ look.read.turn <= screen[s].turn
  BY DEF ReadSound, Typed, Screens
<1>p. /\ pc' = "next" /\ look' = NoLook /\ poll'.changed
      /\ poll' \in [memory : [Sessions -> Records], changed : BOOLEAN,
                    registrations : SUBSET Devices, seen : SUBSET Sessions,
                    quiet : SUBSET Sessions, todo : SUBSET Sessions]
      /\ poll'.seen = poll.seen /\ poll'.todo = poll.todo
      /\ poll'.memory[s] = what
      /\ \A t \in Sessions \ {s} : poll'.memory[t] = poll.memory[t]
  BY DEF Typed
<1>d. /\ dismissed \subseteq dismissed' /\ dismissed' \subseteq Sessions \X Nat
      /\ \A t \in Sessions, n \in Nat : <<t, n>> \in dismissed' =>
           \/ <<t, n>> \in dismissed
           \/ /\ t = s /\ n = look.read.turn
              /\ ~\E d \in Devices : <<d, t, n>> \in announced
  <2>1. CASE UNCHANGED dismissed
    BY <2>1 DEF Typed
  <2>2. CASE Dismiss
    <3>1. \/ UNCHANGED dismissed
          \/ /\ dismissed' = dismissed \cup {<<s, look.read.turn>>}
             /\ ~\E d \in Devices : <<d, s, look.read.turn>> \in announced
      BY <2>2 DEF Dismiss, ThisTurn, Report
    <3>2. CASE dismissed' = dismissed \cup {<<s, look.read.turn>>}
      <4>1. dismissed' \subseteq Sessions \X Nat
        BY <3>2, <1>s DEF Typed
      <4>2. \A t \in Sessions, n \in Nat : <<t, n>> \in dismissed' =>
              <<t, n>> \in dismissed \/ (t = s /\ n = look.read.turn)
        BY <3>2
      <4> QED
        BY <4>1, <4>2, <3>1, <3>2
    <3> QED
      BY <3>1, <3>2, <2>1
  <2> QED
    BY <2>1, <2>2
<1>1. Typed'
  BY <1>p, <1>d, NothingYet DEF Typed, Dismiss, ThisTurn
<1>2. PollSound'
  BY <1>s, <1>p, <1>d DEF Typed, PollSound, Unmet, Known
<1>3. ReadSound'
  BY <1>p DEF ReadSound
<1>4. TurnsPast'
  BY <1>s, <1>p, <1>d DEF TurnsPast, Known, ReadSound, Polling
<1>5. MarksGrow'
  BY <1>p DEF Typed, MarksGrow
<1>6. KnownIsRecorded'
  <2> SUFFICES ASSUME NEW t \in Sessions, Concluded(t)', Handled(t)' PROVE Closes(Memory(t), t)'
    BY DEF KnownIsRecorded
  <2>1. CASE t = s
    BY <2>1, <1>p DEF Closes, Memory
  <2>2. CASE t # s
    <3>1. Concluded(t) /\ Handled(t)
      BY <2>2, <1>p, <1>d DEF Concluded, Known, Excused, Handled, Typed, Screens
    <3>2. Closes(Memory(t), t)
      BY <2>2, <3>1 DEF KnownIsRecorded
    <3> QED
      BY <2>2, <3>2, <1>p DEF Closes, Memory
  <2> QED
    BY <2>1, <2>2
<1>7. KnownIsPassedOver'
  BY <1>p DEF KnownIsPassedOver
<1>8. ToldIsNew'
  BY <1>p DEF ToldIsNew
<1>9. TriedIsHeard'
  BY <1>p DEF TriedIsHeard
<1>10. Quiet'
  <2>1. OncePerTurn'
    BY DEF Quiet, OncePerTurn
  <2>2. ASSUME NEW report \in announced, <<report[2], report[3]>> \in dismissed'
        PROVE  <<report[2], report[3]>> \in excused
    <3>1. PICK d \in Devices, t \in Sessions, n \in Nat : report = <<d, t, n>>
      BY <2>2 DEF Typed
    <3>2. <<t, n>> \in dismissed
      BY <3>1, <2>2, <1>d
    <3> QED
      BY <3>1, <3>2, <2>2 DEF Quiet, DismissedStaysQuiet
  <2> QED
    BY <2>1, <2>2 DEF Quiet, DismissedStaysQuiet
<1> QED
  BY <1>1, <1>2, <1>3, <1>4, <1>5, <1>6, <1>7, <1>8, <1>9, <1>10 DEF IInv

\* A session is passed over only if its record closes its turn already.
LEMMA PassOverPreserves ==
  ASSUME IInv, Looking, NEW s \in Sessions, s = look.session,
         PassOver, UNCHANGED <<baseline, file, announced, again, excused, userVars,
                               deviceVars, inputVars>>,
         UNCHANGED dismissed, ~baseline,
         pc = "deliver" => Excused(s, look.read.turn)
  PROVE  IInv'
<1>0. Typed /\ PollSound /\ ReadSound /\ TurnsPast /\ MarksGrow /\
      KnownIsRecorded /\ KnownIsPassedOver /\ ToldIsNew /\ TriedIsHeard /\ Quiet
  BY DEF IInv
<1> USE <1>0 DEF PassOver, userVars, deviceVars, inputVars, Polling, Looking, Telling
<1>1. Typed'
  BY NothingYet DEF Typed
<1>2. PollSound'
  BY DEF Typed, PollSound, Unmet, Known
<1>3. ReadSound'
  BY DEF Typed, ReadSound
<1>4. TurnsPast'
  BY DEF Typed, TurnsPast, Known
<1>5. MarksGrow'
  BY DEF Typed, MarksGrow
<1>6. KnownIsRecorded'
  <2> SUFFICES ASSUME NEW t \in Sessions, Concluded(t)' PROVE Closes(Memory(t), t)'
    BY DEF KnownIsRecorded
  <2>1. Concluded(t) /\ Handled(t)
    BY DEF Concluded, Known, Excused, Handled
  <2>2. ~(pc = "deliver" /\ look.session = t)
    BY KnownWasRead DEF IInv
  <2>3. Closes(Memory(t), t)
    BY <2>1, <2>2 DEF KnownIsRecorded
  <2> QED
    BY <2>3 DEF Closes, Memory
<1>7. KnownIsPassedOver'
  BY DEF Typed, KnownIsPassedOver, Known, Excused
<1>8. ToldIsNew'
  BY DEF Typed, ToldIsNew, Excused
<1>9. TriedIsHeard'
  BY DEF Typed, TriedIsHeard, Wanted, Report
<1>10. Quiet'
  BY DEF Typed, Quiet, OncePerTurn, DismissedStaysQuiet
<1> QED
  BY <1>1, <1>2, <1>3, <1>4, <1>5, <1>6, <1>7, <1>8, <1>9, <1>10 DEF IInv

\* What poll makes of the screen it read.
LEMMA JudgePreserves ==
  ASSUME IInv, Judge
  PROVE  IInv'
<1>0. Typed /\ PollSound /\ ReadSound /\ TurnsPast /\ MarksGrow /\
      KnownIsRecorded /\ KnownIsPassedOver /\ ToldIsNew /\ TriedIsHeard /\ Quiet
  BY DEF IInv
<1>1. pc = "judge" /\ JudgeUnchanged
  BY DEF Judge, Judging, UpToDate, Decide, Unreported, JudgeBaseline, JudgeAnswered,
     JudgeWorkBegins,
     JudgeStillAwaiting, JudgeWorking, JudgeAlreadyReported, JudgeNotFollowed,
              JudgeWatched, Tell
<1>2. PICK s \in Sessions : s = look.session
  BY <1>0, <1>1 DEF ReadSound, Looking, Typed
<1>3. UNCHANGED <<baseline, file, announced, again, excused, userVars, deviceVars, inputVars>>
  BY <1>1 DEF JudgeUnchanged
<1>4. /\ Looking /\ pc # "deliver"
      /\ Marked = activity[s] /\ activity[s] \in Nat
      /\ Before = poll.memory[s] /\ Before \in Records
      /\ look.read.attention \in Kinds /\ look.read.print \in Nat
  BY <1>0, <1>1, <1>2 DEF Looking, Marked, Before, Typed, Screens
<1>5. ASSUME Concluded(s)', UNCHANGED dismissed \/ Dismiss
      PROVE  /\ screen[s].attention # "none" /\ look.read.attention # "none"
             /\ look.read.turn = screen[s].turn
             /\ s \notin redrawn => look.read = screen[s]
             /\ UNCHANGED dismissed => Concluded(s)
  BY <1>2, <1>3, <1>4, <1>5, KnownWasRead
<1>6. Concluded(s) /\ ~baseline => Closes(Before, s)
  BY <1>0, <1>1, <1>4 DEF KnownIsRecorded, Handled, Memory, Polling
<1>7. /\ Reported(Marked) \in Records /\ Seen(Marked) \in Records
      /\ Reported(Marked).activity = Marked /\ Seen(Marked).activity = Marked
      /\ Concluded(s)' /\ (UNCHANGED dismissed \/ Dismiss) => Closes(Reported(Marked), s)
  <2>1. Reported(Marked) \in Records /\ Seen(Marked) \in Records
    BY <1>4 DEF Reported, Seen, Records, Kinds
  <2>2. Concluded(s)' /\ (UNCHANGED dismissed \/ Dismiss) => Closes(Reported(Marked), s)
    BY <1>4, <1>5 DEF Reported, Closes
  <2> QED
    BY <2>1, <2>2 DEF Reported, Seen
<1>8. CASE JudgeBaseline \/ JudgeNotFollowed
  BY <1>2, <1>3, <1>4, <1>7, <1>8, RecordPreserves DEF JudgeBaseline, JudgeNotFollowed
<1>9. CASE JudgeAnswered
  <2>1. /\ Awaiting(Marked, Before) \in Records
        /\ Awaiting(Marked, Before).activity = Marked
        /\ Awaiting(Marked, Before).awaiting /\ Awaiting(Marked, Before).print = Before.print
    BY <1>4 DEF Awaiting, Blank, Records, Kinds
  <2>2. Concluded(s)' => Closes(Awaiting(Marked, Before), s)
    BY <1>4, <1>5, <1>6, <1>9, <2>1 DEF Closes, JudgeAnswered, Records
  <2> QED
    BY <1>2, <1>3, <1>4, <1>9, <2>1, <2>2, RecordPreserves DEF JudgeAnswered
<1>10. CASE JudgeWorkBegins
  <2> DEFINE what == [Before EXCEPT !.awaiting = FALSE, !.print = look.read.print]
  <2>1. what \in Records /\ what.activity = Before.activity
    BY <1>4 DEF Records
  <2>2. Before.activity <= activity[s]
    BY <1>0, <1>1, <1>2, <1>4 DEF MarksGrow, Looking, Typed, Records
  <2>3. ~Concluded(s)'
    BY <1>5, <1>10 DEF JudgeWorkBegins, Settled
  <2> QED
    BY <1>2, <1>3, <1>4, <1>10, <2>1, <2>2, <2>3, RecordPreserves DEF JudgeWorkBegins
<1>11. CASE JudgeWorking /\ Previous.attention # "none"
  <2>1. ~Concluded(s)'
    BY <1>5, <1>11 DEF JudgeWorking, Settled
  <2> QED
    BY <1>2, <1>3, <1>4, <1>7, <1>11, <2>1, RecordPreserves DEF JudgeWorking
<1>12. CASE \/ JudgeStillAwaiting \/ JudgeAlreadyReported \/ JudgeWatched
            \/ JudgeWorking /\ Previous.attention = "none"
  <2>1. PassOver /\ UNCHANGED dismissed /\ ~baseline
    BY <1>12
       DEF JudgeStillAwaiting, JudgeAlreadyReported, JudgeWatched, JudgeWorking,
           Unreported, Decide, UpToDate
  <2> QED
    BY <1>2, <1>3, <1>4, <2>1, PassOverPreserves
<1>13. CASE Tell
  <2>a. /\ ~baseline /\ look.read.attention # "none" /\ look.allDelivered
        /\ pc' = "recheck" /\ UNCHANGED <<poll, dismissed>>
        /\ look' = [look EXCEPT !.activity = Marked, !.previous = Previous]
    BY <1>0, <1>1, <1>13 DEF Tell, Unreported, Decide, UpToDate, Settled, ToldIsNew
  <2>b. /\ look'.session = s /\ look'.read = look.read /\ look'.marks = look.marks
        /\ look'.activity = activity[s] /\ look'.left = look.left /\ look'.allDelivered
    BY <1>0, <1>2, <1>4, <2>a DEF Typed
  <2>c. Before.activity = activity[s] /\ look.marks = activity[s] /\ Previous \in Records
    <3>1. Before.activity \in Nat /\ look.marks \in Nat
      BY <1>0, <1>4 DEF Typed, Records
    <3>2. activity[s] <= Before.activity
      BY <1>4, <1>13 DEF Tell, Unreported, Decide, UpToDate
    <3>3. Previous \in Records
      BY <1>4 DEF Previous, Blank, Records, Kinds
    <3> QED
      BY <1>0, <1>2, <1>4, <3>1, <3>2, <3>3 DEF MarksGrow
  <2>d. Excused(s, look.read.turn) \/ ~Known(s, look.read.turn)
    BY <1>0, <1>1, <1>2, <1>4, <1>13, <2>a
       DEF KnownIsPassedOver, Tell, Unreported, Decide, ReadyAfterFastCompletion, Previous
  <2> USE <1>0, <1>1, <1>2, <1>3, <1>4, <2>a, <2>b DEF userVars, deviceVars, inputVars,
           Polling, Looking, Telling
<2>1. Typed'
  <3>1. look' \in [session : Sessions \cup {"none"}, read : Screens, marks : Nat,
           activity : Nat,
                  previous : Records, left : SUBSET Devices, allDelivered : BOOLEAN]
    BY <2>c DEF Typed
  <3> QED
    BY <3>1 DEF Typed
<2>2. PollSound'
    BY DEF Typed, PollSound, Unmet, Known
<2>3. ReadSound'
    BY DEF Typed, ReadSound
<2>4. TurnsPast'
    BY DEF Typed, TurnsPast, Known
<2>5. MarksGrow'
    BY <2>c DEF MarksGrow, Typed
<2>6. KnownIsRecorded'
    BY DEF Typed, KnownIsRecorded, Concluded, Closes, Handled, Memory, Known, Excused
<2>7. KnownIsPassedOver'
    BY DEF Typed, KnownIsPassedOver, Known, Excused
<2>8. ToldIsNew'
    BY <2>d DEF ToldIsNew, Excused, Known, Typed
<2>9. TriedIsHeard'
    BY DEF Typed, TriedIsHeard, Wanted, Report
<2>10. Quiet'
    BY DEF Typed, Quiet, OncePerTurn, DismissedStaysQuiet
<2> QED
    BY <2>1, <2>2, <2>3, <2>4, <2>5, <2>6, <2>7, <2>8, <2>9, <2>10 DEF IInv
<1> QED
  BY <1>8, <1>9, <1>10, <1>11, <1>12, <1>13 DEF Judge

\* A turn that was answered since, or told to everybody who was reached, is recorded.
LEMMA TellingPreserves ==
  ASSUME IInv, RecheckAnswered \/ EndDeliveries
  PROVE  IInv'
<1>0. Typed /\ PollSound /\ ReadSound /\ TurnsPast /\ MarksGrow /\
      KnownIsRecorded /\ KnownIsPassedOver /\ ToldIsNew /\ TriedIsHeard /\ Quiet
  BY DEF IInv
<1>1. Telling /\ JudgeUnchanged /\ UNCHANGED dismissed
  BY DEF RecheckAnswered, EndDeliveries, Telling
<1>2. PICK s \in Sessions : s = look.session
  BY <1>0, <1>1 DEF ReadSound, Looking, Telling, Typed
<1>3. UNCHANGED <<baseline, file, announced, again, excused, userVars, deviceVars, inputVars>>
  BY <1>1 DEF JudgeUnchanged
<1>4. /\ Looking /\ ~baseline
      /\ Marked = activity[s] /\ activity[s] \in Nat
      /\ look.activity \in Nat /\ look.activity <= activity[s]
      /\ look.previous \in Records /\ look.read.attention \in Kinds /\ look.read.print \in Nat
  BY <1>0, <1>1, <1>2 DEF Looking, Telling, Marked, MarksGrow, ToldIsNew, Typed, Screens
<1>5. ASSUME Concluded(s)'
      PROVE  /\ look.read.attention # "none" /\ screen[s].attention # "none"
             /\ look.read.turn = screen[s].turn
             /\ s \notin redrawn => look.read = screen[s]
             /\ ~Excused(s, look.read.turn)
             /\ Known(s, look.read.turn)
  <2>1. /\ look.read.turn = screen[s].turn /\ Concluded(s)
        /\ look.read.attention # "none" /\ screen[s].attention # "none"
        /\ s \notin redrawn => look.read = screen[s]
        /\ ~Excused(s, look.read.turn)
    BY <1>1, <1>2, <1>3, <1>4, <1>5, KnownWasRead
  <2> QED
    BY <2>1 DEF Concluded
<1>6. CASE RecheckAnswered
  <2>1. /\ Awaiting(Marked, look.previous) \in Records
        /\ Awaiting(Marked, look.previous).activity = activity[s]
    BY <1>4 DEF Awaiting, Blank, Records, Kinds
  <2>2. ~Concluded(s)'
    BY <1>0, <1>1, <1>2, <1>5, <1>6 DEF ToldIsNew, Telling, Known, RecheckAnswered
  <2> QED
    BY <1>1, <1>2, <1>3, <1>4, <1>6, <2>1, <2>2, RecordPreserves DEF RecheckAnswered
<1>7. CASE EndDeliveries /\ look.allDelivered
  <2>1. /\ Reported(look.activity) \in Records
        /\ Reported(look.activity).activity = look.activity
    BY <1>4 DEF Reported, Records
  <2>2. Concluded(s)' => Closes(Reported(look.activity), s)
    BY <1>0, <1>1, <1>2, <1>5 DEF ToldIsNew, Telling, Reported, Closes
  <2> QED
    BY <1>1, <1>2, <1>3, <1>4, <1>7, <2>1, <2>2, RecordPreserves DEF EndDeliveries
<1>8. CASE EndDeliveries /\ ~look.allDelivered
  <2>1. Excused(s, look.read.turn)
    BY <1>0, <1>1, <1>2, <1>8 DEF ToldIsNew, Telling
  <2> QED
    BY <1>1, <1>2, <1>3, <1>4, <1>8, <2>1, PassOverPreserves DEF EndDeliveries
<1> QED
  BY <1>6, <1>7, <1>8

\* Deliveries begin with a turn nobody has heard of.
LEMMA BeginDeliveriesPreserves ==
  ASSUME IInv, BeginDeliveries
  PROVE  IInv'
<1>0. Typed /\ PollSound /\ ReadSound /\ TurnsPast /\ MarksGrow /\
      KnownIsRecorded /\ KnownIsPassedOver /\ ToldIsNew /\ TriedIsHeard /\ Quiet
  BY DEF IInv
<1> USE <1>0 DEF BeginDeliveries, JudgeUnchanged, userVars, deviceVars, inputVars,
         reportVars, watcherVars, Polling, Looking, Telling
<1>1. Typed'
  BY DEF Typed
<1>2. PollSound'
  BY DEF Typed, PollSound, Unmet, Known
<1>3. ReadSound'
  BY DEF Typed, ReadSound
<1>4. TurnsPast'
  BY DEF Typed, TurnsPast, Known
<1>5. MarksGrow'
  BY DEF Typed, MarksGrow
<1>6. KnownIsRecorded'
  BY DEF Typed, KnownIsRecorded, Concluded, Closes, Handled, Memory, Known, Excused
<1>7. KnownIsPassedOver'
  BY DEF Typed, KnownIsPassedOver, Known, Excused
<1>8. ToldIsNew'
  BY DEF Typed, ToldIsNew, Excused
<1>9. TriedIsHeard'
  BY DEF Typed, TriedIsHeard, Wanted, Report
<1>10. Quiet'
  BY DEF Typed, Quiet, OncePerTurn, DismissedStaysQuiet
<1> QED
  BY <1>1, <1>2, <1>3, <1>4, <1>5, <1>6, <1>7, <1>8, <1>9, <1>10 DEF IInv

\* One registration of the poll is tried; only the device that hears of the turn
\* learns anything.
LEMMA DeliverPreserves ==
  ASSUME IInv, NEW d \in Devices,
         DeliverSkips(d) \/ DeliverAccepted(d) \/ DeliverForgotten(d) \/ DeliverFails(d)
  PROVE  IInv'
<1>0. Typed /\ PollSound /\ ReadSound /\ TurnsPast /\ MarksGrow /\
      KnownIsRecorded /\ KnownIsPassedOver /\ ToldIsNew /\ TriedIsHeard /\ Quiet
  BY DEF IInv
<1> USE <1>0 DEF Looking, Telling, Polling
<1>a. /\ pc = "deliver" /\ d \in look.left
      /\ UNCHANGED <<userVars, inputVars, retired, pc, baseline, file, poll, dismissed>>
      /\ config' \subseteq config
  BY DEF DeliverSkips, DeliverAccepted, DeliverForgotten, DeliverFails, Delivering,
     deviceVars, reportVars
<1>s. PICK s \in Sessions : s = look.session
  BY <1>a DEF ReadSound, Typed
<1>n. look.read.turn \in Nat
  BY DEF Typed, Screens
<1>l. /\ look' \in [session : Sessions \cup {"none"}, read : Screens, marks : Nat,
         activity : Nat,
                    previous : Records, left : SUBSET Devices, allDelivered : BOOLEAN]
      /\ look'.left = look.left \ {d}
      /\ look'.session = s /\ look'.read = look.read /\ look'.marks = look.marks
      /\ look'.activity = look.activity /\ look'.previous = look.previous
      /\ look'.allDelivered => look.allDelivered
  <2>1. \/ look' = [look EXCEPT !.left = @ \ {d}]
        \/ look' = [look EXCEPT !.left = @ \ {d}, !.allDelivered = FALSE]
    BY DEF DeliverSkips, DeliverAccepted, DeliverForgotten, DeliverFails, Tried
  <2>2. CASE look' = [look EXCEPT !.left = @ \ {d}]
    BY <2>2, <1>s DEF Typed
  <2>3. CASE look' = [look EXCEPT !.left = @ \ {d}, !.allDelivered = FALSE]
    BY <2>3, <1>s DEF Typed
  <2> QED
    BY <2>1, <2>2, <2>3
<1>x. /\ excused \subseteq excused'
      /\ look'.allDelivered \/ Excused(s, look.read.turn)' \/ ~look.allDelivered
  BY <1>s
     DEF DeliverSkips, DeliverAccepted, DeliverForgotten, DeliverFails, Tried, ThisTurn,
         Excused, reportVars, Typed
<1>r. \/ UNCHANGED <<announced, again>>
      \/ /\ announced' = announced \cup {<<d, s, look.read.turn>>}
         /\ again' = again \cup ({<<d, s, look.read.turn>>} \cap announced)
  BY <1>s
     DEF DeliverSkips, DeliverAccepted, DeliverForgotten, DeliverFails, Receives, Report,
         reportVars
<1>k. /\ announced \subseteq announced' /\ announced' \subseteq Devices \X Sessions \X Nat
      /\ again' \subseteq announced'
      /\ \A e \in Devices, t \in Sessions, n \in Nat : <<e, t, n>> \in announced' =>
           <<e, t, n>> \in announced \/ (e = d /\ t = s /\ n = look.read.turn)
  <2>1. CASE UNCHANGED <<announced, again>>
    BY <2>1 DEF Typed
  <2>2. CASE /\ announced' = announced \cup {<<d, s, look.read.turn>>}
             /\ again' = again \cup ({<<d, s, look.read.turn>>} \cap announced)
    BY <2>2, <1>n DEF Typed
  <2> QED
    BY <1>r, <2>1, <2>2
<1>h. d \in poll.registrations /\ Wanted(d) =>
        <<d, s, look.read.turn>> \in announced' \/ d \in retired \/ ~look'.allDelivered
  BY <1>s, <1>l
     DEF DeliverSkips, DeliverAccepted, DeliverForgotten, DeliverFails, Receives, Report, Typed
<1>t. look.read.turn <= screen[s].turn /\ screen[s].turn \in Nat
  BY <1>a, <1>s DEF ReadSound, Typed, Screens
<1>o. /\ s \in poll.seen
      /\ \A t \in Sessions \ {s}, n \in Nat : Known(t, n)' => Known(t, n)
  BY <1>a, <1>s, <1>k DEF ReadSound, Known
<1> USE <1>a, <1>l DEF userVars, inputVars
<1>1. Typed'
  BY <1>k DEF Typed
<1>2. PollSound'
  BY <1>o DEF PollSound, Unmet
<1>3. ReadSound'
  BY <1>s DEF ReadSound
<1>4. TurnsPast'
  <2>1. \A t \in Sessions, n \in Nat : Known(t, n)' => Known(t,
           n) \/ (t = s /\ n = look.read.turn)
    BY <1>k DEF Known
  <2> QED
    BY <2>1, <1>s, <1>t DEF TurnsPast
<1>5. MarksGrow'
  BY <1>s DEF MarksGrow
<1>6. KnownIsRecorded'
  <2> SUFFICES ASSUME NEW t \in Sessions, t # s, Concluded(t)', Handled(t)'
      PROVE  Closes(Memory(t), t)'
    BY <1>s DEF KnownIsRecorded
  <2>1. Concluded(t) /\ Handled(t)
    <3>1. screen[t].turn \in Nat
      BY DEF Typed, Screens
    <3>2. Known(t, screen[t].turn)
      BY <3>1, <1>o DEF Concluded, Known
    <3> QED
      BY <3>2, <1>s, <1>x DEF Concluded, Excused, Handled
  <2>2. Closes(Memory(t), t)
    BY <2>1, <1>s DEF KnownIsRecorded
  <2> QED
    BY <2>2 DEF Closes, Memory
<1>7. KnownIsPassedOver'
  BY DEF KnownIsPassedOver
<1>8. ToldIsNew'
  BY <1>k, <1>n, <1>s, <1>x DEF ToldIsNew, Excused
<1>9. TriedIsHeard'
  BY <1>k, <1>h, <1>s DEF TriedIsHeard, Wanted, Report, Typed
<1>10. Quiet'
  <2>0. \/ Excused(s, look.read.turn)
        \/ /\ <<s, look.read.turn>> \notin dismissed
           /\ <<d, s, look.read.turn>> \notin announced
    BY <1>s DEF ToldIsNew
  <2>1. OncePerTurn'
    <3>1. CASE UNCHANGED <<announced, again>>
      BY <3>1, <1>x DEF Quiet, OncePerTurn
    <3>2. CASE again' = again \cup ({<<d, s, look.read.turn>>} \cap announced)
      <4>1. ASSUME NEW report \in again' PROVE <<report[2], report[3]>> \in excused'
        <5>1. CASE report \in again
          BY <5>1, <1>x DEF Quiet, OncePerTurn
        <5>2. CASE report = <<d, s, look.read.turn>> /\ report \in announced
          BY <5>2, <2>0, <1>x DEF Excused
        <5> QED
          BY <3>2, <5>1, <5>2
      <4> QED
        BY <4>1 DEF OncePerTurn
    <3> QED
      BY <1>r, <3>1, <3>2
  <2>2. DismissedStaysQuiet'
    <3>1. CASE UNCHANGED <<announced, again>>
      BY <3>1, <1>x DEF Quiet, DismissedStaysQuiet
    <3>2. CASE announced' = announced \cup {<<d, s, look.read.turn>>}
      BY <3>2, <2>0, <1>x DEF Quiet, DismissedStaysQuiet, Excused
    <3> QED
      BY <1>r, <3>1, <3>2
  <2> QED
    BY <2>1, <2>2 DEF Quiet
<1> QED
  BY <1>1, <1>2, <1>3, <1>4, <1>5, <1>6, <1>7, <1>8, <1>9, <1>10 DEF IInv

\* The end of a poll: its state is the file's, or what it told is excused.
LEMMA PollEndsPreserves ==
  ASSUME IInv, PollEnds
  PROVE  IInv'
<1>0. Typed /\ PollSound /\ ReadSound /\ TurnsPast /\ MarksGrow /\
      KnownIsRecorded /\ KnownIsPassedOver /\ ToldIsNew /\ TriedIsHeard /\ Quiet
  BY DEF IInv
<1> USE <1>0 DEF Looking, Telling, Polling
<1>a. /\ pc = "next" /\ pc' = "sleep" /\ poll.todo = {} /\ poll' = NoPoll
      /\ UNCHANGED <<life, screen, look, announced, again, dismissed, config, retired,
                     typed, redrawn>>
      /\ excused \subseteq excused'
  BY DEF PollEnds, PruneMarkers, deviceVars, inputVars
<1>b. /\ activity' \in [Sessions -> Nat]
      /\ \A s \in poll.seen : activity'[s] = activity[s]
  BY DEF PollEnds, PruneMarkers, Prunable, Stale, Typed
<1>c. \/ file' = Kept /\ baseline' = FALSE /\ UNCHANGED excused
      \/ /\ UNCHANGED <<file, baseline>>
         /\ {<<report[2], report[3]>> : report \in announced} \cup dismissed \subseteq excused'
  <2>1. ~Dirty => file = Kept
    BY <1>a DEF Dirty, PollSound
  <2> QED
    BY <2>1 DEF PollEnds
<1>d. /\ \A s \in Sessions : Kept[s] = IF s \in poll.seen THEN poll.memory[s] ELSE Blank
      /\ Kept \in [Sessions -> Records]
  BY NothingYet DEF Kept, Stale, Typed
<1>e. /\ \A s \in Sessions : life[s] = "new" => s \notin poll.seen
      /\ \A s \in Sessions \ poll.seen : life[s] \in {"new", "listed"} => Unmet(s)
  BY <1>a DEF PollSound
<1>f. file' \in [Sessions -> Records] /\ baseline' \in BOOLEAN
  BY <1>c, <1>d DEF Typed
<1> USE <1>a
<1>1. Typed'
  BY <1>b, <1>f, NothingYet DEF Typed
<1>2. PollSound'
  <2>1. ASSUME NEW s \in Sessions, life[s] = "new" PROVE file'[s] = Blank /\ Unmet(s)
    BY <1>c, <1>d, <1>e, <2>1 DEF Unmet
  <2> QED
    BY <2>1, NothingYet DEF PollSound, Unmet, Known
<1>3. ReadSound'
  BY DEF ReadSound
<1>4. TurnsPast'
  BY DEF TurnsPast, Known
<1>5. MarksGrow'
  <2>1. ASSUME NEW s \in Sessions, life[s] = "listed" PROVE file'[s].activity <= activity'[s]
    <3>1. CASE s \in poll.seen
      BY <1>b, <1>c, <1>d, <2>1, <3>1 DEF MarksGrow
    <3>2. CASE s \notin poll.seen
      BY <1>b, <1>c, <1>d, <1>e, <2>1, <3>2, NothingYet DEF Unmet
    <3> QED
      BY <3>1, <3>2
  <2> QED
    BY <2>1, <1>b, NothingYet DEF MarksGrow
<1>6. KnownIsRecorded'
  <2> SUFFICES ASSUME NEW t \in Sessions, Concluded(t)', Handled(t)' PROVE Closes(file[t], t)'
    BY DEF KnownIsRecorded, Memory
  <2>1. /\ life[t] = "listed" /\ screen[t].attention # "none" /\ screen[t].turn \in Nat
        /\ Known(t, screen[t].turn) /\ <<t, screen[t].turn>> \notin excused'
    BY DEF Concluded, Known, Excused, Typed, Screens
  <2>2. t \in poll.seen
    BY <1>e, <2>1 DEF Unmet
  <2>3. CASE file' = Kept
    <3>1. Closes(poll.memory[t], t)
      BY <2>1, <2>2 DEF KnownIsRecorded, Concluded, Excused, Handled, Memory
    <3> QED
      BY <3>1, <2>2, <2>3, <1>b, <1>d DEF Closes
  <2>4. CASE {<<report[2], report[3]>> : report \in announced} \cup dismissed \subseteq excused'
    <3>1. ASSUME NEW d \in Devices, <<d, t, screen[t].turn>> \in announced PROVE FALSE
      BY <3>1, <2>1, <2>4
    <3> QED
      BY <3>1, <2>1, <2>4 DEF Known
  <2> QED
    BY <1>c, <2>3, <2>4
<1>7. KnownIsPassedOver'
  BY DEF KnownIsPassedOver
<1>8. ToldIsNew'
  BY DEF ToldIsNew
<1>9. TriedIsHeard'
  BY DEF TriedIsHeard
<1>10. Quiet'
  BY DEF Quiet, OncePerTurn, DismissedStaysQuiet
<1> QED
  BY <1>1, <1>2, <1>3, <1>4, <1>5, <1>6, <1>7, <1>8, <1>9, <1>10 DEF IInv

-------------------------------------------------------------------------------
LEMMA InitEstablishes == Init => IInv
<1> SUFFICES ASSUME Init PROVE IInv
  OBVIOUS
<1>1. Typed
  BY NothingYet DEF Init, Typed, FirstScreen, Screens, Kinds
<1>2. PollSound /\ ReadSound /\ TurnsPast
  BY NothingYet DEF Init, PollSound, ReadSound, TurnsPast, Polling, Looking, Unmet, Known
<1>3. MarksGrow
  BY NothingYet DEF Init, MarksGrow, Looking, Telling
<1>4. KnownIsRecorded /\ KnownIsPassedOver
  BY DEF Init, KnownIsRecorded, KnownIsPassedOver, Handled, Polling
<1>5. ToldIsNew /\ TriedIsHeard /\ Quiet
  BY DEF Init, ToldIsNew, TriedIsHeard, Telling, Quiet, OncePerTurn, DismissedStaysQuiet
<1> QED
  BY <1>1, <1>2, <1>3, <1>4, <1>5 DEF IInv

\* Steps that leave alone what records depend on.
LEMMA BystandersKeep ==
  ASSUME IInv,
         \/ \E s \in Sessions : Send(s) \/ Read(s) \/ Hush(s) \/ LooksAway(s) \/ GracePasses(s)
         \/ \E d \in Devices : Configure(d) \/ Forget(d) \/ Retire(d)
         \/ Start \/ PollFails
         \/ UNCHANGED vars
  PROVE  IInv'
<1>0. config \subseteq Devices
  BY DEF IInv, Typed
<1>1. ASSUME NEW s \in Sessions, Send(s) \/ Read(s) \/ Hush(s) \/ LooksAway(s) \/ GracePasses(s)
      PROVE  IInv'
  BY <1>0, <1>1, BystandersPreserve
     DEF Send, Read, Hush, LooksAway, GracePasses, deviceVars, watcherVars, inputVars,
         reportVars
<1>2. ASSUME NEW d \in Devices, Configure(d) \/ Forget(d) \/ Retire(d)
      PROVE  IInv'
  BY <1>0, <1>2, BystandersPreserve
     DEF Configure, Forget, Retire, userVars, watcherVars, inputVars, reportVars
<1>3. CASE Start \/ PollFails
  BY <1>0, <1>3, BystandersPreserve
     DEF Start, PollFails, userVars, deviceVars, inputVars, reportVars
<1>4. CASE UNCHANGED vars
  BY <1>0, <1>4, BystandersPreserve DEF vars
<1> QED
  BY <1>1, <1>2, <1>3, <1>4

LEMMA NextPreserves == IInv /\ [Next]_vars => IInv'
<1> SUFFICES ASSUME IInv, [Next]_vars PROVE IInv'
  OBVIOUS
<1>1. CASE UserStep
  BY <1>1, BystandersKeep, CreatePreserves, DeletePreserves, ShowPreserves, MarkPreserves
     DEF UserStep
<1>2. CASE WatcherStep
  BY <1>2, BystandersKeep, PollNobodyPreserves, PollListsPreserves, PollEndsPreserves,
     TranscriptPreserves, NoTranscriptPreserves, JudgePreserves, TellingPreserves,
     BeginDeliveriesPreserves, DeliverPreserves DEF WatcherStep
<1>3. CASE Start \/ Crash \/ UNCHANGED vars
  BY <1>3, BystandersKeep, CrashPreserves
<1> QED
  BY <1>1, <1>2, <1>3 DEF Next

LEMMA Invariance == Spec => []IInv
  BY InitEstablishes, NextPreserves, PTL DEF Spec

-------------------------------------------------------------------------------
\* Deliveries begin and end in a step of the watcher only.
LEMMA DeliveriesAreTheWatchers ==
  ASSUME [Next]_vars
  PROVE  /\ pc = "recheck" /\ pc' = "deliver" => BeginDeliveries
         /\ pc = "deliver" /\ pc' = "next" => EndDeliveries
<1>1. CASE UserStep
  BY <1>1 DEF UserStep, Create, Delete, Send, Mark, Read, Hush, LooksAway, GracePasses, Show,
     Configure, Forget, Retire, watcherVars
<1>2. CASE WatcherStep
  <2>1. CASE \/ PollNobody \/ PollLists \/ PollFails \/ PollEnds
             \/ \E s \in Sessions : Transcript(s) \/ NoTranscript(s)
    BY <2>1 DEF PollNobody, PollLists, PollFails, PollEnds, Transcript, NoTranscript
  <2>2. CASE Judge \/ RecheckAnswered
    <3>1. pc = "judge" \/ (pc = "recheck" /\ pc' = "next")
      BY <2>2 DEF Judge, Judging, UpToDate, Decide, Unreported, JudgeBaseline, JudgeAnswered,
         JudgeWorkBegins, JudgeStillAwaiting, JudgeWorking, JudgeAlreadyReported,
                  JudgeNotFollowed,
         JudgeWatched, Tell, RecheckAnswered, Record
    <3> QED
      BY <3>1
  <2>3. CASE BeginDeliveries \/ EndDeliveries
    BY <2>3 DEF BeginDeliveries, EndDeliveries
  <2>4. CASE \E d \in Devices :
               DeliverSkips(d) \/ DeliverAccepted(d) \/ DeliverForgotten(d) \/ DeliverFails(d)
    BY <2>4 DEF DeliverSkips, DeliverAccepted, DeliverForgotten, DeliverFails, Delivering
  <2> QED
    BY <1>2, <2>1, <2>2, <2>3, <2>4 DEF WatcherStep
<1>3. CASE Start \/ Crash \/ UNCHANGED vars
  BY <1>3 DEF Start, Crash, vars
<1> QED
  BY <1>1, <1>2, <1>3 DEF Next

\* A device hears of a turn once, unless the turn is excused by name: a delivery or
\* a save failed, the first poll could not read it, or it was redrawn and then
\* answered (watcher.go poll, 111-243).
THEOREM ToldOnce == Spec => []OncePerTurn
<1>1. IInv => OncePerTurn
  BY DEF IInv, Quiet
<1> QED
  BY <1>1, Invariance, PTL

\* A turn recorded without telling anybody is not told later (watcher.go 134-138,
\* 178-188).
THEOREM DismissedForGood == Spec => []DismissedStaysQuiet
<1>1. IInv => DismissedStaysQuiet
  BY DEF IInv, Quiet
<1> QED
  BY <1>1, Invariance, PTL

\* A push begins only if no input was marked since the screen was read: the marker is
\* read twice (watcher.go 131 and 196-204).
THEOREM AnsweredIsSpared == Spec => AnsweredIsNotPushed
<1>1. IInv /\ [Next]_vars =>
        [pc = "recheck" /\ pc' = "deliver" => activity[look.session] = look.marks]_vars
  <2> SUFFICES ASSUME IInv, [Next]_vars, pc = "recheck", pc' = "deliver"
               PROVE  activity[look.session] = look.marks
    OBVIOUS
  <2>1. BeginDeliveries
    BY DeliveriesAreTheWatchers
  <2>2. /\ look.session \in Sessions /\ activity[look.session] \in Nat /\ look.marks \in Nat
        /\ look.activity = look.marks /\ look.marks <= activity[look.session]
    BY DEF IInv, ReadSound, MarksGrow, Looking, Telling, Typed
  <2> QED
    BY <2>1, <2>2 DEF BeginDeliveries, Marked
<1> QED
  BY <1>1, Invariance, PTL DEF Spec, AnsweredIsNotPushed

\* A turn is recorded after deliveries only if every device of the poll that asks
\* for it has heard of it or is gone (watcher.go 205-238).
THEOREM ClosedAfterAll == Spec => ClosedIsHeard
<1> DEFINE Closed == pc = "deliver" /\ pc' = "next" /\ poll'.memory # poll.memory
<1> DEFINE AllHeard == \A d \in poll.registrations :
                         Wanted(d) => Report(d) \in announced \/ d \in retired
<1>1. IInv /\ [Next]_vars => [Closed => AllHeard]_vars
  <2> SUFFICES ASSUME IInv, [Next]_vars, Closed PROVE AllHeard
    OBVIOUS
  <2>1. EndDeliveries
    BY DeliveriesAreTheWatchers
  <2>2. look.left = {} /\ look.allDelivered
    BY <2>1 DEF EndDeliveries, PassOver
  <2> QED
    BY <2>2 DEF IInv, TriedIsHeard
<1> QED
  BY <1>1, Invariance, PTL DEF Spec, ClosedIsHeard

\* If no poll lasts longer than markers are kept, a session keeps its follow marker
\* until it is deleted (watcher.go 244-247, pruneActivityMarkers 351-368).
THEOREM FollowMarkersStay ==
  ASSUME ~SlowPolls
  PROVE  Spec => FollowedStays
<1> DEFINE Stays == \A s \in Sessions : s \in followed /\ life'[s] # "deleted" => s \in followed'
<1>1. [Next]_vars => [Stays]_vars
  <2> SUFFICES ASSUME [Next]_vars, NEW s \in Sessions, s \in followed, life'[s] # "deleted"
               PROVE  s \in followed'
    OBVIOUS
  <2>1. CASE UserStep
    BY <2>1 DEF UserStep, Create, Delete, Send, Mark, Read, Hush, LooksAway, GracePasses, Show,
       Configure, Forget, Retire, userVars
  <2>2. CASE WatcherStep
    <3>1. CASE PollEnds
      BY <3>1 DEF PollEnds, PruneMarkers, Prunable
    <3>2. CASE Judge \/ RecheckAnswered \/ BeginDeliveries \/ EndDeliveries
      BY <3>2 DEF Judge, JudgeBaseline, JudgeAnswered, JudgeWorkBegins, JudgeStillAwaiting,
         JudgeWorking, JudgeAlreadyReported, JudgeNotFollowed, JudgeWatched, Tell,
         RecheckAnswered, BeginDeliveries, EndDeliveries, JudgeUnchanged, userVars
    <3>3. CASE \/ PollNobody \/ PollLists \/ PollFails
               \/ \E t \in Sessions : Transcript(t) \/ NoTranscript(t)
      BY <3>3 DEF PollNobody, PollLists, PollFails, Transcript, NoTranscript, userVars
    <3>4. CASE \E d \in Devices :
                 DeliverSkips(d) \/ DeliverAccepted(d) \/ DeliverForgotten(d) \/ DeliverFails(d)
      BY <3>4 DEF DeliverSkips, DeliverAccepted, DeliverForgotten, DeliverFails, userVars
    <3> QED
      BY <2>2, <3>1, <3>2, <3>3, <3>4 DEF WatcherStep
  <2>3. CASE Start \/ Crash \/ UNCHANGED vars
    BY <2>3 DEF Start, Crash, userVars, vars
  <2> QED
    BY <2>1, <2>2, <2>3 DEF Next
<1> QED
  BY <1>1, PTL DEF Spec, FollowedStays
===============================================================================
