-------------------------------- MODULE Watcher --------------------------------
(***************************************************************************)
(* The notification watcher (internal/notifications/watcher.go): a process *)
(* of its own that polls the daemon, decides which sessions have something *)
(* to report and tells every registered device, once for every turn of the *)
(* agent.  It works on what it read some time ago: screens change, the     *)
(* user answers, devices come and go and the watcher itself may die        *)
(* between any two of its steps.                                           *)
(*                                                                         *)
(* A screen is what AttentionStateFor makes of it and a number that stands *)
(* for its text (the fingerprint is a hash of both); a new text has a new  *)
(* number.  Its turn says which piece of the agent's work it reports: that *)
(* is history, the watcher cannot see it.                                  *)
(***************************************************************************)
EXTENDS Naturals

CONSTANTS
  Sessions,     \* sessions the daemon may have
  Devices,      \* devices that may register
  Attentions,   \* what AttentionStateFor may report besides "none"
  Wants,        \* registrationAllows: pairs of a device and an attention
  Faults,       \* what may fail: subset of {"daemon", "transcript", "relay", "save"}
  SlowPolls,    \* whether a poll may take longer than markerRetention
  MaxScreens,   \* bound of the model: screens a session shows
  MaxMarks,     \* bound of the model: inputs marked for a session
  MaxEvents     \* bound of the model: failures, deaths of the watcher, visits
                \* of the user and changes of the registrations, all together

AttentionsAssumption == "none" \notin Attentions
ASSUME NoneIsNotReported == AttentionsAssumption

Kinds == Attentions \cup {"none"}
FirstScreen == [attention |-> "none", print |-> 1, turn |-> 0]

Blank == [attention |-> "none", print |-> 0, activity |-> 0, awaiting |-> FALSE]

VARIABLES
  life,       \* of every session: "new", "listed" by the daemon or "deleted"
  screen,     \* what it shows
  hushed,     \* sessions with an attached terminal, or muted
  viewed,     \* sessions with a presence marker of the last five seconds
  followed,   \* sessions with a follow marker
  answering,  \* sessions given an input whose markers are not yet written
  activity,   \* activity marker of a session: number of inputs marked
  waited,     \* sessions with no input marked for fastCompletionGrace
  config,     \* notifications.json: the registered devices
  retired,    \* devices the relay no longer knows
  pc,         \* where the watcher is
  baseline,   \* Watch's `baseline`: its first poll is still to come
  file,       \* notification-state.json; print 0 is the empty fingerprint
  poll,       \* variables of one poll
  look,       \* variables of one turn of its loop over the sessions
  events,     \* those so far
  typed,      \* history: sessions given an input since their turn began
  redrawn,    \* history: sessions redrawn since their turn began
  announced,  \* history: <<device, session, turn>> the device accepted
  again,      \* history: those it accepted once more
  dismissed,  \* history: <<session, turn>> recorded as reported, nobody told
  excused     \* history: <<session, turn>> that may be announced once more

userVars == <<life, screen, hushed, viewed, followed, answering, activity, waited>>
deviceVars == <<config, retired>>
inputVars == <<typed, redrawn>>
reportVars == <<announced, again, dismissed, excused>>
vars == <<life, screen, hushed, viewed, followed, answering, activity,
          waited, config, retired, pc, baseline, file, poll, look, events,
          typed, redrawn, announced, again, dismissed, excused>>

NoPoll == [memory |-> [s \in Sessions |-> Blank], changed |-> FALSE,
           registrations |-> {}, seen |-> {}, quiet |-> {}, todo |-> {}]
NoLook == [session |-> "none", read |-> FirstScreen, marks |-> 0, activity |-> 0,
           previous |-> Blank, left |-> {}, allDelivered |-> TRUE]

\* A watcher has been installed and devices may have been registered.
Init ==
  /\ life = [s \in Sessions |-> "new"]
  /\ screen = [s \in Sessions |-> FirstScreen]
  /\ activity = [s \in Sessions |-> 0]
  /\ hushed = {} /\ viewed = {} /\ followed = {} /\ answering = {}
  /\ waited = Sessions /\ typed = {} /\ redrawn = {}
  /\ config \in {{}, Devices}
  /\ retired = {}
  /\ pc = "off"
  /\ baseline = TRUE
  /\ file = [s \in Sessions |-> Blank]
  /\ poll = NoPoll
  /\ look = NoLook
  /\ events = 0
  /\ announced = {} /\ again = {} /\ dismissed = {} /\ excused = {}

-------------------------------------------------------------------------------
(* The sessions and their users.                                             *)

Listed == {s \in Sessions : life[s] = "listed"}
watcherVars == <<pc, baseline, file, poll, look>>

Event == events < MaxEvents /\ events' = events + 1

\* A session is created, from the phone (which then follows it) or elsewhere.
Create(s) ==
  /\ life[s] = "new"
  /\ life' = [life EXCEPT ![s] = "listed"]
  /\ \E byPhone \in BOOLEAN :
       /\ followed' = IF byPhone THEN followed \cup {s} ELSE followed
       /\ UNCHANGED <<screen, hushed, viewed, answering, activity, waited>>
  /\ UNCHANGED <<deviceVars, watcherVars, inputVars, reportVars, events>>

Delete(s) ==
  /\ Event
  /\ s \in Listed
  /\ life' = [life EXCEPT ![s] = "deleted"]
  /\ UNCHANGED <<screen, hushed, viewed, followed, answering, activity, waited>>
  /\ UNCHANGED <<deviceVars, watcherVars, inputVars, reportVars>>

\* The screen of s changes.  A turn begins when the agent has something to
\* report after it worked, or on the first change after an input; while it is
\* not marked yet every change may be its effect.
Show(s, kind) ==
  LET shown == screen[s]
      begins == kind # "none" /\ (shown.attention = "none" \/ s \in typed \cup answering)
  IN
  /\ s \in Listed
  /\ shown.print < MaxScreens
  /\ screen' = [screen EXCEPT ![s] =
       [attention |-> kind, print |-> shown.print + 1,
        turn |-> shown.turn + IF begins THEN 1 ELSE 0]]
  /\ typed' = IF begins THEN typed \ {s} ELSE typed
  /\ redrawn' = IF begins THEN redrawn \ {s} ELSE redrawn \cup {s}
  /\ UNCHANGED <<life, hushed, viewed, followed, answering, activity, waited>>
  /\ UNCHANGED <<deviceVars, watcherVars, reportVars, events>>

\* The daemon accepts a send, or a key other than Up and Down.
Send(s) ==
  /\ s \in Listed \ answering
  /\ activity[s] < MaxMarks
  /\ answering' = answering \cup {s}
  /\ typed' = typed \cup {s}
  /\ UNCHANGED <<life, screen, hushed, viewed, followed, activity, waited, redrawn>>
  /\ UNCHANGED <<deviceVars, watcherVars, reportVars, events>>

\* The client that sent it writes the activity and the follow marker.
Mark(s) ==
  /\ s \in answering
  /\ answering' = answering \ {s}
  /\ activity' = [activity EXCEPT ![s] = @ + 1]
  /\ waited' = waited \ {s}
  /\ followed' = followed \cup {s}
  /\ typed' = typed \cup {s}
  /\ excused' = IF s \in redrawn THEN excused \cup {<<s, screen[s].turn>>} ELSE excused
  /\ UNCHANGED <<life, screen, hushed, viewed, redrawn, announced, again, dismissed>>
  /\ UNCHANGED <<deviceVars, watcherVars, events>>

\* The phone reads the transcript: presence and follow markers.
Read(s) ==
  /\ Event
  /\ s \in Listed
  /\ viewed' = viewed \cup {s}
  /\ followed' = followed \cup {s}
  /\ UNCHANGED <<life, screen, hushed, answering, activity, waited>>
  /\ UNCHANGED <<deviceVars, watcherVars, inputVars, reportVars>>

\* A terminal attaches or leaves, or the session is muted or unmuted.
Hush(s) ==
  /\ Event
  /\ s \in Listed
  /\ hushed' = IF s \in hushed THEN hushed \ {s} ELSE hushed \cup {s}
  /\ UNCHANGED <<life, screen, viewed, followed, answering, activity, waited>>
  /\ UNCHANGED <<deviceVars, watcherVars, inputVars, reportVars>>

\* Five seconds without another transcript: the presence marker is stale.
LooksAway(s) ==
  /\ s \in viewed
  /\ viewed' = viewed \ {s}
  /\ UNCHANGED <<life, screen, hushed, followed, answering, activity, waited>>
  /\ UNCHANGED <<deviceVars, watcherVars, inputVars, reportVars, events>>

\* fastCompletionGrace has passed since the last input marked.
GracePasses(s) ==
  /\ s \notin waited
  /\ waited' = waited \cup {s}
  /\ UNCHANGED <<life, screen, hushed, viewed, followed, answering, activity>>
  /\ UNCHANGED <<deviceVars, watcherVars, inputVars, reportVars, events>>

Configure(d) ==
  /\ Event
  /\ d \notin config \cup retired
  /\ config' = config \cup {d}
  /\ UNCHANGED <<retired, userVars, watcherVars, inputVars, reportVars>>

Forget(d) ==
  /\ Event
  /\ d \in config
  /\ config' = config \ {d}
  /\ UNCHANGED <<retired, userVars, watcherVars, inputVars, reportVars>>

\* The relay retires a device.
Retire(d) ==
  /\ Event
  /\ d \notin retired
  /\ retired' = retired \cup {d}
  /\ UNCHANGED <<config, userVars, watcherVars, inputVars, reportVars>>

UserStep ==
  \/ \E s \in Sessions :
       \/ Create(s) \/ Delete(s) \/ Send(s) \/ Mark(s) \/ Read(s) \/ Hush(s)
       \/ LooksAway(s) \/ GracePasses(s)
       \/ \E kind \in Kinds : Show(s, kind)
  \/ \E d \in Devices : Configure(d) \/ Forget(d) \/ Retire(d)
-------------------------------------------------------------------------------
(* The watcher.                                                              *)

Fails(what) == what \in Faults /\ Event

\* Watch begins: a client found no watcher running and started one.
Start ==
  /\ pc = "off"
  /\ pc' = "sleep"
  /\ UNCHANGED <<baseline, file, poll, look>>
  /\ UNCHANGED <<userVars, deviceVars, inputVars, events, reportVars>>

\* It is killed, or leaves because its executable was replaced.
Crash ==
  /\ pc # "off"
  /\ Event
  /\ pc' = "off"
  /\ baseline' = TRUE
  /\ poll' = NoPoll /\ look' = NoLook
  /\ UNCHANGED file
  /\ UNCHANGED <<userVars, deviceVars, inputVars, reportVars>>

CurrentTurns == {<<s, screen[s].turn>> : s \in Sessions}

\* poll with nobody to tell returns nil: the next one is no baseline.
PollNobody ==
  /\ pc = "sleep"
  /\ config = {}
  /\ baseline' = FALSE
  /\ excused' = IF baseline THEN excused \cup CurrentTurns ELSE excused
  /\ UNCHANGED <<pc, file, poll, look, announced, again, dismissed>>
  /\ UNCHANGED <<userVars, deviceVars, inputVars, events>>

\* poll loads the configuration, lists the sessions and loads its state.
PollLists ==
  /\ pc = "sleep"
  /\ config # {}
  /\ pc' = "next"
  /\ poll' = [memory |-> file, changed |-> FALSE, registrations |-> config,
               seen |-> Listed, quiet |-> hushed \cap Listed, todo |-> Listed]
  /\ UNCHANGED <<baseline, file, look>>
  /\ UNCHANGED <<userVars, deviceVars, inputVars, events, reportVars>>

\* The daemon does not answer the list: poll returns an error.
PollFails ==
  /\ pc = "sleep"
  /\ config # {}
  /\ Fails("daemon")
  /\ UNCHANGED <<pc, baseline, file, poll, look>>
  /\ UNCHANGED <<userVars, deviceVars, inputVars, reportVars>>

\* The loop takes the next session and reads its transcript.
Transcript(s) ==
  /\ pc = "next"
  /\ s \in poll.todo \cap Listed
  /\ pc' = "judge"
  /\ poll' = [poll EXCEPT !.todo = @ \ {s}]
  /\ look' = [NoLook EXCEPT !.session = s, !.read = screen[s], !.marks = activity[s]]
  /\ UNCHANGED <<baseline, file>>
  /\ UNCHANGED <<userVars, deviceVars, inputVars, events, reportVars>>

\* The transcript cannot be had: the session is passed over.
NoTranscript(s) ==
  /\ pc = "next"
  /\ s \in poll.todo
  /\ \/ s \notin Listed /\ UNCHANGED events
     \/ Fails("transcript")
  /\ poll' = [poll EXCEPT !.todo = @ \ {s}]
  /\ excused' = IF baseline THEN excused \cup {<<s, screen[s].turn>>} ELSE excused
  /\ UNCHANGED <<pc, baseline, file, look, announced, again, dismissed>>
  /\ UNCHANGED <<userVars, deviceVars, inputVars>>

-------------------------------------------------------------------------------
(* What poll makes of the session it looks at.  Each action ends the turn of *)
(* the loop, but for Tell, which goes on to the deliveries.                  *)

Reported(activityRead) ==
  [attention |-> look.read.attention, print |-> look.read.print,
   activity |-> activityRead, awaiting |-> FALSE]
Seen(activityRead) == [Reported(activityRead) EXCEPT !.attention = "none"]
\* Mutant: the fingerprint kept is that of the screen just read.
AwaitingAnother(activityRead, before) ==
  [Blank EXCEPT !.activity = activityRead, !.print = look.read.print, !.awaiting = TRUE]

Awaiting(activityRead, before) ==
  [Blank EXCEPT !.activity = activityRead, !.print = before.print, !.awaiting = TRUE]

ThisTurn == <<look.session, look.read.turn>>
Settled == look.read.attention # "none"
Report(d) == <<d, look.session, look.read.turn>>

\* state.Sessions[session.ID] = what; changed = true; continue
Record(what) ==
  /\ pc' = "next"
  /\ poll' = [poll EXCEPT !.memory[look.session] = what, !.changed = TRUE]
  /\ look' = NoLook

PassOver ==
  /\ pc' = "next"
  /\ look' = NoLook
  /\ UNCHANGED poll

\* Recorded as reported although nobody is told.
Dismiss ==
  dismissed' = IF Settled /\ ~\E d \in Devices : Report(d) \in announced
               THEN dismissed \cup {ThisTurn} ELSE dismissed

JudgeUnchanged ==
  /\ UNCHANGED <<baseline, file, announced, again, excused>>
  /\ UNCHANGED <<userVars, deviceVars, inputVars, events>>

Judging == pc = "judge"
Before == poll.memory[look.session]
Marked == activity[look.session]

\* Mutant: the first poll records the screen and not what it reports.
JudgeBaselineScreen ==
  /\ Judging
  /\ baseline
  /\ Record(Seen(Marked))
  /\ Dismiss
  /\ JudgeUnchanged

JudgeBaseline ==
  /\ Judging
  /\ baseline
  /\ Record(Reported(Marked))
  /\ Dismiss
  /\ JudgeUnchanged

JudgeAnswered ==
  /\ Judging
  /\ ~baseline
  /\ Marked > Before.activity
  /\ Record(Awaiting(Marked, Before))
  /\ UNCHANGED dismissed
  /\ JudgeUnchanged

UpToDate == Judging /\ ~baseline /\ Marked <= Before.activity

\* Input was marked and the agent is seen working on it.
JudgeWorkBegins ==
  /\ UpToDate
  /\ Before.awaiting
  /\ ~Settled
  /\ Record([Before EXCEPT !.awaiting = FALSE, !.print = look.read.print])
  /\ UNCHANGED dismissed
  /\ JudgeUnchanged

\* Mutant: an unchanged screen is good enough.
ReadyUnchanged ==
  /\ Before.awaiting
  /\ Settled
  /\ look.session \in waited

ReadyAfterFastCompletion ==
  /\ Before.awaiting
  /\ Settled
  /\ look.read.print # Before.print
  /\ look.session \in waited

\* Input was marked and the screen still says what it said before.
JudgeStillAwaiting ==
  /\ UpToDate
  /\ Before.awaiting
  /\ Settled
  /\ ~ReadyAfterFastCompletion
  /\ PassOver
  /\ UNCHANGED dismissed
  /\ JudgeUnchanged

Previous == IF Before.awaiting THEN [Blank EXCEPT !.activity = Marked] ELSE Before
Decide == UpToDate /\ (Before.awaiting => ReadyAfterFastCompletion)

JudgeWorking ==
  /\ Decide
  /\ ~Settled
  /\ IF Previous.attention # "none" THEN Record(Seen(Marked)) ELSE PassOver
  /\ UNCHANGED dismissed
  /\ JudgeUnchanged

JudgeAlreadyReported ==
  /\ Decide
  /\ Settled
  /\ Previous.attention # "none"
  /\ PassOver
  /\ UNCHANGED dismissed
  /\ JudgeUnchanged

Unreported == Decide /\ Settled /\ Previous.attention = "none"

JudgeNotFollowed ==
  /\ Unreported
  /\ look.session \notin followed
  /\ Record(Reported(Marked))
  /\ Dismiss
  /\ JudgeUnchanged

JudgeWatched ==
  /\ Unreported
  /\ look.session \in followed \cap (poll.quiet \cup viewed)
  /\ PassOver
  /\ UNCHANGED dismissed
  /\ JudgeUnchanged

Tell ==
  /\ Unreported
  /\ look.session \in followed \ (poll.quiet \cup viewed)
  /\ pc' = "recheck"
  /\ look' = [look EXCEPT !.activity = Marked, !.previous = Previous]
  /\ UNCHANGED <<poll, dismissed>>
  /\ JudgeUnchanged

Judge ==
  \/ JudgeBaseline \/ JudgeAnswered \/ JudgeWorkBegins \/ JudgeStillAwaiting
  \/ JudgeWorking \/ JudgeAlreadyReported \/ JudgeNotFollowed \/ JudgeWatched
  \/ Tell

\* latestActivity: an input was marked since.
RecheckAnswered ==
  /\ pc = "recheck"
  /\ Marked > look.activity
  /\ Record(Awaiting(Marked, look.previous))
  /\ UNCHANGED dismissed
  /\ JudgeUnchanged

\* Mutant: the activity marker is not read again.
BeginUnchecked ==
  /\ pc = "recheck"
  /\ pc' = "deliver"
  /\ look' = [look EXCEPT !.left = poll.registrations]
  /\ UNCHANGED <<poll, dismissed>>
  /\ JudgeUnchanged

BeginDeliveries ==
  /\ pc = "recheck"
  /\ Marked <= look.activity
  /\ pc' = "deliver"
  /\ look' = [look EXCEPT !.left = poll.registrations]
  /\ UNCHANGED <<poll, dismissed>>
  /\ JudgeUnchanged

-------------------------------------------------------------------------------
(* The loop over the registrations.                                          *)

Delivering(d) == pc = "deliver" /\ d \in look.left
Wanted(d) == <<d, look.read.attention>> \in Wants
Tried(d) == look' = [look EXCEPT !.left = @ \ {d}]

Receives(d) ==
  /\ d \notin retired
  /\ announced' = announced \cup {Report(d)}
  /\ again' = again \cup ({Report(d)} \cap announced)

DeliverSkips(d) ==
  /\ Delivering(d)
  /\ ~Wanted(d)
  /\ Tried(d)
  /\ UNCHANGED <<pc, baseline, file, poll>>
  /\ UNCHANGED <<userVars, deviceVars, inputVars, events, reportVars>>

DeliverAccepted(d) ==
  /\ Delivering(d)
  /\ Wanted(d)
  /\ Receives(d)
  /\ Tried(d)
  /\ UNCHANGED <<pc, baseline, file, poll, dismissed, excused>>
  /\ UNCHANGED <<userVars, deviceVars, inputVars, events>>

\* errRelayForgotDevice: the registration is removed.
DeliverForgotten(d) ==
  /\ Delivering(d)
  /\ Wanted(d)
  /\ d \in retired
  /\ config' = config \ {d}
  /\ Tried(d)
  /\ UNCHANGED <<retired, pc, baseline, file, poll>>
  /\ UNCHANGED <<userVars, inputVars, events, reportVars>>

\* Any other error, also after the relay has taken the event.
DeliverFails(d) ==
  /\ Delivering(d)
  /\ Wanted(d)
  /\ Fails("relay")
  /\ Receives(d) \/ UNCHANGED <<announced, again>>
  /\ look' = [look EXCEPT !.left = @ \ {d}, !.allDelivered = FALSE]
  /\ excused' = excused \cup {ThisTurn}
  /\ UNCHANGED <<pc, baseline, file, poll, dismissed>>
  /\ UNCHANGED <<userVars, deviceVars, inputVars>>

\* Mutant: the turn is recorded although a device could not be reached.
EndRegardless ==
  /\ pc = "deliver"
  /\ look.left = {}
  /\ Record(Reported(look.activity))
  /\ UNCHANGED dismissed
  /\ JudgeUnchanged

EndDeliveries ==
  /\ pc = "deliver"
  /\ look.left = {}
  /\ IF look.allDelivered THEN Record(Reported(look.activity)) ELSE PassOver
  /\ UNCHANGED dismissed
  /\ JudgeUnchanged

-------------------------------------------------------------------------------
(* The end of poll: forget deleted sessions, prune their markers, save.      *)

Stale == Sessions \ poll.seen
Kept == [s \in Sessions |-> IF s \in Stale THEN Blank ELSE poll.memory[s]]
Dirty == poll.changed \/ Kept # poll.memory

\* Mutant: markers are removed whatever their age.
PrunableAtOnce == Stale

\* Markers of unlisted sessions that are older than markerRetention: those of a
\* session created since the list are not, unless the poll has been slow.
Prunable == {s \in Stale : life[s] = "deleted" \/ SlowPolls}

PruneMarkers ==
  \E old \in SUBSET Prunable :
    /\ followed' = followed \ old
    /\ activity' = [s \in Sessions |-> IF s \in old THEN 0 ELSE activity[s]]
    /\ viewed' = viewed \ old
    /\ UNCHANGED <<life, screen, hushed, answering, waited>>

PollEnds ==
  /\ pc = "next"
  /\ poll.todo = {}
  /\ pc' = "sleep"
  /\ poll' = NoPoll
  /\ PruneMarkers
  /\ \/ /\ file' = IF Dirty THEN Kept ELSE file
        /\ baseline' = FALSE
        /\ UNCHANGED <<events, excused>>
     \/ /\ Dirty
        /\ Fails("save")
        /\ excused' = excused \cup {<<report[2], report[3]>> : report \in announced}
                       \cup dismissed
        /\ UNCHANGED <<file, baseline>>
  /\ UNCHANGED <<look, announced, again, dismissed, deviceVars, inputVars>>

WatcherStep ==
  \/ PollNobody \/ PollLists \/ PollFails \/ PollEnds
  \/ \E s \in Sessions : Transcript(s) \/ NoTranscript(s)
  \/ Judge \/ RecheckAnswered \/ BeginDeliveries \/ EndDeliveries
  \/ \E d \in Devices :
       DeliverSkips(d) \/ DeliverAccepted(d) \/ DeliverForgotten(d) \/ DeliverFails(d)

Next == UserStep \/ Start \/ Crash \/ WatcherStep

\* The watcher's loop never blocks for good and time passes; nobody has to
\* start a watcher, answer a session or look away from it.
Fairness ==
  /\ WF_vars(WatcherStep)
  /\ \A s \in Sessions : WF_vars(GracePasses(s))

Spec == Init /\ [][Next]_vars /\ Fairness

-------------------------------------------------------------------------------

\* No device is told twice of one turn of the agent, whatever the screen, the
\* user and other devices do meanwhile and however often the watcher dies,
\* unless a delivery of it or a save failed, the first poll of a watcher could
\* not read it, or it was redrawn before an input was marked.
OncePerTurn ==
  \A report \in again : <<report[2], report[3]>> \in excused

\* A turn recorded as reported, because the phone did not follow the session or
\* a watcher had just started, is not announced later.
DismissedStaysQuiet ==
  \A report \in announced :
     <<report[2], report[3]>> \in dismissed => <<report[2], report[3]>> \in excused

\* No push begins about a screen read before an input that has been marked.
AnsweredIsNotPushed ==
  [][pc = "recheck" /\ pc' = "deliver" => activity[look.session] = look.marks]_vars

\* Deliveries end with a record of the turn only if every registration of the
\* poll that asks for it has accepted it or is gone: a device that could not be
\* reached holds the turn open, a retired one does not.
ClosedIsHeard ==
  [][pc = "deliver" /\ pc' = "next" /\ poll'.memory # poll.memory
     => \A d \in poll.registrations : Wanted(d) => Report(d) \in announced \/ d \in retired]_vars

\* A session in use does not lose its follow marker: without it the watcher
\* would dismiss every later turn.
FollowedStays ==
  [][\A s \in Sessions : s \in followed /\ life'[s] # "deleted" => s \in followed']_vars

Heard(d, s) == <<d, s, screen[s].turn>> \in announced

\* A turn of a followed session that the watcher has not recorded as reported
\* and of which a registered device has not heard.  Once an input is marked it
\* counts as reported if anybody has heard of it.
Open(s) ==
  /\ pc # "off"
  /\ s \in (followed \cap Listed) \ (hushed \cup viewed)
  /\ screen[s].attention # "none"
  /\ file[s].attention = "none"
  /\ <<s, screen[s].turn>> \notin dismissed
  /\ \E d \in config : <<d, screen[s].attention>> \in Wants /\ ~Heard(d, s)
  /\ file[s].awaiting => ~\E d \in Devices : Heard(d, s)

\* Nothing stays open for ever.
NothingStaysOpen == \A s \in Sessions : []<>(~Open(s))

\* Nobody is told twice of one turn, in an instance without failures.
NeverTwice == again = {}
===============================================================================
