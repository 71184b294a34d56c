----------------------------- MODULE AttachClient -----------------------------
(***************************************************************************)
(* An attach client of Falkn from the request to attach until AttachClient *)
(* returns (internal/server/attach_client.go), with the four goroutines it *)
(* runs: the copy of the session's output, the input reader, the one that  *)
(* follows the size of the window, and the one that lists the sessions.    *)
(* They share the status bar, the connection and nothing else.             *)
(***************************************************************************)
EXTENDS AttachInput

CONSTANTS
  Sizes,       \* rows the window may have
  FirstSize,   \* rows it has at first
  OthersFirst, \* the other sessions that run at first
  Keys,        \* what may be typed at once, as sequences of bytes
  MaxTyped,    \* bound of the model: bytes typed and not read
  MaxKeys,     \* bounds of the model: keys typed,
  MaxItems,    \* characters and sequences the session writes,
  MaxChanges,  \* changes of the window and of the daemon's sessions,
  MaxEvents    \* and all of these together

SelfAssumption ==
  Self \in Sessions /\ Sessions \subseteq Nat \ {0} /\ IsFiniteSet(Sessions)
ASSUME SelfIsASession == SelfAssumption

\* Rows fit in the sixteen bits the terminal reports them in, and where the
\* footer is shown there is room for the longest switcher as well: the code
\* computes a height below one without, which is not modelled.
Heights == Sizes \cup {FirstSize}
HeightsAssumption ==
  /\ MinimumRows \in Nat
  /\ \A rows \in Heights : rows \in Nat /\ rows < 65536
  /\ \A rows \in Heights : Visible(rows) => rows > 1 + LinesFor(Sessions)
ASSUME HeightsFit == HeightsAssumption

InputAssumption == OthersFirst \subseteq Sessions /\ Keys \subseteq Seq(Bytes)
ASSUME InputsAreTyped == InputAssumption

VARIABLES
  window,    \* its rows, whether SIGWINCH waits for the client, and whether the
             \* last change came before the client asked for the signal
  winch,     \* the goroutine that handles it
  main,      \* where AttachClient is
  outcome,   \* how it ended
  events     \* how many events there were

outerVars == <<window, winch, main, outcome, events>>
vars == <<inputVars, daemonVars, barVars, outerVars>>

Outcome(kind, target) == [kind |-> kind, target |-> target]
Attached == Outcome("none", NoSession)

\* footerContentFor the list the daemon gives.
Listed == [armed |-> FALSE, muted |-> session.muted, others |-> others]

NoList == [armed |-> FALSE, muted |-> FALSE, others |-> {}]

Init ==
  /\ window = [rows |-> FirstSize, signal |-> FALSE, missed |-> FALSE]
  /\ session = [status |-> "running", muted |-> FALSE, pty |-> 0, stream |-> "open",
                reading |-> FALSE, overtaken |-> FALSE, dropped |-> FALSE]
  /\ others = OthersFirst
  /\ BarInit(FirstSize, NoList)
  /\ typed = <<>> /\ reader = NewReader(FALSE) /\ menu = ClosedMenu
  /\ connection = "open" /\ detach = "no"
  /\ winch = [pc |-> "off", rows |-> 0, size |-> NoSize]
  /\ main = "attach" /\ outcome = Attached /\ events = [key |-> 0, item |-> 0, change |-> 0]

Running == outcome = Attached
Limit == [key |-> MaxKeys, item |-> MaxItems, change |-> MaxChanges]
Event(kind) ==
  /\ Running /\ events[kind] < Limit[kind]
  /\ events.key + events.item + events.change < MaxEvents
  /\ events' = [events EXCEPT ![kind] = @ + 1]

-----------------------------------------------------------------------------
(* AttachClient, up to the copy. *)

\* The request to attach carries the size read before it.
Attach ==
  /\ Running /\ main = "attach"
  /\ \/ /\ session.status = "running"
        /\ session' = [session EXCEPT !.pty = Normalized(ContentRows(bar)), !.reading = TRUE]
        /\ reader' = NewReader(session.muted)
        /\ bar' = [bar EXCEPT !.content.muted = session.muted]
        /\ main' = "draw" /\ UNCHANGED outcome
     \/ /\ session.status # "running"
        /\ outcome' = Outcome("rejected", NoSession)
        /\ UNCHANGED <<session, reader, bar, main>>
  /\ UNCHANGED <<typed, menu, connection, detach, others, screen, writing, window, winch, events>>

\* initializeAttachStatusBar; then watchAttachStatus starts.
Draw ==
  /\ Running /\ main = "draw"
  /\ \E list \in {Listed, bar.content} :
       Render(Pending([bar EXCEPT !.content = list]), screen, writing)
  /\ main' = "notify"
  /\ UNCHANGED <<inputVars, daemonVars, window, winch, outcome, events>>

\* signal.Notify; the window and the input are followed from here on.
Notify ==
  /\ Running /\ main = "notify"
  /\ winch' = [winch EXCEPT !.pc = "wait"]
  /\ main' = "copy"
  /\ UNCHANGED <<inputVars, daemonVars, barVars, window, outcome, events>>

-----------------------------------------------------------------------------
(* The copy and what follows it. *)

\* A chunk of the session's output reaches the terminal through Write.
CopyChunk ==
  /\ Running /\ main = "copy" /\ connection = "open" /\ session.stream = "open"
  /\ \/ WriteRest /\ UNCHANGED events
     \/ WriteFresh /\ Event("item")
  /\ main' = IF bar'.handoff = NoSession THEN main ELSE "decide"
  /\ UNCHANGED <<inputVars, daemonVars, window, winch, outcome>>

CopyEnds ==
  /\ Running /\ main = "copy" /\ (connection = "closed" \/ session.stream = "closed")
  /\ main' = "decide"
  /\ UNCHANGED <<inputVars, daemonVars, barVars, window, winch, outcome, events>>

Ends(kind, target) == Close /\ outcome' = Outcome(kind, target) /\ UNCHANGED main
GoesOn(at) == UNCHANGED <<barVars, outcome>> /\ main' = at

Decide ==
  /\ Running /\ main = "decide"
  /\ IF bar.handoff # NoSession THEN Ends("handoff", bar.handoff) ELSE GoesOn("select")
  /\ UNCHANGED <<inputVars, daemonVars, window, winch, events>>

\* Frames the daemon had not read when it closed make the copy fail.
Select ==
  /\ Running /\ main = "select"
  /\ IF detach = "yes" THEN Ends("detached", NoSession)
     ELSE \/ GoesOn("fallback")
          \/ connection = "open" /\ Ends("failed", NoSession)
  /\ UNCHANGED <<inputVars, daemonVars, window, winch, events>>

\* Mutant of FallbackTarget: a session the list has lost has no place in it.
FallbackOfListed ==
  LET older == {s \in others : s < Self}
      last(S) == CHOOSE s \in S : \A t \in S : t <= s
      first(S) == CHOOSE s \in S : \A t \in S : s <= t
  IN IF others = {} \/ session.status # "ended" THEN NoSession
     ELSE IF older # {} THEN last(older) ELSE first(others)
\* selectEndedSessionFallback: the nearest older session, else the next newer;
\* the newest when the list has lost this one; none while it still runs.
FallbackTarget ==
  LET older == {s \in others : s < Self}
      last(S) == CHOOSE s \in S : \A t \in S : t <= s
      first(S) == CHOOSE s \in S : \A t \in S : s <= t
  IN IF others = {} \/ session.status = "running" THEN NoSession
     ELSE IF session.status = "gone" THEN last(others)
     ELSE IF older # {} THEN last(older) ELSE first(others)

\* The list may not be had; then there is no fallback either.
Fallback ==
  /\ Running /\ main = "fallback"
  /\ \/ Ends("unlisted", NoSession)
     \/ IF FallbackTarget = NoSession THEN Ends("left", NoSession)
        ELSE Ends("fallback", FallbackTarget)
  /\ UNCHANGED <<inputVars, daemonVars, window, winch, events>>

-----------------------------------------------------------------------------
(* The goroutines beside it. *)

TakeSignal ==
  /\ Running /\ winch.pc = "wait" /\ window.signal
  /\ window' = [window EXCEPT !.signal = FALSE]
  /\ winch' = [winch EXCEPT !.pc = "resize", !.rows = window.rows]
  /\ UNCHANGED <<inputVars, daemonVars, barVars, main, outcome, events>>

ResizeBar ==
  /\ Running /\ winch.pc = "resize"
  /\ Resize(winch.rows)
  /\ winch' = [winch EXCEPT !.pc = "size"]
  /\ UNCHANGED <<inputVars, daemonVars, window, main, outcome, events>>

\* Mutant of ReadContentRows: the height comes from the window, not from the bar.
ReadWindowRows ==
  /\ Running /\ winch.pc = "size"
  /\ winch' = [winch EXCEPT !.pc = "send",
                            !.size = SizeOf(winch.rows - IF Visible(winch.rows) THEN 1 ELSE 0)]
  /\ UNCHANGED <<inputVars, daemonVars, barVars, window, main, outcome, events>>
ReadContentRows ==
  /\ Running /\ winch.pc = "size"
  /\ winch' = [winch EXCEPT !.pc = "send", !.size = SizeOf(ContentRows(bar))]
  /\ UNCHANGED <<inputVars, daemonVars, barVars, window, main, outcome, events>>

SendResize ==
  /\ Running /\ winch.pc = "send"
  /\ Frame("resize", winch.size)
  /\ winch' = [pc |-> "wait", rows |-> 0, size |-> NoSize]
  /\ UNCHANGED <<inputVars, others, barVars, window, main, outcome, events>>

\* watchAttachStatus, every two seconds.  The list is used as soon as it is
\* fetched: an older one would only be shown until the next.
UpdateFooter ==
  /\ Running /\ main \notin {"attach", "draw"}
  /\ UpdateSessions(Listed)
  /\ UNCHANGED <<inputVars, daemonVars, window, winch, main, outcome, events>>

Input ==
  /\ Running /\ main \notin {"attach", "draw", "notify"}
  /\ InputStep
  /\ UNCHANGED outerVars

-----------------------------------------------------------------------------
(* Around the client. *)

\* Input typed before the client reads it waits in the terminal.
TypeKey ==
  /\ Event("key")
  /\ \E key \in Keys : Len(typed) + Len(key) <= MaxTyped /\ typed' = typed \o key
  /\ UNCHANGED <<reader, menu, connection, detach, daemonVars, barVars,
                 window, winch, main, outcome>>

ResizeWindow ==
  /\ Event("change")
  /\ \E rows \in Sizes \ {window.rows} :
       window' = [rows |-> rows, signal |-> winch.pc # "off",
                  missed |-> winch.pc = "off"]
  /\ WindowChanges
  /\ UNCHANGED <<inputVars, daemonVars, winch, main, outcome>>

\* Other sessions start and end, other clients mute this one, and it may end:
\* its record says so before closeSubscribers ends the stream, or it is deleted.
OtherChanges ==
  /\ Event("change")
  /\ \/ \E s \in others : others' = others \ {s}
     \/ \E s \in Sessions : Newest(s) /\ others' = others \cup {s}
  /\ UNCHANGED <<inputVars, session, barVars, window, winch, main, outcome>>

SessionChanges ==
  /\ Event("change")
  /\ \/ session.status = "running" /\ session' = [session EXCEPT !.muted = ~@]
     \/ session.status = "running" /\ session' = [session EXCEPT !.status = "ended"]
     \/ session.status = "ended" /\ session' = [session EXCEPT !.status = "gone"]
  /\ UNCHANGED <<inputVars, others, barVars, window, winch, main, outcome>>

\* handleAttach returns: the session is over, the client said or broke
\* something, or its output was more than it read.
StreamEnds ==
  /\ Running /\ session.stream = "open" /\ main # "attach"
  /\ session.status # "running" \/ ~session.reading
  /\ session' = [session EXCEPT !.stream = "closed", !.reading = FALSE,
                                !.dropped = session.status = "running"]
  /\ UNCHANGED <<inputVars, others, barVars, outerVars>>

DropClient ==
  /\ Event("change") /\ session.stream = "open" /\ main # "attach"
  /\ session' = [session EXCEPT !.stream = "closed", !.reading = FALSE, !.dropped = TRUE]
  /\ UNCHANGED <<inputVars, others, barVars, window, winch, main, outcome>>

\* The process is replaced or exits.
Returned == ~Running /\ UNCHANGED vars

MainStep == Attach \/ Draw \/ Notify \/ CopyChunk \/ CopyEnds \/ Decide \/ Select \/ Fallback
Beside == TakeSignal \/ ResizeBar \/ ReadContentRows \/ SendResize \/ UpdateFooter
Outside == TypeKey \/ ResizeWindow \/ OtherChanges \/ SessionChanges \/ StreamEnds \/ DropClient

\* Handling a byte touches nothing that another goroutine reads: nothing is
\* let in between, which changes no state a property is about.
Next ==
  \/ Input
  \/ ~Ready /\ (MainStep \/ Beside \/ Outside)
  \/ Returned

Spec == Init /\ [][Next]_vars
-----------------------------------------------------------------------------
(* Properties. *)

\* Falkn never writes inside a character or sequence of the session, wherever
\* the chunks of its output were cut (Write, safeBoundary).
StreamIntact == ~screen.torn

\* Whenever the session is between two sequences the footer on the screen is
\* the one the bar would draw, with the switcher above it, on the rows the
\* scroll region leaves out and on no others; also after the session erased
\* the screen or reset the region, and once a resize of the window is handled
\* (renderLocked).
FooterCurrent ==
  ~bar.closed /\ bar.handoff = NoSession /\ main \notin {"attach", "draw"}
  /\ ~Cut(writing) /\ ~window.missed /\ ~window.signal /\ winch.pc # "resize"
  => IF Visible(bar.rows)
     THEN /\ screen.footer = Footer(bar) /\ screen.menu = bar.menu
          /\ screen.bottom = ContentRows(bar)
          /\ screen.inked = (ContentRows(bar) + 1)..bar.rows
     ELSE screen.bottom = Whole /\ screen.inked = {}

\* The rows Falkn draws on were taken from the session first, so nothing of its
\* output is covered (claimRowsLocked); closing a switcher before the rows left
\* to the footer were taken, in a window too small for it or grown again inside
\* a sequence, spoils the count until the window is that small again.
NothingCovered == screen.footer.shown /\ ~screen.blind => screen.freed >= 1 + screen.menu.count

Settled == main = "copy" /\ session.reading /\ connection = "open"
           /\ Waiting /\ winch.pc = "wait" /\ ~window.signal

\* When everything has been handled the bar has the size of the window and the
\* session the rows the bar leaves it, whichever of the two goroutines changed
\* them last; except for a window that changed before the client asked for
\* SIGWINCH, and a resize frame that was overtaken by a newer one.
GeometryAgrees ==
  Settled => /\ bar.rows = window.rows \/ window.missed
             /\ session.pty = Normalized(ContentRows(bar) % 65536) \/ session.overtaken

\* While the input waits, the bar shows the switcher exactly when it is open,
\* with the right line selected, unless a resize took it off the screen; and the
\* footer says whether a prefix is held, whatever the status poll wrote
\* meanwhile (repaint, reportPrefixState, updateSessions).
SwitcherShown == bar.menu = Lines \/ (menu.open /\ screen.hid /\ bar.menu = NoLines)
PrefixShown == bar.content.armed = (reader.mode # "idle")
InputShown == Waiting /\ Running => SwitcherShown /\ PrefixShown

\* An open switcher has the keyboard: nothing typed is on its way to the
\* session, and no prefix is held (menuController, consume).
MenuOwnsKeyboard == menu.open => reader.out = <<>> /\ reader.mode = "idle"

\* A session that ends while others run never drops its user to the host
\* shell: when AttachClient returns with nowhere to go, no other session runs or
\* the stream ended while this one did (selectEndedSessionFallback).
StaysInFalkn ==
  outcome.kind = "left" => others = {} \/ session.dropped \/ connection = "closed"

\* And a stream that closes while the session runs is not an exit: it never
\* makes the client switch.
SwitchesOnlyAtExit == outcome.kind = "fallback" => session.status # "running"
LeavesOnlyAtExit == StaysInFalkn /\ SwitchesOnlyAtExit

\* However it ends, the client gives the whole screen back, unless the session
\* stopped in the middle of a sequence (close).
RestoredAtExit ==
  ~Running /\ ~Cut(writing) =>
    screen.bottom = Whole /\ screen.footer = NoFooter /\ screen.inked = {}

\* What the reader holds back of a prefixed key, and what it may keep.
Held(r) == CASE r.mode = "idle" -> <<>>
             [] r.mode = "armed" -> <<"PRE">>
             [] r.mode = "escape" -> <<"PRE", "ESC">>
             [] r.mode = "sequence" -> <<"PRE", "ESC", r.introducer>>

Commands ==
  {<<"PRE", b>> : b \in {"q", "m", "n"} \cup Digits}
  \cup {<<"PRE", "ESC", i, b>> : i \in {"[", "O"}, b \in {"A", "B", "C", "D"}}
  \cup {<<"ESC", "[", b>> : b \in {"I", "O"}}

\* Every byte typed goes to the session in its place, or is held, or completes
\* one of the keys Falkn documents; pressing the prefix twice gives it once
\* (attachInputReader).
KeepsKeys ==
  LET taken == SubSeq(reader.data, 1, Len(reader.data) - Len(reader'.data))
      before == reader.out \o Held(reader) \o taken
      after == reader'.out \o Held(reader')
  IN \/ after = before
     \/ \E command \in Commands : before = reader.out \o command /\ after = reader.out
     \/ before = reader.out \o <<"PRE", "PRE">> /\ after = reader.out \o <<"PRE">>

KeysIntact == [][Plain \/ (Ready /\ ~OpenMenu /\ AtFocusReport) => KeepsKeys]_reader

===============================================================================
