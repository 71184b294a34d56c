----------------------------- MODULE AttachInput -----------------------------
(***************************************************************************)
(* The input side of the attach client: the reader that takes prefixed     *)
(* keys out of what is typed (attach_input.go), the session switcher       *)
(* (attach_menu.go) and the frames they send (attach_client.go).           *)
(*                                                                         *)
(* A byte is handled in one step; the calls it leads to, each of which     *)
(* takes a lock, writes to the connection or asks the daemon, wait in      *)
(* reader.calls and are steps of their own.                                *)
(***************************************************************************)
EXTENDS StatusBar, Integers

CONSTANTS
  Self,            \* the session this client is attached to
  Normalized(_)    \* the rows the session's terminal gets for a size asked for

VARIABLES
  typed,       \* bytes the terminal has and the client has not read
  reader,      \* attachInputReader, the rest of its read and its calls to come
  menu,        \* attachMenu
  connection,  \* the client's end of the attach connection: open, closed
  detach,      \* prefix-q: no, sent (the frame is), yes (detachRequested is full)
  session,     \* the daemon's end: the session, its size and its mute
  others       \* the other sessions that run

inputVars == <<typed, reader, menu, connection, detach>>
daemonVars == <<session, others>>

End == "end"   \* marks the end of a read in reader.data
Digits == {"1", "2", "3"}
Digit(b) == CHOOSE d \in 1..3 : b = <<"1", "2", "3">>[d]

ClosedMenu == [open |-> FALSE, sessions |-> {}, selection |-> 0]

\* The rows to ask for, and how many the bar left when they were read.
SizeOf(rows) == [rows |-> rows, of |-> ContentRows(bar)]
NoSize == [rows |-> 0, of |-> 0]

NewReader(muted) ==
  [mode |-> "idle", introducer |-> "[", menuMode |-> "idle", out |-> <<>>,
   reported |-> FALSE, data |-> <<>>, calls |-> <<>>, muted |-> muted,
   request |-> [step |-> 0, index |-> 0], target |-> NoSession, size |-> NoSize,
   stopped |-> FALSE]


\* switchableSessions, numbered from 1 in the order of creation.
Switchable == others \cup IF session.status = "running" THEN {Self} ELSE {}
Number(running, s) == Cardinality({t \in running : t <= s})
Newest(s) == \A t \in others \cup {Self} : t < s
Nth(running, n) == CHOOSE s \in running : Number(running, s) = n

\* selectSwitchTarget.
SwitchTarget(running, request) ==
  LET count == Cardinality(running)
      current == IF Self \in running THEN Number(running, Self)
                 ELSE IF request.step < 0 THEN 1 ELSE count
  IN IF running = {} THEN NoSession
     ELSE IF request.step # 0
     THEN Nth(running, ((current - 1 + request.step) % count) + 1)
     ELSE IF request.index \in 1..count THEN Nth(running, request.index)
     ELSE NoSession

\* Whether writing a frame may succeed.
Sends == IF connection = "closed" THEN {FALSE}
         ELSE IF session.stream = "open" THEN {TRUE} ELSE BOOLEAN

\* What readAttachFrames does with a frame: none is read after a detach, and
\* one about a session that is over ends the attachment.
Frame(kind, value) ==
  session' =
    IF connection = "closed" \/ ~session.reading THEN session
    ELSE IF kind = "detach" \/ session.status # "running"
    THEN [session EXCEPT !.reading = FALSE]
    ELSE IF kind = "resize"
    THEN [session EXCEPT !.pty = Normalized(value.rows % 65536),
                         !.overtaken = value.of # ContentRows(bar)]
    ELSE IF kind = "mute" THEN [session EXCEPT !.muted = value]
    ELSE session

-----------------------------------------------------------------------------
(* Reading. *)

Waiting == reader.data = <<>> /\ reader.calls = <<>> /\ ~reader.stopped

\* A read returns some of what is typed.
ReadInput ==
  /\ Waiting
  /\ \E n \in 1..Len(typed) :
       /\ reader' = [reader EXCEPT !.data = SubSeq(typed, 1, n) \o <<End>>]
       /\ typed' = SubSeq(typed, n + 1, Len(typed))
  /\ UNCHANGED <<menu, connection, detach, session, others, barVars>>

Byte == Head(reader.data)
Ready == reader.calls = <<>> /\ reader.data # <<>> /\ ~reader.stopped
\* Mutant of OpenMenu: the rest of a key is read as if the escape had closed it.
OpenMenuButEscape == menu.open /\ reader.mode = "idle" /\ reader.menuMode = "idle"
OpenMenu == menu.open /\ reader.mode = "idle"
Unmoved == UNCHANGED <<typed, connection, detach, session, others, barVars>>

\* The reader after n bytes, with calls to make before the next one.  menuMode
\* lasts no longer than the switcher.
After(n, calls) ==
  [reader EXCEPT !.data = SubSeq(@, n + 1, Len(@)), !.calls = calls,
                 !.menuMode = IF menu.open THEN @ ELSE "idle"]
Flush == IF reader.out = <<>> THEN <<>> ELSE <<"flush">>
LastFlush == IF reader.out = <<>> THEN <<>> ELSE <<"lastFlush">>
Reports == IF (reader.mode # "idle") = reader.reported THEN <<>> ELSE <<"report">>
Repaint == <<"lines", "size", "resize">>

\* consume, after the last byte.
EndOfRead ==
  /\ Ready /\ Byte = End
  /\ reader' = [reader EXCEPT !.data = <<>>, !.calls = Reports \o LastFlush]
  /\ UNCHANGED menu /\ Unmoved

\* A focus report that came in one read.
AtFocusReport ==
  /\ reader.mode = "idle" /\ Len(reader.data) >= 3
  /\ Byte = "ESC" /\ reader.data[2] = "[" /\ reader.data[3] \in {"I", "O"}

FocusReport ==
  /\ Ready /\ ~OpenMenu /\ AtFocusReport
  /\ reader' = After(3, LastFlush \o <<"focus">>)
  /\ UNCHANGED menu /\ Unmoved

Plain == Ready /\ Byte # End /\ ~OpenMenu /\ ~AtFocusReport

Forward(bytes) == [After(1, <<>>) EXCEPT !.mode = "idle", !.out = @ \o bytes]
Hold(mode) == [After(1, <<>>) EXCEPT !.mode = mode]
Claim(calls) == [After(1, calls) EXCEPT !.mode = "idle"]

\* consumeByte with no prefix held.
IdleByte ==
  /\ Plain /\ reader.mode = "idle"
  /\ reader' = IF Byte = "PRE" THEN Hold("armed") ELSE Forward(<<Byte>>)
  /\ UNCHANGED menu /\ Unmoved

\* consumeArmed.
ArmedByte ==
  /\ Plain /\ reader.mode = "armed"
  /\ reader' =
       CASE Byte = "q" -> Claim(<<"tryFlush", "detach", "onDetach", "close", "report", "stop">>)
         [] Byte = "m" -> Claim(Flush \o <<"mute", "muted">>)
         [] Byte = "n" -> Claim(Flush \o <<"new">>)
         [] Byte \in Digits ->
              [Claim(Flush \o <<"switch">>) EXCEPT !.request = [step |-> 0, index |-> Digit(Byte)]]
         [] Byte = "ESC" -> Hold("escape")
         [] Byte = "PRE" -> Forward(<<"PRE">>)
         [] OTHER -> Forward(<<"PRE", Byte>>)
  /\ UNCHANGED menu /\ Unmoved

\* Mutant of EscapeByte: the prefix it held back is lost.
EscapeByteWithoutPrefix ==
  /\ Plain /\ reader.mode = "escape"
  /\ reader' = IF Byte \in {"[", "O"}
               THEN [Hold("sequence") EXCEPT !.introducer = Byte]
               ELSE Forward(<<"ESC", Byte>>)
  /\ UNCHANGED menu /\ Unmoved
EscapeByte ==
  /\ Plain /\ reader.mode = "escape"
  /\ reader' = IF Byte \in {"[", "O"}
               THEN [Hold("sequence") EXCEPT !.introducer = Byte]
               ELSE Forward(<<"PRE", "ESC", Byte>>)
  /\ UNCHANGED menu /\ Unmoved

\* consumeSequence.
SequenceByte ==
  /\ Plain /\ reader.mode = "sequence"
  /\ reader' =
       CASE Byte \in {"C", "D"} ->
              [Claim(Flush \o <<"switch">>) EXCEPT
                 !.request = [step |-> IF Byte = "D" THEN -1 ELSE 1, index |-> 0]]
         [] Byte \in {"A", "B"} -> Claim(Flush \o <<"toggle">>)
         [] OTHER -> Forward(<<"PRE", "ESC", reader.introducer, Byte>>)
  /\ UNCHANGED menu /\ Unmoved

-----------------------------------------------------------------------------
(* The switcher. *)

\* linesLocked: a line per session, up to menuMaximumRows, and one below them.
MenuMaximumRows == 12
LinesFor(sessions) ==
  1 + IF Cardinality(sessions) > MenuMaximumRows THEN MenuMaximumRows
      ELSE Cardinality(sessions)
Lines == IF menu.open
         THEN [count |-> LinesFor(menu.sessions), selected |-> menu.selection]
         ELSE NoLines

\* attachMenu.move, close and choose, of a reader that has taken its bytes.
Move(delta, r) ==
  /\ menu' = [menu EXCEPT !.selection = (@ + delta) % Cardinality(menu.sessions)]
  /\ reader' = [r EXCEPT !.calls = Repaint]
CloseMenu(r) == menu' = ClosedMenu /\ reader' = [r EXCEPT !.calls = Repaint]
Choose(selection, r) ==
  LET chosen == Nth(menu.sessions, selection + 1)
  IN /\ menu' = ClosedMenu
     /\ reader' = [r EXCEPT !.target = chosen, !.calls =
                     Repaint \o IF chosen = Self THEN <<>> ELSE <<"handoff">>]

\* consumeMenuByte.
MenuByte ==
  /\ Ready /\ Byte # End /\ OpenMenu /\ reader.menuMode = "idle"
  /\ LET took == After(1, <<>>)
     IN CASE Byte = "ESC" -> reader' = [took EXCEPT !.menuMode = "escape"] /\ UNCHANGED menu
          [] Byte = "CR" -> Choose(menu.selection, took)
          [] Byte = "k" -> Move(-1, took)
          [] Byte = "j" -> Move(1, took)
          [] Byte \in Digits /\ Digit(Byte) <= Cardinality(menu.sessions) ->
               Choose(Digit(Byte) - 1, took)
          [] Byte \in {"q", "ETX", "PRE"} -> CloseMenu(took)
          [] OTHER -> reader' = took /\ UNCHANGED menu
  /\ Unmoved

\* An escape that stood alone closes the switcher; the byte after it is read
\* again, as one for the session.
MenuEscape ==
  /\ Ready /\ Byte # End /\ OpenMenu /\ reader.menuMode = "escape"
  /\ IF Byte \in {"[", "O"}
     THEN reader' = [After(1, <<>>) EXCEPT !.menuMode = "sequence"] /\ UNCHANGED menu
     ELSE CloseMenu([After(0, <<>>) EXCEPT !.menuMode = "idle"])
  /\ Unmoved

MenuSequence ==
  /\ Ready /\ Byte # End /\ OpenMenu /\ reader.menuMode = "sequence"
  /\ LET took == [After(1, <<>>) EXCEPT !.menuMode = "idle"]
     IN CASE Byte = "A" -> Move(-1, took)
          [] Byte = "B" -> Move(1, took)
          [] OTHER -> reader' = took /\ UNCHANGED menu
  /\ Unmoved

\* resolveMenuEscape, when nothing came within menuEscapeGrace.
GracePasses ==
  /\ Waiting /\ reader.menuMode = "escape"
  /\ LET settled == [reader EXCEPT !.menuMode = "idle"]
     IN IF menu.open THEN CloseMenu(settled) ELSE reader' = settled /\ UNCHANGED menu
  /\ Unmoved

-----------------------------------------------------------------------------
(* The calls. *)

Calls(call) == reader.calls # <<>> /\ Head(reader.calls) = call
Called == [reader EXCEPT !.calls = Tail(@)]
Over == [Called EXCEPT !.request = [step |-> 0, index |-> 0], !.target = NoSession]
Failed == [reader EXCEPT !.calls = <<"report", "stop">>]
Quiet == UNCHANGED <<typed, menu, connection, detach, session, others>>

\* flush: prefix-q goes on when it fails, anything else stops the reader.
FlushOut ==
  /\ \E flush \in {"flush", "lastFlush", "tryFlush"} :
       /\ Calls(flush)
       /\ IF reader.out = <<>>
          THEN reader' = Called /\ UNCHANGED session
          ELSE /\ Frame("input", 0)
               /\ \E ok \in Sends :
                    reader' = [reader EXCEPT !.out = <<>>, !.calls =
                      IF ok \/ flush = "tryFlush" THEN Tail(@)
                      ELSE IF flush = "flush" THEN <<"report", "stop">> ELSE <<"stop">>]
  /\ UNCHANGED <<typed, menu, connection, detach, others, barVars>>

\* reportPrefixState.
Report ==
  LET armed == reader.mode # "idle"
  IN /\ Calls("report")
     /\ reader' = [Called EXCEPT !.reported = armed]
     /\ IF armed = reader.reported THEN UNCHANGED barVars ELSE SetPrefixArmed(armed)
     /\ Quiet

FocusFrame ==
  /\ Calls("focus") /\ reader' = Called /\ Frame("focus", 0)
  /\ UNCHANGED <<typed, menu, connection, detach, others, barVars>>

ToggleMute ==
  /\ Calls("mute") /\ Frame("mute", ~reader.muted)
  /\ \E ok \in Sends :
       reader' = [(IF ok THEN Called ELSE Failed) EXCEPT !.muted = ~@]
  /\ UNCHANGED <<typed, menu, connection, detach, others, barVars>>

ShowMute ==
  /\ Calls("muted") /\ reader' = Called
  /\ SetNotificationsMuted(reader.muted) /\ Quiet

\* toggle: the daemon may not answer, or list nothing to switch to.
Toggle ==
  /\ Calls("toggle")
  /\ \/ menu.open /\ CloseMenu(reader)
     \/ ~menu.open /\ reader' = Called /\ UNCHANGED menu
     \/ /\ ~menu.open /\ Switchable # {}
        /\ menu' = [open |-> TRUE, sessions |-> Switchable,
                    selection |-> IF Self \in Switchable
                                  THEN Number(Switchable, Self) - 1 ELSE 0]
        /\ reader' = [reader EXCEPT !.calls = Repaint]
  /\ Unmoved

\* repaint: the bar draws the switcher, then the session learns its size.
PaintLines == Calls("lines") /\ reader' = Called /\ SetMenuLines(Lines) /\ Quiet
ReadSize ==
  /\ Calls("size") /\ reader' = [Called EXCEPT !.size = SizeOf(ContentRows(bar))]
  /\ Quiet /\ UNCHANGED barVars
SendSize ==
  /\ Calls("resize") /\ reader' = [Called EXCEPT !.size = NoSize] /\ Frame("resize", reader.size)
  /\ UNCHANGED <<typed, menu, connection, detach, others, barVars>>

\* switchAttachedSession, with a list fetched for it.
Switch ==
  /\ Calls("switch")
  /\ \/ reader' = Over
     \/ LET chosen == SwitchTarget(Switchable, reader.request)
        IN /\ chosen \notin {NoSession, Self}
           /\ reader' = [Over EXCEPT !.target = chosen, !.calls = <<"handoff">>]
  /\ UNCHANGED barVars /\ Quiet

\* createAttachedSession: the new session is the latest.
CreateSession ==
  /\ Calls("new")
  /\ \/ reader' = Called /\ UNCHANGED others
     \/ \E new \in Sessions :
          /\ session.status # "gone" /\ Newest(new)
          /\ others' = others \cup {new}
          /\ reader' = [reader EXCEPT !.target = new, !.calls = <<"handoff">>]
  /\ UNCHANGED <<typed, menu, connection, detach, session, barVars>>

Handoff ==
  /\ Calls("handoff")
  /\ IF bar.handoff = NoSession
     THEN RequestHandoff(reader.target) /\ reader' = [Over EXCEPT !.calls = <<"detach", "close">>]
     ELSE UNCHANGED barVars /\ reader' = Over
  /\ Quiet

SendDetach ==
  /\ Calls("detach") /\ reader' = Called /\ Frame("detach", 0)
  /\ detach' = IF reader.calls[2] = "onDetach" THEN "sent" ELSE detach
  /\ UNCHANGED <<typed, menu, connection, others, barVars>>

RequestDetach ==
  /\ Calls("onDetach") /\ reader' = Called /\ detach' = "yes"
  /\ UNCHANGED <<typed, menu, connection, session, others, barVars>>

CloseConnection ==
  /\ Calls("close") /\ reader' = Called /\ connection' = "closed"
  /\ UNCHANGED <<typed, menu, detach, session, others, barVars>>

StopReading ==
  /\ Calls("stop")
  /\ reader' = [reader EXCEPT !.calls = <<>>, !.data = <<>>, !.stopped = TRUE]
  /\ UNCHANGED barVars /\ Quiet

ConsumeStep ==
  \/ EndOfRead \/ FocusReport \/ IdleByte \/ ArmedByte \/ EscapeByte
  \/ SequenceByte \/ MenuByte \/ MenuEscape \/ MenuSequence

CallStep ==
  \/ FlushOut \/ Report \/ FocusFrame \/ ToggleMute \/ ShowMute \/ Toggle
  \/ PaintLines \/ ReadSize \/ SendSize \/ Switch \/ CreateSession \/ Handoff
  \/ SendDetach \/ RequestDetach \/ CloseConnection \/ StopReading

InputStep == ReadInput \/ GracePasses \/ ConsumeStep \/ CallStep
===============================================================================
