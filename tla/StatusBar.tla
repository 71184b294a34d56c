------------------------------ MODULE StatusBar ------------------------------
(***************************************************************************)
(* The attach client's status bar (internal/server/status_bar.go): every   *)
(* byte the session writes passes through its Write, every row Falkn draws *)
(* is drawn by its renderLocked.  An action is one of its methods, which   *)
(* bar.mu makes atomic; the actions that call them are in AttachInput and  *)
(* AttachClient.                                                           *)
(*                                                                         *)
(* `bar` is the structure of the program, `screen` what the terminal shows *)
(* of it.  Columns only decide with the rows whether the footer is shown;  *)
(* the model keeps the rows.                                               *)
(***************************************************************************)
EXTENDS TerminalStream, FiniteSets

CONSTANTS
  MinimumRows,   \* minimumStatusBarRows
  Sessions,      \* the sessions of the daemon, 1..n in the order of creation
  Nested,        \* the session a nested `falkn open` asks for
  Items          \* what the session may write: characters and sequences

\* An item is whole: the parser is between two of them at its end and nowhere
\* before. This takes it that the terminal ends a sequence where the parser does.
IsItem(bytes) ==
  /\ bytes \in Seq(Bytes) \ {<<>>}
  /\ \A n \in 1..Len(bytes) :
       Consume(Ground, SubSeq(bytes, 1, n)) = Ground <=> n = Len(bytes)
ItemsAssumption == \A item \in Items : IsItem(item)
ASSUME ItemsAreWhole == ItemsAssumption

NoSession == 0
Whole == 0   \* the last row of a scroll region that spans the screen
NoLines == [count |-> 0, selected |-> 0]
NoFooter == [shown |-> FALSE]

VARIABLES
  bar,      \* attachStatusBar
  screen,   \* the terminal: scroll region, Falkn's rows and what is in them
  writing   \* the character or sequence the session is writing, how much is out

barVars == <<bar, screen, writing>>

Visible(rows) == rows >= MinimumRows
Reserved(b) == IF Visible(b.rows) THEN 1 + b.menu.count ELSE 0
ContentRows(b) == b.rows - Reserved(b)
Cut(w) == w.sent < Len(w.item)   \* a character or sequence is half written

\* What statusBarLine is made from.
Footer(b) == [shown |-> TRUE, content |-> b.content, open |-> b.menu.count > 0]

\* newAttachStatusBar and setPrefixName.
NewBar(rows, content) ==
  [rows |-> rows, menu |-> NoLines, content |-> content, dirty |-> TRUE,
   claimed |-> 0, pending |-> TRUE, clear |-> {}, stream |-> Ground,
   tail |-> <<>>, handoff |-> NoSession, closed |-> FALSE]

\* The terminal as the session has it to itself.  `inked` are the rows with
\* something of Falkn in them, `freed` how many rows at the bottom the session
\* was made to leave; `torn` remembers that Falkn wrote inside a sequence of the
\* session, `hid` that a resize took an open switcher off the screen, `blind`
\* that a switcher was closed before the rows left to the footer were taken.
BareScreen ==
  [bottom |-> Whole, footer |-> NoFooter, menu |-> NoLines, inked |-> {},
   freed |-> 0, torn |-> FALSE, hid |-> FALSE, blind |-> FALSE]

BarInit(rows, content) ==
  /\ bar = NewBar(rows, content)
  /\ screen = BareScreen
  /\ writing = [item |-> <<"t">>, sent |-> 1]

\* clearLocked of each of some rows: it leaves the whole screen scrolling.
Wiped(s, rows, w) ==
  IF rows = {} THEN s
  ELSE [s EXCEPT !.bottom = Whole, !.inked = @ \ rows, !.torn = @ \/ Cut(w)]

\* claimRowsLocked and the frame renderLocked writes.
Drawn(b, s, w) ==
  [s EXCEPT !.bottom = IF b.dirty THEN ContentRows(b) ELSE @,
            !.footer = Footer(b), !.menu = b.menu,
            !.inked = @ \cup (ContentRows(b) + 1)..b.rows,
            !.freed = IF Reserved(b) > b.claimed THEN @ + Reserved(b) - b.claimed
                      ELSE IF Reserved(b) < @ THEN Reserved(b) ELSE @,
            !.torn = @ \/ Cut(w)]

\* renderLocked of the bar b on the screen s, when the session has written w.
Render(b, s, w) ==
  LET wiped == Wiped(s, b.clear, w)
  IN /\ writing' = w
     /\ IF b.closed \/ ~SafeBoundary(b.stream) \/ (~b.pending /\ b.clear = {})
        THEN bar' = b /\ screen' = s
        ELSE IF Visible(b.rows)
        THEN /\ bar' = [b EXCEPT !.clear = {}, !.dirty = FALSE, !.pending = FALSE,
                                 !.claimed = Reserved(b)]
             /\ screen' = Drawn(b, wiped, w)
        ELSE /\ bar' = [b EXCEPT !.clear = {}, !.pending = FALSE]
             /\ screen' = wiped

Pending(b) == [b EXCEPT !.pending = TRUE]

\* What the items completed by a chunk do to the terminal.
Shown(s, items) ==
  LET erased == items \cap {<<"ESC", "[", "J">>, <<"ESC", "c">>} # {}
      unbound == items \cap {<<"ESC", "[", "r">>, <<"ESC", "c">>} # {}
  IN [s EXCEPT !.bottom = IF unbound THEN Whole ELSE @,
               !.footer = IF erased THEN NoFooter ELSE @,
               !.menu = IF erased THEN NoLines ELSE @,
               !.inked = IF erased THEN {} ELSE @]

\* Write of a chunk that ends inside `item` or at its end; `done` are the items
\* it completes.  A handoff ends the copy before the footer is drawn again.
Write(chunk, item, sent, done) ==
  LET seen == bar.tail \o chunk
      reset == ResetsLayout(seen)
      b == [bar EXCEPT !.dirty = @ \/ reset, !.pending = @ \/ reset,
                       !.stream = Consume(@, chunk), !.tail = TailOf(seen),
                       !.handoff = IF @ = NoSession /\ AsksHandoff(seen)
                                   THEN Nested ELSE @]
      w == [item |-> item, sent |-> sent]
  IN IF b.handoff # NoSession
     THEN bar' = b /\ screen' = Shown(screen, done) /\ writing' = w
     ELSE Render(b, Shown(screen, done), w)

\* A chunk ends anywhere: in the rest of what is being written, or in something
\* new that follows it.
Rest == SubSeq(writing.item, writing.sent + 1, Len(writing.item))

WriteRest ==
  \E n \in 1..Len(Rest) :
    Write(SubSeq(Rest, 1, n), writing.item, writing.sent + n,
          IF n = Len(Rest) THEN {writing.item} ELSE {})

WriteFresh ==
  \E item \in Items : \E n \in 1..Len(item) :
    Write(Rest \o SubSeq(item, 1, n), item, n,
          (IF Rest = <<>> THEN {} ELSE {writing.item})
            \cup IF n = Len(item) THEN {item} ELSE {})

\* setMenuLines: rows the switcher gives back are wiped.
SetMenuLines(lines) ==
  LET bottom == bar.rows - 1
      given == {row \in 1..bottom : row > bottom - bar.menu.count + lines.count}
      shrinks == lines.count < bar.menu.count
  IN IF lines.count = 0 /\ bar.menu.count = 0
     THEN UNCHANGED barVars
     ELSE Render([Pending(bar) EXCEPT
                    !.clear = IF shrinks THEN @ \cup given ELSE @,
                    !.claimed = IF shrinks THEN 1 + lines.count ELSE @,
                    !.menu = lines, !.dirty = TRUE],
                 [screen EXCEPT
                    !.hid = FALSE,
                    !.blind = @ \/ (shrinks /\ bar.claimed < 1 + lines.count)],
                 writing)

\* Mutant of Resize: the rows are taken to be the session's no longer.
ResizeKeepingRows(rows) ==
  LET hides == ~Visible(rows)
  IN Render([Pending(bar) EXCEPT
               !.clear = IF Visible(bar.rows) THEN @ \cup {bar.rows} ELSE @,
               !.rows = rows, !.dirty = TRUE,
               !.menu = IF hides THEN NoLines ELSE @],
            [screen EXCEPT
               !.inked = {}, !.footer = NoFooter, !.menu = NoLines,
               !.freed = IF hides THEN 0 ELSE @,
               !.blind = @ /\ ~hides,
               !.hid = @ \/ (hides /\ bar.menu.count > 0)], writing)

\* resize: below the minimum the switcher's rows are dropped.
Resize(rows) ==
  LET hides == ~Visible(rows)
  IN Render([Pending(bar) EXCEPT
               !.clear = IF Visible(bar.rows) THEN @ \cup {bar.rows} ELSE @,
               !.rows = rows, !.dirty = TRUE,
               !.claimed = IF hides THEN 0 ELSE @,
               !.menu = IF hides THEN NoLines ELSE @],
            [screen EXCEPT
               !.inked = {}, !.footer = NoFooter, !.menu = NoLines,
               !.freed = IF hides THEN 0 ELSE @,
               !.blind = @ /\ ~hides,
               !.hid = @ \/ (hides /\ bar.menu.count > 0)], writing)

\* updateSessions, setNotificationsMuted and setPrefixArmed: a footer that says
\* the same is not drawn again.
SetContent(content) ==
  IF content = bar.content THEN UNCHANGED barVars
  ELSE Render(Pending([bar EXCEPT !.content = content]), screen, writing)

\* Mutant of UpdateSessions: the list decides about the whole footer.
UpdateWholeFooter(listed) == SetContent(listed)
UpdateSessions(listed) ==
  SetContent([listed EXCEPT !.armed = bar.content.armed])
SetNotificationsMuted(muted) == SetContent([bar.content EXCEPT !.muted = muted])
SetPrefixArmed(armed) == SetContent([bar.content EXCEPT !.armed = armed])

\* requestHandoff, where it records the target; a handoff under way stands.
RequestHandoff(target) ==
  /\ bar.handoff = NoSession
  /\ bar' = [bar EXCEPT !.handoff = target]
  /\ UNCHANGED <<screen, writing>>

\* Mutant of Close: only the footer is cleared.
CloseFooterOnly ==
  /\ UNCHANGED writing
  /\ bar' = [bar EXCEPT !.closed = TRUE]
  /\ IF bar.closed \/ ~SafeBoundary(bar.stream) THEN UNCHANGED screen
     ELSE LET drawn == IF Visible(bar.rows) THEN {bar.rows} ELSE {}
          IN screen' = [Wiped(screen, bar.clear \cup drawn, writing)
                          EXCEPT !.footer = NoFooter, !.menu = NoLines]
\* close: gives the screen back, unless that would cut a sequence in two.
Close ==
  /\ UNCHANGED writing
  /\ bar' = [bar EXCEPT !.closed = TRUE]
  /\ IF bar.closed \/ ~SafeBoundary(bar.stream) THEN UNCHANGED screen
     ELSE LET drawn == IF Visible(bar.rows)
                       THEN (ContentRows(bar) + 1)..bar.rows ELSE {}
          IN screen' = [Wiped(screen, bar.clear \cup drawn, writing)
                          EXCEPT !.footer = NoFooter, !.menu = NoLines]

\* What the terminal does by itself when its window changes: all of it scrolls
\* again and nothing is where it was.
WindowChanges ==
  /\ screen' = [screen EXCEPT !.bottom = Whole, !.footer = NoFooter,
                              !.menu = NoLines, !.inked = {}]
  /\ UNCHANGED <<bar, writing>>
===============================================================================
