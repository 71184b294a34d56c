-------------------------- MODULE AttachClientProofs --------------------------
(***************************************************************************)
(* Proofs about AttachClient: whatever the session writes, whatever is     *)
(* typed, wherever reads and chunks are cut and in whatever order the      *)
(* goroutines run, for every set of heights, sessions and keys.            *)
(*                                                                         *)
(* The inductive invariant has a part for what each goroutine relies on.   *)
(* InnerInv is about the reader, the switcher and what the bar shows of    *)
(* them; OuterInv about the bar and the screen, the parser and the session *)
(* it reads, the window and the size sent for it, and the ways out.  Where *)
(* two of them are out of step, it says which call is still to come.       *)
(***************************************************************************)
EXTENDS AttachClient, TLAPS, SequenceTheorems, FiniteSetTheorems, NaturalsInduction,
        WellFoundedInduction

-----------------------------------------------------------------------------
(* Types.  A type is given its value where a field has any: what a frame asks *)
(* for, the target of a handoff, the size of the session.                     *)

\* The rows to send are those the bar left when they were read.
SizeType == {s \in [rows : Int, of : Int] : s.rows = s.of}
CallNames ==
  {"flush", "lastFlush", "tryFlush", "report", "focus", "mute", "muted", "toggle", "lines",
   "size", "resize", "switch", "new", "handoff", "detach", "onDetach", "close", "stop"}
Modes == {"idle", "armed", "escape", "sequence"}
ReaderType(r) ==
  [mode : Modes, introducer : {"[", "O"}, menuMode : {"idle", "escape", "sequence"},
   out : Seq(Bytes), reported : BOOLEAN, data : Seq(Bytes \cup {End}), calls : Seq(CallNames),
   muted : BOOLEAN, request : {r.request}, target : {r.target}, size : SizeType,
   stopped : BOOLEAN]
MenuType == [open : BOOLEAN, sessions : SUBSET Sessions, selection : Int]
SessionType(s) ==
  [status : {"running", "ended", "gone"}, muted : BOOLEAN, pty : {s.pty},
   stream : {"open", "closed"}, reading : BOOLEAN, overtaken : BOOLEAN, dropped : BOOLEAN]
ContentType == [armed : BOOLEAN, muted : BOOLEAN, others : SUBSET Sessions]
LinesType == [count : 0..LinesFor(Sessions), selected : Int]
BarType(b) ==
  [rows : Heights, menu : LinesType, content : ContentType, dirty : BOOLEAN,
   claimed : Nat, pending : BOOLEAN, clear : SUBSET Int, stream : {b.stream},
   tail : Seq(Bytes), handoff : {b.handoff}, closed : BOOLEAN]
ScreenType(s) ==
  [bottom : Int, footer : {s.footer}, menu : {s.menu}, inked : SUBSET Int,
   freed : Nat, torn : BOOLEAN, hid : BOOLEAN, blind : BOOLEAN]
WindowType == [rows : Heights, signal : BOOLEAN, missed : BOOLEAN]
WinchType ==
  [pc : {"off", "wait", "resize", "size", "send"}, rows : Heights \cup {0}, size : SizeType]

InputType ==
  /\ typed \in Seq(Bytes) /\ reader \in ReaderType(reader) /\ menu \in MenuType
  /\ connection \in {"open", "closed"} /\ detach \in {"no", "sent", "yes"}
DaemonType == session \in SessionType(session) /\ others \subseteq Sessions
OuterType ==
  /\ window \in WindowType /\ winch \in WinchType
  /\ main \in {"attach", "draw", "notify", "copy", "decide", "select", "fallback"}
-----------------------------------------------------------------------------
(* The input. *)

Before == {"attach", "draw", "notify"}
\* The session has still to learn the size of the bar.
Pends(calls) == calls # <<>> /\ Head(calls) \in {"lines", "size", "resize"}

\* What is left to do of a call: a repaint ends with the size it read, and the
\* switcher is opened by a key of its own, when nothing else is held.
CallsFit(r) ==
  \A i \in 1..Len(r.calls) :
    /\ r.calls[i] = "lines" => i < Len(r.calls) /\ r.calls[i + 1] = "size"
    /\ r.calls[i] = "size" => i < Len(r.calls) /\ r.calls[i + 1] = "resize"
    /\ r.calls[i] = "toggle" =>
         r.mode = "idle" /\ IF i = 1 THEN r.out = <<>> ELSE i = 2 /\ r.calls[1] = "flush"
CallsInv == CallsFit(reader)

\* A read ends with its mark, nothing is read before the copy, and the switcher
\* has sessions and the keyboard.
InputInv ==
  /\ reader.data = <<>> \/ reader.data[Len(reader.data)] = End
  /\ main \in Before => reader = NewReader(reader.muted) /\ menu = ClosedMenu
  /\ MenuOwnsKeyboard
  /\ menu.open => menu.sessions # {}

\* The bar says of the prefix what was reported, and that is right unless a read
\* is under way, a report is the next call or the input has ended.
ReportInv ==
  /\ bar.content.armed = reader.reported
  /\ reader.data = <<>> /\ ~reader.stopped
     /\ (reader.calls = <<>> \/ Head(reader.calls) # "report")
     => reader.reported = (reader.mode # "idle")

\* The bar shows the switcher, unless its lines are about to be painted; it never
\* shows more or fewer than one of that many sessions has.
SwitcherInv ==
  /\ reader.calls = <<>> \/ Head(reader.calls) # "lines" => SwitcherShown
  /\ menu.open => bar.menu.count \in {0, Lines.count}
  /\ bar.menu.count = 0 => bar.menu = NoLines

-----------------------------------------------------------------------------
(* The rest of the client. *)

\* The bar has the rows of the window, or will: a signal waits or was taken.
WindowInv ==
  /\ main \in Before <=> winch.pc = "off"
  /\ winch.pc = "resize" => winch.rows \in Heights
  /\ window.missed \/ window.signal
     \/ IF winch.pc = "resize" THEN winch.rows = window.rows ELSE bar.rows = window.rows

\* The session has the rows the bar leaves it, or one of the two goroutines that
\* send a size has still to send it.
SizeInv ==
  \/ connection = "closed" \/ ~session.reading \/ session.overtaken
  \/ winch.pc \in {"size", "send"} \/ Pends(reader.calls)
  \/ session.pty = Normalized(ContentRows(bar) % 65536)

EndsWith(bytes, end) ==
  Len(end) <= Len(bytes) /\ SubSeq(bytes, Len(bytes) - Len(end) + 1, Len(bytes)) = end
SentPart == SubSeq(writing.item, 1, writing.sent)
\* The parser is where the session is in what it writes, and the tail ends with
\* what is out of a sequence that undoes the footer.
StreamInv ==
  /\ writing = [item |-> writing.item, sent |-> writing.sent]
  /\ writing.item \in Items \cup {<<"t">>}
  /\ writing.sent \in 1..Len(writing.item)
  /\ bar.stream = Consume(Ground, SentPart)
  /\ writing.item \in ResetSequences => EndsWith(bar.tail, SentPart)
  /\ ~screen.torn

\* Falkn's rows; a screen that is all the session's; a bar that has the window's
\* last size.
Own(b) == (ContentRows(b) + 1)..b.rows
Bare(s) == s.bottom = Whole /\ s.footer = NoFooter /\ s.inked = {}
Follows == ~window.missed /\ ~window.signal /\ winch.pc # "resize"

\* What every method of the bar keeps, also while it may not draw: what is to be
\* cleared or drawn is pending, no row outside its own has something of Falkn
\* that is not to be cleared, and it claims no more rows than the session left.
KeptInv(b, s) ==
  /\ b.clear # {} => b.pending /\ b.dirty
  /\ Visible(b.rows) /\ b.dirty => b.pending
  /\ ~Visible(b.rows) => s.inked = {} /\ (b.clear = {} => s.bottom = Whole)
  /\ Visible(b.rows) => s.inked \ b.clear \subseteq Own(b)
  /\ ~s.blind => s.freed >= b.claimed
  /\ s.footer.shown /\ ~s.blind => s.freed >= 1 + s.menu.count
\* The screen shows the bar, except for what is pending.
FooterInv(b, s) ==
  Visible(b.rows) =>
    /\ ~b.dirty => s.bottom = ContentRows(b)
    /\ ~b.pending => s.footer = Footer(b) /\ s.menu = b.menu /\ Own(b) \subseteq s.inked

\* Nothing is pending at a boundary once the bar was drawn first, and the screen
\* is untouched until then.
BarInv ==
  /\ KeptInv(bar, screen)
  /\ ~bar.closed /\ Follows => FooterInv(bar, screen)
  /\ Running => ~bar.closed
  /\ main \in {"attach", "draw"} => bar.pending /\ bar.dirty /\ bar.clear = {}
  /\ main = "attach" => Bare(screen)
  /\ ~bar.closed /\ main \notin {"attach", "draw"} /\ bar.handoff = NoSession
     /\ SafeBoundary(bar.stream)
     => ~bar.pending
  /\ RestoredAtExit

\* Where AttachClient is when the copy has ended says why it has; a stream the
\* daemon closed while the session ran was dropped.
ExitInv ==
  /\ main \in {"decide", "select", "fallback"} =>
       connection = "closed" \/ session.stream = "closed"
       \/ (main = "decide" /\ bar.handoff # NoSession)
  /\ session.stream = "closed" => session.dropped \/ session.status # "running"
  /\ LeavesOnlyAtExit

InnerInv == InputType /\ CallsInv /\ InputInv /\ ReportInv /\ SwitcherInv
OuterInv ==
  /\ DaemonType /\ OuterType /\ bar \in BarType(bar) /\ screen \in ScreenType(screen)
  /\ WindowInv /\ SizeInv /\ StreamInv /\ BarInv /\ ExitInv
IInv == InnerInv /\ OuterInv

-----------------------------------------------------------------------------
(* Induction over the natural numbers, for sets. *)

\* A set that holds 0 and the successor of each of its numbers holds them all.
LEMMA NatSetInduction ==
  ASSUME NEW S, 0 \in S, \A n \in Nat : n \in S => n + 1 \in S
  PROVE  Nat \subseteq S
<1> DEFINE T == Nat \ S
<1>1. SUFFICES ASSUME T # {} PROVE FALSE
  OBVIOUS
<1>2. PICK x \in T : \A y \in T : ~ (<<y, x>> \in OpToRel(<, Nat))
  BY <1>1, NatLessThanWellFounded, WFMin
<1>3. x \in Nat /\ x # 0 /\ x - 1 \in Nat /\ x - 1 < x
  OBVIOUS
<1>4. x - 1 \in T
  BY <1>3
<1> QED
  BY <1>2, <1>3, <1>4 DEF OpToRel

-----------------------------------------------------------------------------
(* The parser. *)

\* What Consume computes on the way, for the first n bytes.
Steps(f, stream, bytes, n) ==
  f = [i \in 0..n |-> IF i = 0 THEN stream ELSE Take(f[i - 1], bytes[i])]

\* There are such steps for any number of bytes.
LEMMA StepsExist ==
  ASSUME NEW stream, NEW bytes, NEW n \in Nat
  PROVE  \E f : Steps(f, stream, bytes, n)
<1> DEFINE S == {m \in Nat : \E f : Steps(f, stream, bytes, m)}
<1>1. 0 \in S
  <2> DEFINE f == [i \in 0..0 |-> stream]
  <2>1. Steps(f, stream, bytes, 0)
    BY DEF Steps
  <2> QED
    BY <2>1
<1>2. ASSUME NEW m \in Nat, m \in S PROVE m + 1 \in S
  <2>1. PICK f : Steps(f, stream, bytes, m)
    BY <1>2
  <2> DEFINE g == [i \in 0..(m + 1) |-> IF i = m + 1 THEN Take(f[m], bytes[m + 1]) ELSE f[i]]
  <2>2. \A i \in 0..m : f[i] = IF i = 0 THEN stream ELSE Take(f[i - 1], bytes[i])
    BY <2>1 DEF Steps
  <2>3. \A i \in 0..(m + 1) : g[i] = IF i = 0 THEN stream ELSE Take(g[i - 1], bytes[i])
    <3>1. \A i \in 0..m : g[i] = f[i]
      BY SMT
    <3>2. \A i \in 0..m : i # 0 => i - 1 \in 0..m
      BY SMT
    <3>3. g[m + 1] = Take(g[m], bytes[m + 1])
      BY <3>1, SMT
    <3> QED
      BY <2>2, <3>1, <3>2, <3>3, SMT
  <2>4. Steps(g, stream, bytes, m + 1)
    BY <2>3 DEF Steps
  <2> QED
    BY <2>4
<1>3. Nat \subseteq S
  BY <1>1, <1>2, NatSetInduction
<1> QED
  BY <1>3

\* Consume is the last of them: its recursive function is one by induction.
LEMMA ConsumeIsSteps ==
  ASSUME NEW stream, NEW S, NEW bytes \in Seq(S)
  PROVE  \E f : Steps(f, stream, bytes, Len(bytes)) /\ Consume(stream, bytes) = f[Len(bytes)]
<1> DEFINE after[n \in 0..Len(bytes)] == IF n = 0 THEN stream ELSE Take(after[n - 1], bytes[n])
<1>1. Consume(stream, bytes) = after[Len(bytes)]
  BY DEF Consume
<1>2. \E f : Steps(f, stream, bytes, Len(bytes))
  BY StepsExist, LenProperties
<1>3. Steps(after, stream, bytes, Len(bytes))
  BY <1>2 DEF Steps
<1> QED
  BY <1>1, <1>3

\* Consume reads byte by byte.
LEMMA ConsumeNothing ==
  ASSUME NEW stream
  PROVE  Consume(stream, <<>>) = stream
<1>1. <<>> \in Seq({}) /\ Len(<<>>) = 0
  OBVIOUS
<1>2. PICK f : Steps(f, stream, <<>>, 0) /\ Consume(stream, <<>>) = f[0]
  BY <1>1, ConsumeIsSteps
<1> QED
  BY <1>2 DEF Steps

\* One more byte is one more step.
LEMMA ConsumeAppend ==
  ASSUME NEW stream, NEW S, NEW bytes \in Seq(S), NEW b \in S
  PROVE  Consume(stream, Append(bytes, b)) = Take(Consume(stream, bytes), b)
<1> DEFINE more == Append(bytes, b)
           n == Len(bytes)
<1>1. more \in Seq(S) /\ Len(more) = n + 1 /\ more[n + 1] = b
  BY AppendProperties
<1>2. \A i \in 1..n : bytes[i] = more[i]
  BY AppendProperties
<1>3. n \in Nat /\ n + 1 \in Nat /\ n <= n + 1 /\ n <= n
  BY LenProperties
<1>4. PICK f : Steps(f, stream, bytes, n) /\ Consume(stream, bytes) = f[n]
  BY ConsumeIsSteps
<1> HIDE DEF more
<1>5. PICK g : Steps(g, stream, more, n + 1) /\ Consume(stream, more) = g[n + 1]
  BY <1>1, ConsumeIsSteps
<1>6. f[n] = g[n]
  <2> DEFINE N == {i \in Nat : i <= n => f[i] = g[i]}
  <2>1. \A i \in 0..n : f[i] = IF i = 0 THEN stream ELSE Take(f[i - 1], bytes[i])
    BY <1>4 DEF Steps
  <2>2. \A i \in 0..(n + 1) : g[i] = IF i = 0 THEN stream ELSE Take(g[i - 1], more[i])
    BY <1>5 DEF Steps
  <2> HIDE DEF n
  <2>3. 0 \in N
    BY <1>3, <2>1, <2>2
  <2>4. ASSUME NEW i \in Nat, i \in N PROVE i + 1 \in N
    <3>1. SUFFICES ASSUME i + 1 <= n PROVE f[i + 1] = g[i + 1]
      OBVIOUS
    <3>2. f[i + 1] = Take(f[i], bytes[i + 1]) /\ g[i + 1] = Take(g[i], more[i + 1])
      BY <1>3, <2>1, <2>2, <3>1
    <3>3. f[i] = g[i] /\ bytes[i + 1] = more[i + 1]
      BY <1>2, <1>3, <2>4, <3>1
    <3> QED
      BY <3>2, <3>3
  <2>5. Nat \subseteq N
    BY <2>3, <2>4, NatSetInduction
  <2> QED
    BY <1>3, <2>5
<1>7. g[n + 1] = Take(g[n], more[n + 1])
  BY <1>3, <1>5 DEF Steps
<1> QED
  BY <1>1, <1>4, <1>5, <1>6, <1>7 DEF more

\* What is read in two parts is read as one.
LEMMA ConsumeConcat ==
  ASSUME NEW stream, NEW S, NEW a \in Seq(S), NEW b \in Seq(S)
  PROVE  Consume(Consume(stream, a), b) = Consume(stream, a \o b)
<1> DEFINE P(n) == \A c \in Seq(S) : Len(c) = n =>
                     Consume(Consume(stream, a), c) = Consume(stream, a \o c)
           N == {n \in Nat : P(n)}
<1>1. 0 \in N
  <2>1. ASSUME NEW c \in Seq(S), Len(c) = 0
        PROVE  Consume(Consume(stream, a), c) = Consume(stream, a \o c)
    <3>1. c = <<>> /\ a \o c = a
      BY <2>1
    <3> QED
      BY <3>1, ConsumeNothing
  <2> QED
    BY <2>1
<1>2. ASSUME NEW n \in Nat, n \in N PROVE n + 1 \in N
  <2>1. ASSUME NEW c \in Seq(S), Len(c) = n + 1
        PROVE  Consume(Consume(stream, a), c) = Consume(stream, a \o c)
    <3> DEFINE d == SubSeq(c, 1, n)
               e == c[n + 1]
               ad == a \o d
    <3>1. d \in Seq(S) /\ Len(d) = n /\ e \in S /\ c = Append(d, e)
      BY <2>1
    <3>2. a \o c = Append(ad, e) /\ ad \in Seq(S)
      BY <3>1
    <3>3. Consume(Consume(stream, a), d) = Consume(stream, ad)
      BY <1>2, <3>1
    <3> HIDE DEF d, e, ad
    <3>4. Consume(Consume(stream, a), Append(d, e)) = Take(Consume(Consume(stream, a), d), e)
      BY <3>1, ConsumeAppend
    <3>5. Consume(stream, Append(ad, e)) = Take(Consume(stream, ad), e)
      BY <3>1, <3>2, ConsumeAppend
    <3> QED
      BY <3>1, <3>2, <3>3, <3>4, <3>5
  <2> QED
    BY <2>1
<1>3. Nat \subseteq N
  BY <1>1, <1>2, NatSetInduction
<1> QED
  BY <1>3, LenProperties

-----------------------------------------------------------------------------
(* The end of a sequence of bytes, and what is found in it. *)

\* What follows both of two sequences leaves one the end of the other.
LEMMA EndsConcat ==
  ASSUME NEW S, NEW a \in Seq(S), NEW b \in Seq(S), NEW c \in Seq(S), EndsWith(a, b)
  PROVE  EndsWith(a \o c, b \o c)
<1>1. Len(a) \in Nat /\ Len(b) \in Nat /\ Len(c) \in Nat /\ Len(b) <= Len(a)
  BY LenProperties DEF EndsWith
<1> DEFINE ac == a \o c
           bc == b \o c
           from == Len(a) - Len(b) + 1
<1>2. ac \in Seq(S) /\ Len(ac) = Len(a) + Len(c) /\ bc \in Seq(S) /\ Len(bc) = Len(b) + Len(c)
  BY ConcatProperties
<1>3. SubSeq(ac, Len(ac) - Len(bc) + 1, Len(ac)) = bc
  <2>1. SubSeq(ac, from, Len(ac)) \in Seq(S) /\ Len(SubSeq(ac, from, Len(ac))) = Len(bc)
        /\ \A i \in 1..Len(bc) : SubSeq(ac, from, Len(ac))[i] = ac[from + i - 1]
    BY <1>1, <1>2, SubSeqProperties
  <2>2. \A i \in 1..Len(bc) : ac[from + i - 1] = bc[i]
    <3>1. TAKE i \in 1..Len(bc)
    <3>2. CASE i <= Len(b)
      <4>1. bc[i] = b[i] /\ ac[from + i - 1] = a[from + i - 1]
        BY <1>1, <3>1, <3>2, ConcatProperties
      <4>2. b[i] = SubSeq(a, from, Len(a))[i]
        BY DEF EndsWith
      <4>3. SubSeq(a, from, Len(a))[i] = a[from + i - 1]
        BY <1>1, <3>1, <3>2, SubSeqProperties
      <4> QED
        BY <4>1, <4>2, <4>3
    <3>3. CASE i > Len(b)
      BY <1>1, <1>2, <3>1, <3>3, ConcatProperties
    <3> QED
      BY <1>1, <3>1, <3>2, <3>3
  <2>3. Len(ac) - Len(bc) + 1 = from
    BY <1>1, <1>2
  <2> HIDE DEF ac, bc, from
  <2> QED
    BY <1>2, <2>1, <2>2, <2>3, SeqEqual
<1> QED
  BY <1>1, <1>2, <1>3 DEF EndsWith

\* A sequence ends with what was put after it.
LEMMA EndsSelf ==
  ASSUME NEW S, NEW a \in Seq(S), NEW b \in Seq(S)
  PROVE  EndsWith(a \o b, b)
<1>1. EndsWith(a, <<>>)
  <2>1. SubSeq(a, Len(a) - 0 + 1, Len(a)) = <<>>
    BY LenProperties, SubSeqEmpty
  <2> QED
    BY <2>1, LenProperties DEF EndsWith
<1>2. EndsWith(a \o b, <<>> \o b)
  BY <1>1, EndsConcat, <<>> \in Seq(S)
<1> QED
  BY <1>2

\* What a sequence ends with is found in it, whatever follows.
LEMMA EndsHolds ==
  ASSUME NEW S, NEW a \in Seq(S), NEW b \in Seq(S), NEW c \in Seq(S), EndsWith(a, b)
  PROVE  Holds(a \o c, b)
<1> DEFINE ac == a \o c
           i == Len(a) - Len(b)
<1>1. Len(a) \in Nat /\ Len(b) \in Nat /\ Len(c) \in Nat /\ Len(b) <= Len(a)
  BY LenProperties DEF EndsWith
<1>2. ac \in Seq(S) /\ Len(ac) = Len(a) + Len(c) /\ i \in 0..(Len(ac) - Len(b))
  BY <1>1, ConcatProperties
<1>3. SubSeq(ac, i + 1, i + Len(b)) = b
  <2>1. SubSeq(a, i + 1, Len(a)) = b
    BY DEF EndsWith
  <2>2. i + Len(b) = Len(a)
    BY <1>1
  <2>3. SubSeq(ac, i + 1, Len(a)) = SubSeq(a, i + 1, Len(a))
    BY <1>1, <1>2
  <2> QED
    BY <2>1, <2>2, <2>3
<1> HIDE DEF ac, i
<1> QED
  BY <1>2, <1>3 DEF Holds, ac

\* The tail that is kept ends with what the bytes end with, if that is short.
LEMMA EndsTail ==
  ASSUME NEW S, NEW a \in Seq(S), NEW b \in Seq(S), EndsWith(a, b), Len(b) <= TailBytes
  PROVE  EndsWith(TailOf(a), b)
<1> DEFINE m == Len(a)
           n == Len(b)
<1>1. m \in Nat /\ n \in Nat /\ n <= m /\ n <= 4 /\ SubSeq(a, m - n + 1, m) = b
  BY LenProperties DEF EndsWith, TailBytes
<1>2. TailOf(a) = SubSeq(a, IF m > 4 THEN m - 4 + 1 ELSE 1, m)
  BY DEF TailOf, TailBytes
<1>3. a = SubSeq(a, 1, m) /\ \A i \in 1..m : a[i] \in S
  BY SubSeqFull, ElementOfSeq
<1> HIDE DEF m, n
<1>4. CASE m > 4
  <2> DEFINE t == SubSeq(a, m - 4 + 1, m)
             v == SubSeq(t, 4 - n + 1, 4)
  <2>1. t \in Seq(S) /\ Len(t) = 4 /\ \A i \in 1..4 : t[i] = a[m - 4 + i]
    <3>1. m - 4 + 1 \in Int /\ m \in Int /\ m - (m - 4 + 1) + 1 = 4 /\ m - 4 + 1 <= m
          /\ \A i \in (m - 4 + 1)..m : a[i] \in S
      BY <1>1, <1>3, <1>4
    <3>2. t \in Seq(S) /\ Len(t) = 4 /\ \A i \in 1..4 : t[i] = a[m - 4 + 1 + i - 1]
      BY <3>1, SubSeqProperties
    <3> QED
      BY <1>1, <3>2
  <2>2. b \in Seq(S) /\ Len(b) = n /\ \A i \in 1..n : b[i] = a[m - n + i]
    <3>1. m - n + 1 \in Int /\ m \in Int /\ m - (m - n + 1) + 1 = n
          /\ \A i \in (m - n + 1)..m : a[i] \in S
      BY <1>1, <1>3
    <3>2. \A i \in 1..n : SubSeq(a, m - n + 1, m)[i] = a[m - n + 1 + i - 1]
      BY <3>1, SubSeqProperties
    <3> QED
      BY <1>1, <3>2 DEF n
  <2> HIDE DEF t
  <2>3. v \in Seq(S) /\ Len(v) = n /\ \A i \in 1..n : v[i] = t[4 - n + i]
    <3>1. 4 - n + 1 \in Int /\ 4 \in Int /\ 4 - (4 - n + 1) + 1 = n
          /\ \A i \in (4 - n + 1)..4 : t[i] \in S
      BY <1>1, <2>1
    <3>2. v \in Seq(S) /\ Len(v) = n /\ \A i \in 1..n : v[i] = t[4 - n + 1 + i - 1]
      BY <1>1, <3>1, SubSeqProperties
    <3> QED
      BY <1>1, <3>2
  <2> HIDE DEF v
  <2>4. \A i \in 1..n : v[i] = b[i]
    <3>1. TAKE i \in 1..n
    <3>2. 4 - n + i \in 1..4 /\ m - 4 + (4 - n + i) = m - n + i
      BY <1>1
    <3> QED
      BY <2>1, <2>2, <2>3, <3>2
  <2>5. v = b
    BY <2>2, <2>3, <2>4, SeqEqual
  <2> QED
    BY <1>1, <1>2, <1>4, <2>1, <2>5 DEF EndsWith, t, v, n
<1>5. CASE m <= 4
  <2>1. (IF m > 4 THEN m - 4 + 1 ELSE 1) = 1
    BY <1>1, <1>5
  <2>2. TailOf(a) = a
    BY <1>2, <1>3, <2>1
  <2> QED
    BY <2>2
<1> QED
  BY <1>1, <1>4, <1>5

\* The tail that is kept is made of bytes.
LEMMA TailTyped ==
  ASSUME NEW S, NEW a \in Seq(S)
  PROVE  TailOf(a) \in Seq(S)
BY LenProperties, SubSeqProperties DEF TailOf, TailBytes

-----------------------------------------------------------------------------
(* Sets of sessions. *)

\* A finite set of numbers that is not empty has a greatest one and a least one.
LEMMA Extremes ==
  ASSUME NEW S, S \subseteq Nat, IsFiniteSet(S), S # {}
  PROVE  /\ \E m \in S : \A t \in S : t <= m
         /\ \E m \in S : \A t \in S : m <= t
<1> DEFINE Has(T) == /\ \E m \in T : \A t \in T : t <= m
                     /\ \E m \in T : \A t \in T : m <= t
           N == {n \in Nat : \A T \in SUBSET Nat :
                   IsFiniteSet(T) /\ T # {} /\ Cardinality(T) = n => Has(T)}
<1>1. 0 \in N
  BY FS_EmptySet
<1>2. ASSUME NEW n \in Nat, n \in N PROVE n + 1 \in N
  <2>1. SUFFICES ASSUME NEW T \in SUBSET Nat, IsFiniteSet(T), T # {}, Cardinality(T) = n + 1
                 PROVE  Has(T)
    OBVIOUS
  <2>2. PICK x \in T : TRUE
    BY <2>1
  <2> DEFINE R == T \ {x}
  <2>3. IsFiniteSet(R) /\ Cardinality(R) = n /\ R \in SUBSET Nat
    <3>1. IsFiniteSet(R) /\ Cardinality(R) = IF x \in T THEN Cardinality(T) - 1 ELSE Cardinality(T)
      BY <2>1, FS_RemoveElement
    <3> QED
      BY <2>1, <2>2, <3>1
  <2>4. CASE R = {}
    BY <2>2, <2>4
  <2>5. CASE R # {}
    <3>1. Has(R)
      BY <1>2, <2>3, <2>5
    <3>2. PICK m \in R : \A t \in R : t <= m
      BY <3>1
    <3>3. PICK l \in R : \A t \in R : l <= t
      BY <3>1
    <3>4. m \in Nat /\ l \in Nat /\ x \in Nat /\ \A t \in T : t = x \/ t \in R
      BY <2>1, <2>2, <2>3
    <3>5. \E k \in T : \A t \in T : t <= k
      BY <2>1, <2>2, <3>2, <3>4
    <3>6. \E k \in T : \A t \in T : k <= t
      BY <2>1, <2>2, <3>3, <3>4
    <3> QED
      BY <3>5, <3>6
  <2> QED
    BY <2>4, <2>5
<1>3. Nat \subseteq N
  BY <1>1, <1>2, NatSetInduction
<1>4. Cardinality(S) \in N
  BY <1>3, FS_CardinalityType
<1> QED
  BY <1>4

\* A switcher has a line per session and one more, never more than for all.
LEMMA LinesBounded ==
  ASSUME NEW T, T \subseteq Sessions
  PROVE  /\ IsFiniteSet(T)
         /\ LinesFor(T) \in Nat \ {0}
         /\ LinesFor(T) <= LinesFor(Sessions)
         /\ T # {} => Cardinality(T) \in Nat \ {0}
<1>1. IsFiniteSet(Sessions)
  BY SelfIsASession DEF SelfAssumption
<1>2. IsFiniteSet(T) /\ Cardinality(T) \in Nat /\ Cardinality(Sessions) \in Nat
      /\ Cardinality(T) <= Cardinality(Sessions)
  BY <1>1, FS_Subset, FS_CardinalityType
<1>3. T # {} => Cardinality(T) # 0
  BY <1>2, FS_EmptySet
<1> QED
  BY <1>2, <1>3 DEF LinesFor, MenuMaximumRows

-----------------------------------------------------------------------------
(* The status bar: every method keeps the bar and the screen consistent. *)

\* What the assumptions say of a height the window may have.
LEMMA HeightFacts ==
  ASSUME NEW rows \in Heights
  PROVE  /\ rows \in Nat /\ rows < 65536 /\ MinimumRows \in Nat
         /\ LinesFor(Sessions) \in Nat \ {0}
         /\ Visible(rows) => rows > 1 + LinesFor(Sessions)
<1>1. Sessions \subseteq Sessions
  OBVIOUS
<1>2. LinesFor(Sessions) \in Nat \ {0}
  BY <1>1, LinesBounded
<1>3. rows \in Nat /\ rows < 65536 /\ MinimumRows \in Nat
  BY HeightsFit DEF HeightsAssumption
<1>4. Visible(rows) => rows > 1 + LinesFor(Sessions)
  BY HeightsFit DEF HeightsAssumption
<1> QED
  BY <1>2, <1>3, <1>4

\* The row that stands for the whole screen is a number.
LEMMA WholeTyped == Whole \in Int
BY DEF Whole

BarOK ==
  /\ bar \in BarType(bar) /\ screen \in ScreenType(screen)
  /\ KeptInv(bar, screen)
  /\ ~screen.torn
  /\ SafeBoundary(bar.stream) => ~Cut(writing)

\* What a call that draws leaves as it is in the bar it draws.
Redraws(b, s) ==
  /\ bar'.rows = b.rows /\ bar'.menu = b.menu /\ bar'.content = b.content
  /\ bar'.stream = b.stream /\ bar'.tail = b.tail
  /\ bar'.handoff = b.handoff /\ bar'.closed = b.closed
  /\ screen'.hid = s.hid

\* renderLocked keeps what is kept, puts a footer that agrees with the bar in
\* the place of one that did, and leaves nothing to draw unless it may not.
LEMMA RenderKeeps ==
  ASSUME NEW b, b \in BarType(b), NEW s, s \in ScreenType(s), NEW w,
         KeptInv(b, s), ~s.torn, SafeBoundary(b.stream) => ~Cut(w), Render(b, s, w)
  PROVE  /\ BarOK' /\ writing' = w /\ Redraws(b, s)
         /\ FooterInv(b, s) => FooterInv(bar, screen)'
         /\ SafeBoundary(b.stream) /\ ~b.closed => ~bar'.pending
<1> DEFINE Skips == b.closed \/ ~SafeBoundary(b.stream) \/ (~b.pending /\ b.clear = {})
           wiped == Wiped(s, b.clear, w)
<1>0. writing' = w
  BY DEF Render
<1>1. CASE Skips
  <2>1. bar' = b /\ screen' = s
    BY <1>1 DEF Render
  <2> QED
    BY <1>0, <1>1, <2>1 DEF BarOK, Redraws, KeptInv, FooterInv
<1>2. CASE ~Skips
  <2>1. b.rows \in Nat /\ MinimumRows \in Nat /\ b.menu.count \in Nat
        /\ Reserved(b) = (IF Visible(b.rows) THEN 1 + b.menu.count ELSE 0)
        /\ ContentRows(b) \in Int /\ Reserved(b) \in Nat
    BY HeightFacts DEF BarType, LinesType, Reserved, ContentRows, Visible
  <2>2. ~Cut(w) /\ ~b.closed /\ (b.pending \/ b.clear # {})
    BY <1>2 DEF BarType
  <2>3. /\ wiped \in ScreenType(wiped)
        /\ wiped.inked = s.inked \ b.clear
        /\ wiped.bottom = IF b.clear = {} THEN s.bottom ELSE Whole
        /\ wiped.footer = s.footer /\ wiped.menu = s.menu
        /\ wiped.freed = s.freed /\ wiped.hid = s.hid
        /\ wiped.blind = s.blind /\ ~wiped.torn
    <3>1. CASE b.clear = {}
      BY <3>1 DEF Wiped, wiped
    <3>2. CASE b.clear # {}
      <4>1. wiped = [s EXCEPT !.bottom = Whole, !.inked = @ \ b.clear, !.torn = FALSE]
        BY <2>2, <3>2 DEF Wiped, ScreenType
      <4> HIDE DEF wiped
      <4>2. wiped \in ScreenType(wiped)
        BY <4>1, WholeTyped DEF ScreenType
      <4>3. /\ wiped.inked = s.inked \ b.clear /\ wiped.bottom = Whole
            /\ wiped.footer = s.footer /\ wiped.menu = s.menu /\ wiped.freed = s.freed
            /\ wiped.hid = s.hid /\ wiped.blind = s.blind /\ ~wiped.torn
        BY <4>1 DEF ScreenType
      <4> QED
        BY <3>2, <4>2, <4>3
    <3> QED
      BY <3>1, <3>2
  <2> HIDE DEF wiped
  <2>4. CASE Visible(b.rows)
    <3>1. /\ bar' = [b EXCEPT !.clear = {}, !.dirty = FALSE, !.pending = FALSE,
                              !.claimed = Reserved(b)]
          /\ screen' = Drawn(b, wiped, w)
      BY <1>2, <2>4 DEF Render, wiped
    <3>2. /\ bar' \in BarType(bar') /\ Redraws(b, s)
          /\ bar'.clear = {} /\ ~bar'.dirty /\ ~bar'.pending /\ bar'.claimed = Reserved(b)
      <4>1. bar' \in BarType(bar') /\ bar'.rows = b.rows /\ bar'.menu = b.menu
            /\ bar'.content = b.content /\ bar'.stream = b.stream /\ bar'.tail = b.tail
            /\ bar'.handoff = b.handoff /\ bar'.closed = b.closed
            /\ bar'.clear = {} /\ ~bar'.dirty /\ ~bar'.pending /\ bar'.claimed = Reserved(b)
        BY <2>1, <3>1 DEF BarType
      <4>2. screen'.hid = s.hid
        BY <2>3, <3>1 DEF Drawn, ScreenType
      <4> QED
        BY <4>1, <4>2 DEF Redraws
    <3>3. /\ screen' \in ScreenType(screen') /\ ~screen'.torn /\ screen'.blind = s.blind
          /\ screen'.bottom = IF b.dirty THEN ContentRows(b) ELSE wiped.bottom
          /\ screen'.footer = Footer(b) /\ screen'.menu = b.menu
          /\ screen'.inked = wiped.inked \cup Own(b)
          /\ screen'.freed = (IF Reserved(b) > b.claimed THEN s.freed + Reserved(b) - b.claimed
                              ELSE IF Reserved(b) < s.freed THEN Reserved(b) ELSE s.freed)
      <4> DEFINE freed == IF Reserved(b) > b.claimed THEN s.freed + Reserved(b) - b.claimed
                          ELSE IF Reserved(b) < s.freed THEN Reserved(b) ELSE s.freed
                 bottom == IF b.dirty THEN ContentRows(b) ELSE wiped.bottom
      <4>1. screen' = [wiped EXCEPT !.bottom = bottom, !.footer = Footer(b), !.menu = b.menu,
                                    !.inked = @ \cup Own(b), !.freed = freed, !.torn = FALSE]
        BY <2>2, <2>3, <3>1 DEF Drawn, ScreenType, Own
      <4>2. freed \in Nat
        BY <2>1, <2>3 DEF BarType, ScreenType
      <4>3. bottom \in Int /\ Own(b) \subseteq Int
        BY <2>1, <2>3 DEF ScreenType, Own
      <4> HIDE DEF freed, bottom
      <4>4. /\ screen' \in ScreenType(screen') /\ ~screen'.torn /\ screen'.blind = wiped.blind
            /\ screen'.bottom = bottom /\ screen'.footer = Footer(b) /\ screen'.menu = b.menu
            /\ screen'.inked = wiped.inked \cup Own(b) /\ screen'.freed = freed
        BY <2>3, <4>1, <4>2, <4>3 DEF ScreenType
      <4> QED
        BY <2>3, <4>4 DEF freed, bottom
    <3>4. Own(bar') = Own(b) /\ ContentRows(bar') = ContentRows(b) /\ Footer(bar') = Footer(b)
      BY <3>2 DEF Own, ContentRows, Reserved, Footer, Redraws
    <3>5. ~s.blind => screen'.freed >= Reserved(b)
      <4>1. s.freed \in Nat /\ b.claimed \in Nat /\ Reserved(b) \in Nat
            /\ (~s.blind => s.freed >= b.claimed)
        BY <2>1 DEF KeptInv, BarType, ScreenType
      <4>2. screen'.freed = (IF Reserved(b) > b.claimed THEN s.freed + Reserved(b) - b.claimed
                             ELSE IF Reserved(b) < s.freed THEN Reserved(b) ELSE s.freed)
        BY <3>3
      <4> QED
        BY <4>1, <4>2
    <3>6. KeptInv(bar, screen)'
      <4>1. screen'.inked \subseteq Own(b)
        BY <2>3, <2>4, <3>3 DEF KeptInv
      <4> QED
        BY <2>1, <2>4, <3>2, <3>3, <3>4, <3>5, <4>1 DEF KeptInv, Redraws
    <3>7. FooterInv(b, s) => FooterInv(bar, screen)'
      <4>1. ~b.dirty => b.clear = {}
        BY DEF KeptInv
      <4> QED
        BY <2>3, <2>4, <3>2, <3>3, <3>4, <4>1 DEF FooterInv, Redraws
    <3> QED
      BY <1>0, <2>2, <3>2, <3>3, <3>6, <3>7 DEF BarOK
  <2>5. CASE ~Visible(b.rows)
    <3>1. bar' = [b EXCEPT !.clear = {}, !.pending = FALSE] /\ screen' = wiped
      BY <1>2, <2>5 DEF Render, wiped
    <3>2. /\ bar' \in BarType(bar') /\ bar'.rows = b.rows /\ bar'.menu = b.menu
          /\ bar'.content = b.content /\ bar'.stream = b.stream /\ bar'.tail = b.tail
          /\ bar'.handoff = b.handoff /\ bar'.closed = b.closed
          /\ bar'.clear = {} /\ ~bar'.pending /\ bar'.claimed = b.claimed
      BY <3>1 DEF BarType
    <3>3. KeptInv(bar, screen)'
      BY <2>3, <2>5, <3>1, <3>2 DEF KeptInv
    <3> QED
      BY <1>0, <2>2, <2>3, <2>5, <3>1, <3>2, <3>3 DEF BarOK, Redraws, FooterInv
  <2> QED
    BY <2>4, <2>5
<1> QED
  BY <1>1, <1>2

\* What a call that is not a write of the session leaves as it is.
Keeps ==
  /\ BarOK' /\ writing' = writing /\ bar'.stream = bar.stream /\ bar'.tail = bar.tail
  /\ bar'.handoff = bar.handoff /\ bar'.closed = bar.closed
DrawsAgain ==
  /\ FooterInv(bar, screen) => FooterInv(bar, screen)'
  /\ SafeBoundary(bar.stream) /\ ~bar.closed /\ ~bar.pending => ~bar'.pending
SamePlaces == bar'.rows = bar.rows /\ bar'.menu = bar.menu /\ screen'.hid = screen.hid

\* A footer with other content is drawn at once at a boundary.
LEMMA PendingRenders ==
  ASSUME BarOK, NEW content \in ContentType,
         Render(Pending([bar EXCEPT !.content = content]), screen, writing)
  PROVE  /\ Keeps /\ SamePlaces /\ bar'.content = content
         /\ FooterInv(bar, screen) => FooterInv(bar, screen)'
         /\ SafeBoundary(bar.stream) /\ ~bar.closed => ~bar'.pending
<1> DEFINE b == Pending([bar EXCEPT !.content = content])
<1>1. /\ b \in BarType(b) /\ b.rows = bar.rows /\ b.menu = bar.menu /\ b.content = content
      /\ b.stream = bar.stream /\ b.tail = bar.tail /\ b.handoff = bar.handoff
      /\ b.closed = bar.closed /\ b.clear = bar.clear /\ b.dirty = bar.dirty
      /\ b.claimed = bar.claimed /\ b.pending
  BY DEF BarOK, BarType, Pending
<1>2. Render(b, screen, writing)
  OBVIOUS
<1> HIDE DEF b
<1>3. KeptInv(b, screen)
  BY <1>1 DEF BarOK, KeptInv, Own, ContentRows, Reserved
<1>4. FooterInv(bar, screen) => FooterInv(b, screen)
  BY <1>1 DEF FooterInv, ContentRows, Reserved
<1>5. BarOK' /\ writing' = writing /\ Redraws(b, screen)
      /\ (FooterInv(b, screen) => FooterInv(bar, screen)')
      /\ (SafeBoundary(b.stream) /\ ~b.closed => ~bar'.pending)
  BY <1>1, <1>2, <1>3, RenderKeeps DEF BarOK
<1> QED
  BY <1>1, <1>4, <1>5 DEF Keeps, SamePlaces, Redraws

\* and one with the same content not again: updateSessions,
\* setNotificationsMuted and setPrefixArmed.
LEMMA SetContentKeeps ==
  ASSUME BarOK, NEW content \in ContentType, SetContent(content)
  PROVE  Keeps /\ SamePlaces /\ DrawsAgain /\ bar'.content = content
<1>1. CASE content = bar.content
  <2>1. bar' = bar /\ screen' = screen /\ writing' = writing
    BY <1>1 DEF SetContent, barVars
  <2> QED
    BY <1>1, <2>1 DEF Keeps, SamePlaces, DrawsAgain, BarOK
<1>2. CASE content # bar.content
  BY <1>2, PendingRenders DEF SetContent, DrawsAgain
<1> QED
  BY <1>1, <1>2

\* The rows a switcher gives back are wiped; a switcher is given back whole.
LEMMA SetMenuLinesKeeps ==
  ASSUME BarOK, NEW lines \in LinesType, SetMenuLines(lines),
         lines.count < bar.menu.count => lines.count = 0,
         lines.count = 0 => lines = NoLines,
         bar.menu.count = 0 => bar.menu = NoLines
  PROVE  /\ Keeps /\ DrawsAgain
         /\ bar'.rows = bar.rows /\ bar'.content = bar.content /\ bar'.menu = lines
<1> DEFINE bottom == bar.rows - 1
           given == {row \in 1..bottom : row > bottom - bar.menu.count + lines.count}
           shrinks == lines.count < bar.menu.count
           clear == IF shrinks THEN bar.clear \cup given ELSE bar.clear
           claimed == IF shrinks THEN 1 + lines.count ELSE bar.claimed
           blind == screen.blind \/ (shrinks /\ bar.claimed < 1 + lines.count)
           b == [Pending(bar) EXCEPT !.clear = clear, !.claimed = claimed,
                                     !.menu = lines, !.dirty = TRUE]
           s == [screen EXCEPT !.hid = FALSE, !.blind = blind]
<1>1. CASE lines.count = 0 /\ bar.menu.count = 0
  <2>1. bar' = bar /\ screen' = screen /\ writing' = writing
    BY <1>1 DEF SetMenuLines, barVars
  <2> QED
    BY <1>1, <2>1 DEF Keeps, DrawsAgain, BarOK
<1>2. CASE ~(lines.count = 0 /\ bar.menu.count = 0)
  <2>1. Render(b, s, writing)
    BY <1>2 DEF SetMenuLines, Pending, BarOK, BarType
  <2>2. /\ bar.rows \in Nat /\ MinimumRows \in Nat
        /\ bar.menu.count \in Nat /\ lines.count \in Nat /\ bar.claimed \in Nat
        /\ Visible(bar.rows) => bar.rows > 1 + bar.menu.count /\ bar.rows > 1 + lines.count
    BY HeightFacts DEF BarOK, BarType, LinesType
  <2>3. clear \in SUBSET Int /\ bar.clear \subseteq clear /\ claimed \in Nat /\ blind \in BOOLEAN
    BY <2>2 DEF BarOK, BarType, ScreenType
  <2>4. shrinks => given = (bottom - bar.menu.count + 1)..bottom \cap 1..bottom
    BY <2>2
  <2>5. ~blind => ~screen.blind /\ claimed <= bar.claimed
    BY <2>2
  <2>6. Visible(bar.rows) => \A row \in screen.inked \ clear :
                               row >= bar.rows - lines.count /\ row <= bar.rows /\ row \in Int
    <3>1. SUFFICES ASSUME Visible(bar.rows), NEW row \in screen.inked \ clear
                   PROVE  row >= bar.rows - lines.count /\ row <= bar.rows /\ row \in Int
      OBVIOUS
    <3>2. row \in Own(bar)
      BY <2>3, <3>1 DEF BarOK, KeptInv
    <3>3. row \in Int /\ row <= bar.rows /\ row >= bar.rows - bar.menu.count
      BY <2>2, <3>1, <3>2 DEF Own, ContentRows, Reserved
    <3>4. CASE shrinks
      <4>1. row \notin given /\ lines.count = 0
        BY <3>1, <3>4
      <4> QED
        BY <2>2, <3>1, <3>3, <4>1
    <3>5. CASE ~shrinks
      BY <2>2, <3>3, <3>5
    <3> QED
      BY <3>4, <3>5
  <2> HIDE DEF clear, claimed, blind
  <2>7. /\ b \in BarType(b) /\ b.rows = bar.rows /\ b.menu = lines /\ b.content = bar.content
        /\ b.stream = bar.stream /\ b.tail = bar.tail /\ b.handoff = bar.handoff
        /\ b.closed = bar.closed /\ b.clear = clear /\ b.dirty /\ b.claimed = claimed /\ b.pending
    BY <2>3 DEF BarOK, BarType, Pending
  <2>8. /\ s \in ScreenType(s) /\ s.inked = screen.inked /\ s.bottom = screen.bottom
        /\ s.footer = screen.footer /\ s.menu = screen.menu /\ s.freed = screen.freed
        /\ s.blind = blind /\ ~s.torn
    BY <2>3 DEF BarOK, ScreenType
  <2> HIDE DEF b, s
  <2>9. KeptInv(b, s)
    <3>1. b.clear # {} => b.pending /\ b.dirty
      BY <2>7
    <3>2. ~Visible(b.rows) => s.inked = {} /\ (b.clear = {} => s.bottom = Whole)
      BY <2>3, <2>7, <2>8 DEF BarOK, KeptInv
    <3>3. Visible(b.rows) => s.inked \ b.clear \subseteq Own(b)
      BY <2>2, <2>6, <2>7, <2>8 DEF Own, ContentRows, Reserved
    <3>4. ~s.blind => s.freed >= b.claimed
      BY <2>2, <2>3, <2>5, <2>7, <2>8 DEF BarOK, KeptInv, ScreenType
    <3>5. s.footer.shown /\ ~s.blind => s.freed >= 1 + s.menu.count
      BY <2>5, <2>8 DEF BarOK, KeptInv
    <3> QED
      BY <2>7, <3>1, <3>2, <3>3, <3>4, <3>5 DEF KeptInv
  <2>10. BarOK' /\ writing' = writing /\ Redraws(b, s)
         /\ (FooterInv(b, s) => FooterInv(bar, screen)')
         /\ (SafeBoundary(b.stream) /\ ~b.closed => ~bar'.pending)
    BY <2>1, <2>7, <2>8, <2>9, RenderKeeps DEF BarOK
  <2>11. FooterInv(b, s)
    BY <2>7 DEF FooterInv
  <2> QED
    BY <2>7, <2>10, <2>11 DEF Keeps, DrawsAgain, Redraws
<1> QED
  BY <1>1, <1>2

\* A window that is too small takes the rows and the switcher back.
LEMMA ResizeKeeps ==
  ASSUME BarOK, NEW rows \in Heights, Resize(rows)
  PROVE  /\ Keeps
         /\ bar'.rows = rows /\ bar'.content = bar.content
         /\ bar'.menu = IF Visible(rows) THEN bar.menu ELSE NoLines
         /\ screen'.hid = (screen.hid \/ (~Visible(rows) /\ bar.menu.count > 0))
         /\ FooterInv(bar, screen)'
         /\ SafeBoundary(bar.stream) /\ ~bar.closed => ~bar'.pending
<1> DEFINE hides == ~Visible(rows)
           clear == IF Visible(bar.rows) THEN bar.clear \cup {bar.rows} ELSE bar.clear
           claimed == IF hides THEN 0 ELSE bar.claimed
           menuLines == IF hides THEN NoLines ELSE bar.menu
           freed == IF hides THEN 0 ELSE screen.freed
           blind == screen.blind /\ ~hides
           hid == screen.hid \/ (hides /\ bar.menu.count > 0)
           b == [Pending(bar) EXCEPT !.clear = clear, !.rows = rows, !.dirty = TRUE,
                                     !.claimed = claimed, !.menu = menuLines]
           s == [screen EXCEPT !.inked = {}, !.footer = NoFooter, !.menu = NoLines,
                               !.freed = freed, !.blind = blind, !.hid = hid]
<1>1. Render(b, s, writing)
  BY DEF Resize, Pending, BarOK, BarType
<1>2. /\ rows \in Nat /\ bar.rows \in Nat /\ MinimumRows \in Nat /\ bar.menu.count \in Nat
      /\ bar.claimed \in Nat /\ screen.freed \in Nat
  BY HeightFacts DEF BarOK, BarType, LinesType, ScreenType
<1>3. /\ clear \in SUBSET Int /\ bar.clear \subseteq clear /\ claimed \in Nat
      /\ menuLines \in LinesType /\ freed \in Nat /\ blind \in BOOLEAN /\ hid \in BOOLEAN
  <2>1. NoLines \in LinesType
    BY HeightFacts DEF LinesType, NoLines
  <2>2. clear \in SUBSET Int /\ bar.clear \subseteq clear /\ claimed \in Nat /\ freed \in Nat
    BY <1>2 DEF BarOK, BarType
  <2>3. blind \in BOOLEAN /\ hid \in BOOLEAN
    BY DEF BarOK, ScreenType
  <2> QED
    BY <2>1, <2>2, <2>3 DEF BarOK, BarType
<1>4. Visible(bar.rows) => clear # {}
  OBVIOUS
<1>5. hides => claimed = 0 /\ ~blind
  OBVIOUS
<1>6. ~hides => claimed = bar.claimed /\ freed = screen.freed /\ (~blind => ~screen.blind)
  OBVIOUS
<1>7. ~Visible(bar.rows) => clear = bar.clear
  OBVIOUS
<1> HIDE DEF clear, claimed, menuLines, freed, blind, hid
<1>8. /\ b \in BarType(b) /\ b.rows = rows /\ b.menu = menuLines /\ b.content = bar.content
      /\ b.stream = bar.stream /\ b.tail = bar.tail /\ b.handoff = bar.handoff
      /\ b.closed = bar.closed /\ b.clear = clear /\ b.dirty /\ b.claimed = claimed /\ b.pending
  BY <1>3 DEF BarOK, BarType, Pending
<1>9. /\ s \in ScreenType(s) /\ s.inked = {} /\ s.bottom = screen.bottom /\ s.footer = NoFooter
      /\ s.menu = NoLines /\ s.freed = freed /\ s.blind = blind /\ s.hid = hid /\ ~s.torn
  BY <1>3 DEF BarOK, ScreenType
<1> HIDE DEF b, s
<1>10. KeptInv(b, s)
  <2>1. ~Visible(b.rows) => (b.clear = {} => s.bottom = Whole)
    BY <1>4, <1>7, <1>8, <1>9 DEF BarOK, KeptInv
  <2>2. ~s.blind => s.freed >= b.claimed
    <3>1. CASE hides
      BY <1>3, <1>5, <1>8, <1>9, <3>1
    <3>2. CASE ~hides
      BY <1>2, <1>6, <1>8, <1>9, <3>2 DEF BarOK, KeptInv
    <3> QED
      BY <3>1, <3>2
  <2>3. ~s.footer.shown
    BY <1>9 DEF NoFooter
  <2> QED
    BY <1>8, <1>9, <2>1, <2>2, <2>3 DEF KeptInv
<1>11. BarOK' /\ writing' = writing /\ Redraws(b, s)
       /\ (FooterInv(b, s) => FooterInv(bar, screen)')
       /\ (SafeBoundary(b.stream) /\ ~b.closed => ~bar'.pending)
  BY <1>1, <1>8, <1>9, <1>10, RenderKeeps DEF BarOK
<1>12. FooterInv(b, s)
  BY <1>8 DEF FooterInv
<1> QED
  BY <1>8, <1>9, <1>11, <1>12 DEF Keeps, Redraws, menuLines, hid

\* When its window changes the terminal forgets what was drawn.
LEMMA WindowChangesKeeps ==
  ASSUME BarOK, WindowChanges
  PROVE  BarOK' /\ UNCHANGED <<bar, writing>> /\ Bare(screen)' /\ screen'.hid = screen.hid
<1>1. UNCHANGED <<bar, writing>>
  BY DEF WindowChanges
<1>2. /\ screen' \in ScreenType(screen') /\ screen'.bottom = Whole /\ screen'.footer = NoFooter
      /\ screen'.inked = {} /\ screen'.freed = screen.freed /\ screen'.blind = screen.blind
      /\ screen'.hid = screen.hid /\ ~screen'.torn
  BY WholeTyped DEF WindowChanges, BarOK, ScreenType
<1>3. ~screen'.footer.shown
  BY <1>2 DEF NoFooter
<1>4. KeptInv(bar, screen)'
  BY <1>1, <1>2, <1>3 DEF KeptInv, BarOK
<1> QED
  BY <1>1, <1>2, <1>4 DEF BarOK, Bare

\* Closing gives every row back and the region with them, at a boundary.
LEMMA CloseKeeps ==
  ASSUME BarOK, ~bar.closed, Close
  PROVE  /\ BarOK' /\ writing' = writing /\ bar' = [bar EXCEPT !.closed = TRUE]
         /\ screen'.hid = screen.hid
         /\ SafeBoundary(bar.stream) => Bare(screen)'
<1> DEFINE drawn == IF Visible(bar.rows) THEN (ContentRows(bar) + 1)..bar.rows ELSE {}
           rows == bar.clear \cup drawn
           wiped == Wiped(screen, rows, writing)
<1>1. writing' = writing /\ bar' = [bar EXCEPT !.closed = TRUE]
  BY DEF Close
<1>2. /\ bar' \in BarType(bar') /\ bar'.rows = bar.rows /\ bar'.menu = bar.menu
      /\ bar'.stream = bar.stream /\ bar'.clear = bar.clear /\ bar'.dirty = bar.dirty
      /\ bar'.claimed = bar.claimed /\ bar'.pending = bar.pending
  BY <1>1 DEF BarOK, BarType
<1>3. CASE ~SafeBoundary(bar.stream)
  <2>1. screen' = screen
    BY <1>3 DEF Close
  <2> QED
    BY <1>1, <1>2, <1>3, <2>1 DEF BarOK, KeptInv, Own, ContentRows, Reserved
<1>4. CASE SafeBoundary(bar.stream)
  <2>1. screen' = [wiped EXCEPT !.footer = NoFooter, !.menu = NoLines]
    BY <1>4 DEF Close
  <2>2. /\ bar.rows \in Nat /\ MinimumRows \in Nat /\ bar.menu.count \in Nat
        /\ Visible(bar.rows) => bar.rows \in drawn
    BY HeightFacts DEF BarOK, BarType, LinesType, ContentRows, Reserved
  <2>3. ~Cut(writing)
    BY <1>4 DEF BarOK
  <2>4. /\ wiped \in ScreenType(wiped) /\ wiped.inked = screen.inked \ rows
        /\ wiped.bottom = IF rows = {} THEN screen.bottom ELSE Whole
        /\ wiped.freed = screen.freed /\ wiped.hid = screen.hid /\ wiped.blind = screen.blind
        /\ ~wiped.torn
    <3>1. CASE rows = {}
      BY <3>1 DEF Wiped, BarOK
    <3>2. CASE rows # {}
      <4>1. wiped = [screen EXCEPT !.bottom = Whole, !.inked = @ \ rows, !.torn = FALSE]
        BY <2>3, <3>2 DEF Wiped, BarOK, ScreenType
      <4> HIDE DEF wiped, rows
      <4>2. wiped \in ScreenType(wiped)
        BY <4>1, WholeTyped DEF BarOK, ScreenType
      <4>3. /\ wiped.inked = screen.inked \ rows /\ wiped.bottom = Whole
            /\ wiped.freed = screen.freed /\ wiped.hid = screen.hid
            /\ wiped.blind = screen.blind /\ ~wiped.torn
        BY <4>1 DEF BarOK, ScreenType
      <4> QED
        BY <3>2, <4>2, <4>3
    <3> QED
      BY <3>1, <3>2
  <2>5. screen.inked \ rows = {}
    <3>1. Visible(bar.rows) => screen.inked \ bar.clear \subseteq drawn
      BY DEF BarOK, KeptInv, Own
    <3>2. ~Visible(bar.rows) => screen.inked = {}
      BY DEF BarOK, KeptInv
    <3> QED
      BY <3>1, <3>2
  <2>6. rows = {} => screen.bottom = Whole
    <3>1. rows = {} => ~Visible(bar.rows) /\ bar.clear = {}
      BY <2>2
    <3> QED
      BY <3>1 DEF BarOK, KeptInv
  <2> HIDE DEF wiped, rows
  <2>7. /\ screen' \in ScreenType(screen') /\ screen'.inked = {} /\ screen'.bottom = Whole
        /\ screen'.footer = NoFooter /\ screen'.freed = screen.freed
        /\ screen'.hid = screen.hid /\ screen'.blind = screen.blind /\ ~screen'.torn
    BY <2>1, <2>4, <2>5, <2>6 DEF ScreenType
  <2>8. ~screen'.footer.shown
    BY <2>7 DEF NoFooter
  <2>9. KeptInv(bar, screen)'
    BY <1>2, <2>7, <2>8 DEF BarOK, KeptInv
  <2> QED
    BY <1>1, <1>2, <2>3, <2>7, <2>9 DEF BarOK, Bare
<1> QED
  BY <1>3, <1>4

\* A write of the session passes through, and what it undid is drawn again.
LEMMA WriteKeeps ==
  ASSUME BarOK, NEW chunk \in Seq(Bytes), NEW item, NEW sent, NEW done,
         Write(chunk, item, sent, done),
         SafeBoundary(Consume(bar.stream, chunk)) => ~Cut([item |-> item, sent |-> sent]),
         done \cap ResetSequences # {} => ResetsLayout(bar.tail \o chunk)
  PROVE  /\ BarOK' /\ writing' = [item |-> item, sent |-> sent]
         /\ bar'.stream = Consume(bar.stream, chunk)
         /\ bar'.tail = TailOf(bar.tail \o chunk)
         /\ bar'.content = bar.content /\ bar'.closed = bar.closed /\ SamePlaces
         /\ FooterInv(bar, screen) => FooterInv(bar, screen)'
         /\ bar'.handoff = NoSession /\ SafeBoundary(bar'.stream) /\ ~bar.closed => ~bar'.pending
<1> DEFINE seen == bar.tail \o chunk
           reset == ResetsLayout(seen)
           handoff == IF bar.handoff = NoSession /\ AsksHandoff(seen) THEN Nested ELSE bar.handoff
           stream == Consume(bar.stream, chunk)
           tail == TailOf(seen)
           b == [bar EXCEPT !.dirty = @ \/ reset, !.pending = @ \/ reset,
                            !.stream = stream, !.tail = tail, !.handoff = handoff]
           w == [item |-> item, sent |-> sent]
           s == Shown(screen, done)
<1>1. IF b.handoff # NoSession THEN bar' = b /\ screen' = s /\ writing' = w
      ELSE Render(b, s, w)
  BY DEF Write, BarOK, BarType
<1>2. tail \in Seq(Bytes)
  <2>1. seen \in Seq(Bytes)
    BY DEF BarOK, BarType
  <2> HIDE DEF seen
  <2> QED
    BY <2>1, TailTyped
<1>3. reset \in BOOLEAN
  BY DEF ResetsLayout
<1>4. done \cap ResetSequences # {} => reset
  OBVIOUS
<1>5. SafeBoundary(stream) => ~Cut(w)
  OBVIOUS
<1> HIDE DEF seen, reset, handoff, stream, tail, w
<1>6. /\ b \in BarType(b) /\ b.rows = bar.rows /\ b.menu = bar.menu /\ b.content = bar.content
      /\ b.stream = stream /\ b.tail = tail /\ b.handoff = handoff
      /\ b.closed = bar.closed /\ b.clear = bar.clear /\ b.claimed = bar.claimed
      /\ b.dirty = (bar.dirty \/ reset) /\ b.pending = (bar.pending \/ reset)
  BY <1>2, <1>3 DEF BarOK, BarType
<1> HIDE DEF b
<1>7. /\ s \in ScreenType(s) /\ s.freed = screen.freed /\ s.blind = screen.blind
      /\ s.hid = screen.hid /\ ~s.torn /\ s.inked \subseteq screen.inked
      /\ s.bottom = screen.bottom \/ s.bottom = Whole
      /\ (s.footer = screen.footer /\ s.menu = screen.menu) \/ s.footer = NoFooter
      /\ ~reset => s = screen
  <2> DEFINE erased == done \cap {<<"ESC", "[", "J">>, <<"ESC", "c">>} # {}
             unbound == done \cap {<<"ESC", "[", "r">>, <<"ESC", "c">>} # {}
             bottom == IF unbound THEN Whole ELSE screen.bottom
             footer == IF erased THEN NoFooter ELSE screen.footer
             menuLines == IF erased THEN NoLines ELSE screen.menu
             inked == IF erased THEN {} ELSE screen.inked
  <2>1. s = [screen EXCEPT !.bottom = bottom, !.footer = footer, !.menu = menuLines,
                           !.inked = inked]
    BY DEF Shown, BarOK, ScreenType
  <2>2. bottom \in Int /\ inked \in SUBSET Int /\ inked \subseteq screen.inked
        /\ (bottom = screen.bottom \/ bottom = Whole)
        /\ ((footer = screen.footer /\ menuLines = screen.menu) \/ footer = NoFooter)
    BY WholeTyped DEF BarOK, ScreenType
  <2>3. ~reset => ~erased /\ ~unbound
    BY <1>4 DEF ResetSequences
  <2>4. ~reset => bottom = screen.bottom /\ footer = screen.footer
                  /\ menuLines = screen.menu /\ inked = screen.inked
    BY <2>3
  <2> HIDE DEF bottom, footer, menuLines, inked
  <2>5. /\ s \in ScreenType(s) /\ s.bottom = bottom /\ s.footer = footer /\ s.menu = menuLines
        /\ s.inked = inked /\ s.freed = screen.freed /\ s.blind = screen.blind
        /\ s.hid = screen.hid /\ ~s.torn
    BY <2>1, <2>2 DEF BarOK, ScreenType
  <2>6. ~reset => s = screen
    BY <2>1, <2>4 DEF BarOK, ScreenType
  <2> QED
    BY <2>2, <2>5, <2>6
<1> HIDE DEF s
<1>8. KeptInv(b, s)
  <2>1. ~NoFooter.shown
    BY DEF NoFooter
  <2>2. Own(b) = Own(bar)
    BY <1>6 DEF Own, ContentRows, Reserved
  <2>3. b.clear # {} => b.pending /\ b.dirty
    BY <1>6 DEF BarOK, KeptInv
  <2>4. ~Visible(b.rows) => s.inked = {} /\ (b.clear = {} => s.bottom = Whole)
    BY <1>6, <1>7 DEF BarOK, KeptInv
  <2>5. Visible(b.rows) => s.inked \ b.clear \subseteq Own(b)
    BY <1>6, <1>7, <2>2 DEF BarOK, KeptInv
  <2>6. ~s.blind => s.freed >= b.claimed
    BY <1>6, <1>7 DEF BarOK, KeptInv
  <2>7. s.footer.shown /\ ~s.blind => s.freed >= 1 + s.menu.count
    BY <1>6, <1>7, <2>1 DEF BarOK, KeptInv
  <2>8. Visible(b.rows) /\ b.dirty => b.pending
    BY <1>6 DEF BarOK, KeptInv
  <2> QED
    BY <2>3, <2>4, <2>5, <2>6, <2>7, <2>8 DEF KeptInv
<1>9. FooterInv(bar, screen) => FooterInv(b, s)
  <2>1. CASE reset
    BY <1>6, <2>1 DEF FooterInv
  <2>2. CASE ~reset
    BY <1>6, <1>7, <2>2 DEF FooterInv, Own, ContentRows, Reserved, Footer
  <2> QED
    BY <1>3, <2>1, <2>2
<1>10. CASE b.handoff # NoSession
  <2>1. bar' = b /\ screen' = s /\ writing' = w
    BY <1>1, <1>10
  <2> QED
    BY <1>5, <1>6, <1>7, <1>8, <1>9, <1>10, <2>1 DEF BarOK, SamePlaces, stream, tail, seen, w
<1>11. CASE b.handoff = NoSession
  <2>1. Render(b, s, w)
    BY <1>1, <1>11
  <2>2. BarOK' /\ writing' = w /\ Redraws(b, s)
        /\ (FooterInv(b, s) => FooterInv(bar, screen)')
        /\ (SafeBoundary(b.stream) /\ ~b.closed => ~bar'.pending)
    BY <1>5, <1>6, <1>7, <1>8, <2>1, RenderKeeps
  <2> QED
    BY <1>6, <1>7, <1>9, <2>2 DEF SamePlaces, Redraws, stream, tail, seen, w
<1> QED
  BY <1>10, <1>11

-----------------------------------------------------------------------------
(* The bytes the session writes. *)

\* An item is whole, and so is the byte the session wrote before it attached.
LEMMA ItemFacts ==
  ASSUME NEW item, item \in Items \cup {<<"t">>}
  PROVE  /\ item \in Seq(Bytes) /\ Len(item) \in Nat \ {0}
         /\ \A n \in 1..Len(item) :
              Consume(Ground, SubSeq(item, 1, n)) = Ground <=> n = Len(item)
<1>1. CASE item \in Items
  BY <1>1, ItemsAreWhole DEF ItemsAssumption, IsItem
<1>2. CASE item = <<"t">>
  <2>1. item \in Seq(Bytes) /\ Len(item) = 1
    <3>1. "t" \in Bytes
      BY DEF Bytes
    <3> QED
      BY <1>2, <3>1
  <2>2. Consume(Ground, SubSeq(item, 1, 1)) = Take(Ground, "t")
    <3> DEFINE none == <<>>
    <3>1. none \in Seq(Bytes) /\ "t" \in Bytes
      BY DEF Bytes
    <3>2. Append(none, "t") = item
      BY <1>2
    <3>3. SubSeq(item, 1, 1) = item
      BY <2>1, SubSeqFull
    <3>4. Consume(Ground, none) = Ground
      BY ConsumeNothing
    <3> HIDE DEF none
    <3>5. Consume(Ground, Append(none, "t")) = Take(Consume(Ground, none), "t")
      BY <3>1, ConsumeAppend
    <3> QED
      BY <3>2, <3>3, <3>4, <3>5
  <2>3. Take(Ground, "t") = Ground
    BY DEF Take, Ground, Mode, Lead
  <2>4. Consume(Ground, SubSeq(item, 1, 1)) = Ground
    BY <2>2, <2>3
  <2> QED
    BY <2>1, <2>4
<1> QED
  BY <1>1, <1>2

\* The same for bytes, as a fact of its own.
LEMMA BytesConsume ==
  \A stream : \A a, b \in Seq(Bytes) :
    Consume(Consume(stream, a), b) = Consume(stream, a \o b)
BY ConsumeConcat

\* Bytes may be put together in any order.
LEMMA BytesConcat ==
  \A a, b, c \in Seq(Bytes) : b \o c \in Seq(Bytes) /\ a \o (b \o c) = (a \o b) \o c
<1>1. TAKE a, b, c \in Seq(Bytes)
<1>2. b \o c \in Seq(Bytes)
  BY ConcatProperties
<1>3. a \o (b \o c) = (a \o b) \o c
  BY ConcatAssociative
<1> QED
  BY <1>2, <1>3

\* What is known after a chunk of the session's output.
WroteOK ==
  /\ BarOK' /\ StreamInv' /\ bar'.content = bar.content /\ bar'.closed = bar.closed /\ SamePlaces
  /\ FooterInv(bar, screen) => FooterInv(bar, screen)'
  /\ bar'.handoff = NoSession /\ SafeBoundary(bar'.stream) /\ ~bar.closed => ~bar'.pending

\* The tail is as long as every sequence that undoes the footer.
LEMMA ResetsAreShort ==
  ASSUME NEW item \in ResetSequences
  PROVE  Len(item) <= TailBytes
<1>1. Len(<<"ESC", "c">>) = 2 /\ Len(<<"ESC", "[", "J">>) = 3 /\ Len(<<"ESC", "[", "r">>) = 3
  OBVIOUS
<1>2. CASE item = <<"ESC", "c">>
  BY <1>1, <1>2 DEF TailBytes
<1>3. CASE item = <<"ESC", "[", "J">>
  BY <1>1, <1>3 DEF TailBytes
<1>4. CASE item = <<"ESC", "[", "r">>
  BY <1>1, <1>4 DEF TailBytes
<1> QED
  BY <1>2, <1>3, <1>4 DEF ResetSequences

\* A chunk that ends where `sent` bytes of an item are out: the parser is at a
\* boundary exactly when they are all of it, and an item that undoes the
\* footer is found in the tail and the chunk once it is complete.
LEMMA ChunkKeeps ==
  ASSUME BarOK, NEW chunk \in Seq(Bytes),
         NEW item \in Items \cup {<<"t">>}, NEW sent \in 1..Len(item), NEW done,
         Write(chunk, item, sent, done),
         Consume(bar.stream, chunk) = Consume(Ground, SubSeq(item, 1, sent)),
         item \in ResetSequences => EndsWith(bar.tail \o chunk, SubSeq(item, 1, sent)),
         done \cap ResetSequences # {} => ResetsLayout(bar.tail \o chunk)
  PROVE  WroteOK
<1> DEFINE w == [item |-> item, sent |-> sent]
           part == SubSeq(item, 1, sent)
           seen == bar.tail \o chunk
<1>1. item \in Seq(Bytes) /\ Len(item) \in Nat
      /\ (Consume(Ground, part) = Ground <=> sent = Len(item))
  BY ItemFacts
<1>2. part \in Seq(Bytes) /\ Len(part) = sent /\ sent <= Len(item)
  BY <1>1
<1>3. seen \in Seq(Bytes)
  BY DEF BarOK, BarType
<1>4. Cut(w) <=> sent # Len(item)
  BY <1>1 DEF Cut
<1>5. SafeBoundary(Consume(bar.stream, chunk)) => ~Cut(w)
  BY <1>1, <1>4 DEF SafeBoundary
<1>6. /\ BarOK' /\ writing' = w
      /\ bar'.stream = Consume(bar.stream, chunk)
      /\ bar'.tail = TailOf(seen)
      /\ bar'.content = bar.content /\ bar'.closed = bar.closed /\ SamePlaces
      /\ FooterInv(bar, screen) => FooterInv(bar, screen)'
      /\ bar'.handoff = NoSession /\ SafeBoundary(bar'.stream) /\ ~bar.closed => ~bar'.pending
  BY <1>5, WriteKeeps
<1>7. item \in ResetSequences => EndsWith(TailOf(seen), part)
  <2>1. SUFFICES ASSUME item \in ResetSequences PROVE EndsWith(TailOf(seen), part)
    OBVIOUS
  <2>2. Len(part) <= TailBytes
    BY <1>1, <1>2, <2>1, ResetsAreShort DEF TailBytes
  <2>3. EndsWith(seen, part)
    BY <2>1
  <2> HIDE DEF seen, part
  <2> QED
    BY <1>2, <1>3, <2>2, <2>3, EndsTail
<1> HIDE DEF seen
<1>8. writing'.item = item /\ writing'.sent = sent /\ SentPart' = part
  BY <1>6 DEF SentPart
<1>9. StreamInv'
  BY <1>6, <1>7, <1>8 DEF StreamInv, BarOK
<1> QED
  BY <1>6, <1>9 DEF WroteOK

\* The bytes of the item under way: those that are out and those to come.
LEMMA RestFacts ==
  ASSUME StreamInv
  PROVE  /\ writing.item \in Seq(Bytes) /\ Len(writing.item) \in Nat
         /\ SentPart \in Seq(Bytes) /\ Rest \in Seq(Bytes) /\ SentPart \o Rest = writing.item
         /\ Len(Rest) = Len(writing.item) - writing.sent
         /\ \A n \in 1..Len(Rest) : SubSeq(Rest, 1, n) \in Seq(Bytes)
              /\ SentPart \o SubSeq(Rest, 1, n) = SubSeq(writing.item, 1, writing.sent + n)
<1> DEFINE item == writing.item
           sent == writing.sent
<1>1. item \in Seq(Bytes) /\ Len(item) \in Nat /\ sent \in 1..Len(item)
  BY ItemFacts DEF StreamInv
<1> HIDE DEF item, sent
<1>2. SubSeq(item, 1, sent) \in Seq(Bytes) /\ SubSeq(item, sent + 1, Len(item)) \in Seq(Bytes)
      /\ Len(SubSeq(item, sent + 1, Len(item))) = Len(item) - sent
  BY <1>1
<1>3. \A k \in sent..Len(item) :
        SubSeq(item, 1, sent) \o SubSeq(item, sent + 1, k) = SubSeq(item, 1, k)
  BY <1>1, ConcatAdjacentSubSeq
<1>4. \A n \in 1..(Len(item) - sent) :
        SubSeq(SubSeq(item, sent + 1, Len(item)), 1, n) = SubSeq(item, sent + 1, sent + n)
        /\ SubSeq(item, sent + 1, sent + n) \in Seq(Bytes)
  BY <1>1
<1>5. SubSeq(item, 1, Len(item)) = item /\ Len(item) \in sent..Len(item)
  BY <1>1, SubSeqFull
<1>6. \A n \in 1..(Len(item) - sent) : sent + n \in sent..Len(item)
  BY <1>1
<1> QED
  BY <1>1, <1>2, <1>3, <1>4, <1>5, <1>6 DEF Rest, SentPart, item, sent

\* A chunk that goes on with the item under way.
LEMMA WriteRestKeeps ==
  ASSUME BarOK, StreamInv, WriteRest
  PROVE  WroteOK
<1>1. PICK n \in 1..Len(Rest) :
        Write(SubSeq(Rest, 1, n), writing.item, writing.sent + n,
              IF n = Len(Rest) THEN {writing.item} ELSE {})
  BY DEF WriteRest
<1> DEFINE chunk == SubSeq(Rest, 1, n)
           item == writing.item
           sent == writing.sent + n
           done == IF n = Len(Rest) THEN {item} ELSE {}
           seen == bar.tail \o chunk
<1>2. /\ item \in Seq(Bytes) /\ Len(item) \in Nat /\ SentPart \in Seq(Bytes)
      /\ chunk \in Seq(Bytes) /\ SentPart \o chunk = SubSeq(item, 1, sent)
      /\ Len(Rest) = Len(item) - writing.sent
  BY RestFacts
<1>3. item \in Items \cup {<<"t">>} /\ sent \in 1..Len(item) /\ bar.tail \in Seq(Bytes)
  BY <1>2 DEF StreamInv, BarOK, BarType
<1>4. n = Len(Rest) => sent = Len(item)
  <2>1. writing.sent \in Int
    BY <1>2 DEF StreamInv
  <2> HIDE DEF item
  <2> QED
    BY <1>2, <2>1
<1> HIDE DEF chunk
<1>5. Consume(bar.stream, chunk) = Consume(Ground, SubSeq(item, 1, sent))
  <2>1. Consume(Consume(Ground, SentPart), chunk) = Consume(Ground, SentPart \o chunk)
    BY <1>2, BytesConsume
  <2> QED
    BY <1>2, <2>1 DEF StreamInv
<1>6. item \in ResetSequences => EndsWith(seen, SubSeq(item, 1, sent))
  <2>1. SUFFICES ASSUME item \in ResetSequences PROVE EndsWith(seen, SubSeq(item, 1, sent))
    OBVIOUS
  <2>2. EndsWith(bar.tail, SentPart)
    BY <2>1 DEF StreamInv
  <2>3. EndsWith(bar.tail \o chunk, SentPart \o chunk)
    BY <1>2, <1>3, <2>2, EndsConcat
  <2> QED
    BY <1>2, <2>3
<1>7. done \cap ResetSequences # {} => ResetsLayout(seen)
  <2>1. SUFFICES ASSUME done \cap ResetSequences # {} PROVE ResetsLayout(seen)
    OBVIOUS
  <2>2. item \in ResetSequences /\ n = Len(Rest)
    BY <2>1
  <2>3. EndsWith(seen, item)
    BY <1>2, <1>4, <1>6, <2>2, SubSeqFull
  <2>4. seen \in Seq(Bytes) /\ seen \o <<>> = seen /\ <<>> \in Seq(Bytes)
    BY <1>2, <1>3
  <2> HIDE DEF seen
  <2>5. Holds(seen \o <<>>, item)
    BY <1>2, <2>3, <2>4, EndsHolds
  <2> QED
    BY <2>2, <2>4, <2>5 DEF ResetsLayout
<1>8. Write(chunk, item, sent, done)
  BY <1>1 DEF chunk
<1> HIDE DEF item, sent, done, seen
<1> QED
  BY <1>2, <1>3, <1>5, <1>6, <1>7, <1>8, ChunkKeeps DEF seen

\* A chunk that ends it and starts another.
LEMMA WriteFreshKeeps ==
  ASSUME BarOK, StreamInv, WriteFresh
  PROVE  WroteOK
<1>0. PICK item \in Items : \E n \in 1..Len(item) :
        Write(Rest \o SubSeq(item, 1, n), item, n,
              (IF Rest = <<>> THEN {} ELSE {writing.item})
                \cup IF n = Len(item) THEN {item} ELSE {})
  BY DEF WriteFresh
<1>1. PICK n \in 1..Len(item) :
        Write(Rest \o SubSeq(item, 1, n), item, n,
              (IF Rest = <<>> THEN {} ELSE {writing.item})
                \cup IF n = Len(item) THEN {item} ELSE {})
  BY <1>0
<1> DEFINE part == SubSeq(item, 1, n)
           chunk == Rest \o part
           old == writing.item
           done == (IF Rest = <<>> THEN {} ELSE {old}) \cup IF n = Len(item) THEN {item} ELSE {}
           before == bar.tail \o Rest
           seen == bar.tail \o chunk
<1>2. /\ old \in Seq(Bytes) /\ Len(old) \in Nat /\ SentPart \in Seq(Bytes)
      /\ Rest \in Seq(Bytes) /\ SentPart \o Rest = old
  BY RestFacts
<1>3. item \in Items \cup {<<"t">>} /\ item \in Seq(Bytes) /\ part \in Seq(Bytes)
      /\ bar.tail \in Seq(Bytes) /\ part = SubSeq(item, 1, n) /\ (n = Len(item) => part = item)
  BY ItemFacts, SubSeqFull DEF BarOK, BarType
<1> HIDE DEF part
<1>4. chunk \in Seq(Bytes) /\ before \in Seq(Bytes) /\ seen = before \o part /\ seen \in Seq(Bytes)
  <2>1. chunk \in Seq(Bytes) /\ before \in Seq(Bytes)
    BY <1>2, <1>3, ConcatProperties
  <2>2. bar.tail \o (Rest \o part) = (bar.tail \o Rest) \o part
    <3>1. bar.tail \in Seq(Bytes) /\ Rest \in Seq(Bytes) /\ part \in Seq(Bytes)
      BY <1>2, <1>3
    <3> QED
      BY ONLY <3>1, BytesConcat
  <2> HIDE DEF chunk, before
  <2>3. before \o part \in Seq(Bytes)
    BY <1>3, <2>1, ConcatProperties
  <2> QED
    BY <2>1, <2>2, <2>3 DEF chunk, before
<1>5. Consume(bar.stream, chunk) = Consume(Ground, part)
  <2>1. Consume(bar.stream, Rest) = Consume(Ground, old)
    <3>1. Consume(Consume(Ground, SentPart), Rest) = Consume(Ground, SentPart \o Rest)
      BY <1>2, BytesConsume
    <3> QED
      BY <1>2, <3>1 DEF StreamInv
  <2>2. Consume(Ground, old) = Ground
    <3>1. old \in Items \cup {<<"t">>}
      BY DEF StreamInv
    <3>2. SubSeq(old, 1, Len(old)) = old
      BY <1>2, SubSeqFull
    <3>3. Len(old) \in 1..Len(old)
      BY <3>1, ItemFacts
    <3> HIDE DEF old
    <3> QED
      BY <3>1, <3>2, <3>3, ItemFacts
  <2>3. Consume(Consume(bar.stream, Rest), part) = Consume(bar.stream, chunk)
    <3>1. Rest \in Seq(Bytes) /\ part \in Seq(Bytes)
      BY <1>2, <1>3
    <3> QED
      BY <3>1, BytesConsume
  <2> QED
    BY <2>1, <2>2, <2>3
<1>6. EndsWith(seen, part)
  BY <1>3, <1>4, EndsSelf
<1>7. done \cap ResetSequences # {} => ResetsLayout(seen)
  <2>1. SUFFICES ASSUME NEW reset \in done \cap ResetSequences PROVE Holds(seen, reset)
    BY DEF ResetsLayout
  <2>2. CASE reset = old /\ Rest # <<>>
    <3>1. EndsWith(bar.tail, SentPart)
      BY <2>1, <2>2 DEF StreamInv
    <3>2. EndsWith(before, old)
      BY <1>2, <1>3, <3>1, EndsConcat
    <3> HIDE DEF before, seen, old
    <3> QED
      BY <1>2, <1>3, <1>4, <2>2, <3>2, EndsHolds
  <2>3. CASE reset = item /\ n = Len(item)
    <3>1. EndsWith(seen, item)
      BY <1>3, <1>6, <2>3
    <3>2. seen \o <<>> = seen /\ <<>> \in Seq(Bytes)
      BY <1>4
    <3> HIDE DEF seen
    <3>3. Holds(seen \o <<>>, item)
      BY <1>3, <1>4, <3>1, <3>2, EndsHolds
    <3> QED
      BY <2>3, <3>2, <3>3
  <2> QED
    BY <2>1, <2>2, <2>3
<1>8. Write(chunk, item, n, done)
  BY <1>1 DEF part
<1> HIDE DEF chunk, old, done, before
<1> QED
  BY <1>3, <1>4, <1>5, <1>6, <1>7, <1>8, ChunkKeeps

-----------------------------------------------------------------------------
(* The frames and the calls. *)

\* What the daemon does with a frame: it may stop reading, and only a resize
\* frame changes the size of the session.
Framed(kind, value) ==
  /\ session' \in SessionType(session')
  /\ session'.status = session.status /\ session'.stream = session.stream
  /\ session'.dropped = session.dropped
  /\ session'.reading => session.reading
  /\ kind # "resize" => session'.pty = session.pty /\ session'.overtaken = session.overtaken
  /\ kind = "resize" =>
       \/ connection = "closed" \/ ~session'.reading
       \/ session'.pty = Normalized(value.rows % 65536) \/ session'.overtaken

\* What a frame does to the daemon; a resize frame leaves the session the size
\* of the bar, unless it is overtaken or the daemon reads no more.
LEMMA FrameKeeps ==
  ASSUME session \in SessionType(session), NEW kind, NEW value, Frame(kind, value),
         kind = "mute" => value \in BOOLEAN,
         kind = "resize" => value \in SizeType
  PROVE  /\ Framed(kind, value)
         /\ kind = "resize" =>
              \/ connection = "closed" \/ ~session'.reading \/ session'.overtaken
              \/ session'.pty = Normalized(ContentRows(bar) % 65536)
<1>1. CASE connection = "closed" \/ ~session.reading
  <2>1. session' = session
    BY <1>1 DEF Frame
  <2> QED
    BY <1>1, <2>1 DEF Framed, SessionType
<1>2. CASE ~(connection = "closed" \/ ~session.reading)
  <2>1. CASE kind = "detach" \/ session.status # "running"
    <3>1. session' = [session EXCEPT !.reading = FALSE]
      BY <1>2, <2>1 DEF Frame
    <3>2. /\ session' \in SessionType(session') /\ session'.status = session.status
          /\ session'.stream = session.stream /\ session'.dropped = session.dropped
          /\ ~session'.reading
          /\ session'.pty = session.pty /\ session'.overtaken = session.overtaken
      BY <3>1 DEF SessionType
    <3> QED
      BY <3>2 DEF Framed
  <2>2. CASE ~(kind = "detach" \/ session.status # "running") /\ kind = "resize"
    <3> DEFINE overtaken == value.of # ContentRows(bar)
               pty == Normalized(value.rows % 65536)
    <3>1. session' = [session EXCEPT !.pty = pty, !.overtaken = overtaken]
      BY <1>2, <2>2 DEF Frame
    <3>2. overtaken \in BOOLEAN
      OBVIOUS
    <3>3. ~overtaken => pty = Normalized(ContentRows(bar) % 65536)
      BY <2>2 DEF SizeType
    <3> HIDE DEF overtaken, pty
    <3>4. /\ session' \in SessionType(session') /\ session'.status = session.status
          /\ session'.stream = session.stream /\ session'.dropped = session.dropped
          /\ session'.reading = session.reading
          /\ session'.pty = pty /\ session'.overtaken = overtaken
      BY <3>1, <3>2 DEF SessionType
    <3> QED
      BY <2>2, <3>3, <3>4 DEF Framed, pty
  <2>3. CASE ~(kind = "detach" \/ session.status # "running") /\ kind = "mute"
    <3>1. session' = [session EXCEPT !.muted = value]
      BY <1>2, <2>3 DEF Frame
    <3>2. /\ session' \in SessionType(session') /\ session'.status = session.status
          /\ session'.stream = session.stream /\ session'.dropped = session.dropped
          /\ session'.reading = session.reading
          /\ session'.pty = session.pty /\ session'.overtaken = session.overtaken
      BY <2>3, <3>1 DEF SessionType
    <3> QED
      BY <2>3, <3>2 DEF Framed
  <2>4. CASE ~(kind = "detach" \/ session.status # "running") /\ kind \notin {"resize", "mute"}
    <3>1. session' = session
      BY <1>2, <2>4 DEF Frame
    <3> QED
      BY <2>4, <3>1 DEF Framed, SessionType
  <2> QED
    BY <2>1, <2>2, <2>3, <2>4
<1> QED
  BY <1>1, <1>2

\* The calls a byte or a call leads to.
LEMMA FirstCalls ==
  ASSUME reader \in ReaderType(reader)
  PROVE  LET Fits(calls) ==
               calls \in Seq(CallNames) /\ \A i \in 1..Len(calls) :
                 calls[i] \notin {"lines", "size", "toggle"}
         IN /\ Fits(<<>>) /\ Fits(LastFlush) /\ Fits(LastFlush \o <<"focus">>)
            /\ Fits(Reports \o LastFlush)
            /\ Fits(<<"tryFlush", "detach", "onDetach", "close", "report", "stop">>)
            /\ Fits(Flush \o <<"mute", "muted">>) /\ Fits(Flush \o <<"new">>)
            /\ Fits(Flush \o <<"switch">>)
            /\ Fits(<<"handoff">>) /\ Fits(<<"detach", "close">>)
            /\ Fits(<<"report", "stop">>) /\ Fits(<<"stop">>)
<1> DEFINE Fits(calls) ==
             calls \in Seq(CallNames) /\ \A i \in 1..Len(calls) :
               calls[i] \notin {"lines", "size", "toggle"}
<1>1. Fits(<<>>) /\ Fits(<<"lastFlush">>) /\ Fits(<<"focus">>) /\ Fits(<<"report">>)
      /\ Fits(<<"flush">>) /\ Fits(<<"mute", "muted">>) /\ Fits(<<"new">>) /\ Fits(<<"switch">>)
  BY DEF CallNames
<1>2. Fits(<<"tryFlush", "detach", "onDetach", "close", "report", "stop">>)
  BY DEF CallNames
<1>3. Fits(<<"handoff">>) /\ Fits(<<"detach", "close">>)
      /\ Fits(<<"report", "stop">>) /\ Fits(<<"stop">>)
  BY DEF CallNames
<1>4. ASSUME NEW a, NEW b, Fits(a), Fits(b)
      PROVE  Fits(a \o b)
  <2>1. /\ a \o b \in Seq(CallNames) /\ Len(a) \in Nat /\ Len(b) \in Nat
        /\ Len(a \o b) = Len(a) + Len(b)
        /\ \A i \in 1..Len(a) + Len(b) :
             (a \o b)[i] = IF i <= Len(a) THEN a[i] ELSE b[i - Len(a)]
    BY <1>4, ConcatProperties
  <2>2. ASSUME NEW i \in 1..Len(a \o b)
        PROVE  (a \o b)[i] \notin {"lines", "size", "toggle"}
    <3>1. CASE i <= Len(a)
      BY <1>4, <2>1, <3>1
    <3>2. CASE i > Len(a)
      <4>1. i - Len(a) \in 1..Len(b)
        BY <2>1, <3>2
      <4> QED
        BY <1>4, <2>1, <3>2, <4>1
    <3> QED
      BY <2>1, <3>1, <3>2
  <2> QED
    BY <2>1, <2>2
<1>5. Flush \in {<<>>, <<"flush">>} /\ LastFlush \in {<<>>, <<"lastFlush">>}
      /\ Reports \in {<<>>, <<"report">>}
  BY DEF Flush, LastFlush, Reports
<1> HIDE DEF Fits
<1>6. Fits(Flush) /\ Fits(LastFlush) /\ Fits(Reports)
  BY <1>1, <1>5
<1>7. Fits(LastFlush \o <<"focus">>) /\ Fits(Reports \o LastFlush)
      /\ Fits(Flush \o <<"mute", "muted">>) /\ Fits(Flush \o <<"new">>)
      /\ Fits(Flush \o <<"switch">>)
  BY <1>1, <1>4, <1>6
<1> QED
  BY <1>1, <1>2, <1>3, <1>6, <1>7 DEF Fits

\* A repaint, and what may follow it.
LEMMA RepaintCalls ==
  \A calls \in {Repaint, Repaint \o <<>>, Repaint \o <<"handoff">>} :
    /\ calls \in Seq(CallNames) /\ calls # <<>> /\ Head(calls) = "lines"
    /\ \A i \in 1..Len(calls) :
         /\ calls[i] = "lines" => i < Len(calls) /\ calls[i + 1] = "size"
         /\ calls[i] = "size" => i < Len(calls) /\ calls[i + 1] = "resize"
         /\ calls[i] # "toggle"
<1>1. /\ Repaint = <<"lines", "size", "resize">> /\ Repaint \o <<>> = Repaint
      /\ Repaint \in Seq(CallNames) /\ <<"handoff">> \in Seq(CallNames)
      /\ Len(Repaint) = 3 /\ Len(<<"handoff">>) = 1
  BY DEF Repaint, CallNames
<1>2. ASSUME NEW calls, calls = <<"lines", "size", "resize">>
      PROVE  /\ calls \in Seq(CallNames) /\ calls # <<>> /\ Head(calls) = "lines"
             /\ \A i \in 1..Len(calls) :
                  /\ calls[i] = "lines" => i < Len(calls) /\ calls[i + 1] = "size"
                  /\ calls[i] = "size" => i < Len(calls) /\ calls[i + 1] = "resize"
                  /\ calls[i] # "toggle"
  BY <1>2 DEF CallNames
<1>3. ASSUME NEW calls, calls = Repaint \o <<"handoff">>
      PROVE  /\ calls \in Seq(CallNames) /\ calls # <<>> /\ Head(calls) = "lines"
             /\ \A i \in 1..Len(calls) :
                  /\ calls[i] = "lines" => i < Len(calls) /\ calls[i + 1] = "size"
                  /\ calls[i] = "size" => i < Len(calls) /\ calls[i + 1] = "resize"
                  /\ calls[i] # "toggle"
  <2>1. calls \in Seq(CallNames) /\ Len(calls) = 4
        /\ calls[1] = "lines" /\ calls[2] = "size" /\ calls[3] = "resize" /\ calls[4] = "handoff"
    BY <1>1, <1>3, ConcatProperties
  <2>2. calls # <<>> /\ Head(calls) = "lines"
    BY <2>1
  <2>3. \A i \in 1..Len(calls) : i = 1 \/ i = 2 \/ i = 3 \/ i = 4
    BY <2>1
  <2> QED
    BY <2>1, <2>2, <2>3
<1> QED
  BY <1>1, <1>2, <1>3

-----------------------------------------------------------------------------
(* What an action of the input leaves to the rest of the client. *)

\* The parser is at a boundary exactly when nothing is half written.
LEMMA Boundary ==
  ASSUME StreamInv
  PROVE  SafeBoundary(bar.stream) <=> ~Cut(writing)
<1>1. writing.item \in Seq(Bytes) /\ Len(writing.item) \in Nat
      /\ (Consume(Ground, SentPart) = Ground <=> writing.sent = Len(writing.item))
  BY ItemFacts DEF StreamInv, SentPart
<1>2. writing.sent \in 1..Len(writing.item)
  BY DEF StreamInv
<1> QED
  BY <1>1, <1>2 DEF StreamInv, SafeBoundary, Cut

\* The invariant says of the bar what its methods need.
LEMMA BarIsOK ==
  ASSUME OuterInv
  PROVE  BarOK
BY Boundary DEF OuterInv, BarInv, StreamInv, BarOK

\* The bar may be drawn and its handoff requested; nothing else changes.
BarKept ==
  /\ BarOK' /\ writing' = writing /\ bar'.stream = bar.stream /\ bar'.tail = bar.tail
  /\ bar'.closed = bar.closed /\ bar'.rows = bar.rows
  /\ bar'.handoff = NoSession => bar.handoff = NoSession
  /\ DrawsAgain

\* An action that does not touch the bar keeps it.
LEMMA SameBar ==
  ASSUME BarOK, UNCHANGED barVars
  PROVE  BarKept /\ SamePlaces /\ bar'.content = bar.content /\ bar'.handoff = bar.handoff
<1>1. bar' = bar /\ screen' = screen /\ writing' = writing
  BY DEF barVars
<1> QED
  BY <1>1 DEF BarKept, DrawsAgain, SamePlaces, BarOK

\* A method of the bar that leaves its rows alone keeps it.
LEMMA KeepsIsKept ==
  ASSUME Keeps, DrawsAgain, bar'.rows = bar.rows
  PROVE  BarKept
BY DEF Keeps, BarKept

\* What is known of the parser stays when nothing is written.
LEMMA StreamKept ==
  ASSUME StreamInv, ~screen'.torn, writing' = writing, bar'.stream = bar.stream,
         bar'.tail = bar.tail
  PROVE  StreamInv'
BY DEF StreamInv, SentPart

\* What an action of the input owes the rest of the client: the bar kept, and
\* the size of the session.
LEMMA InputOuter ==
  ASSUME OuterInv, Running, main \notin Before, UNCHANGED outerVars, BarKept,
         DaemonType', SizeInv', session'.status = session.status,
         session'.stream = session.stream, session'.dropped = session.dropped,
         connection = "closed" => connection' = "closed"
  PROVE  OuterInv'
<1>1. /\ window' = window /\ winch' = winch /\ main' = main /\ outcome' = outcome
  BY DEF outerVars
<1>2. OuterType'
  BY <1>1 DEF OuterInv, OuterType
<1>3. WindowInv'
  BY <1>1 DEF OuterInv, WindowInv, BarKept
<1>4. StreamInv'
  BY StreamKept DEF OuterInv, BarKept, BarOK
<1>5. outcome = Attached /\ outcome.kind = "none"
  BY DEF Running, Attached, Outcome
<1>6. ExitInv'
  BY <1>1, <1>5 DEF OuterInv, ExitInv, BarKept, LeavesOnlyAtExit, StaysInFalkn, SwitchesOnlyAtExit
<1>7. BarInv'
  <2>1. main \notin {"attach", "draw"}
    BY DEF Before
  <2>2. KeptInv(bar, screen)'
    BY DEF BarKept, BarOK
  <2>3. (~bar.closed /\ Follows => FooterInv(bar, screen))'
    BY <1>1 DEF OuterInv, BarInv, BarKept, DrawsAgain, Follows
  <2>4. (~bar.closed /\ bar.handoff = NoSession /\ SafeBoundary(bar.stream) => ~bar.pending)'
    BY <2>1 DEF OuterInv, BarInv, BarKept, DrawsAgain
  <2>5. Running' /\ ~bar.closed
    BY <1>1 DEF OuterInv, BarInv, Running
  <2> QED
    BY <1>1, <2>1, <2>2, <2>3, <2>4, <2>5 DEF BarInv, BarKept, RestoredAtExit
<1> QED
  BY <1>2, <1>3, <1>4, <1>6, <1>7 DEF OuterInv, BarKept, BarOK

\* An action of the reader alone, which is in no repaint or stays in it.
LEMMA UnmovedOuter ==
  ASSUME OuterInv, Running, main \notin Before, UNCHANGED outerVars,
         UNCHANGED <<connection, session, others, barVars>>,
         Pends(reader.calls) => Pends(reader'.calls)
  PROVE  OuterInv'
<1>1. BarKept /\ SamePlaces
  BY BarIsOK, SameBar
<1>2. DaemonType'
  BY DEF OuterInv, DaemonType
<1>3. ContentRows(bar)' = ContentRows(bar) /\ winch' = winch
  BY <1>1 DEF BarKept, SamePlaces, ContentRows, Reserved, outerVars
<1>4. SizeInv'
  BY <1>3 DEF OuterInv, SizeInv, Pends
<1> QED
  BY <1>1, <1>2, <1>4, InputOuter

-----------------------------------------------------------------------------
(* Reading. *)

\* The reader after n bytes that are not the last mark.
LEMMA AfterFacts ==
  ASSUME reader \in ReaderType(reader), menu \in MenuType, reader.data # <<>>,
         reader.data[Len(reader.data)] = End, NEW n \in Nat, n < Len(reader.data),
         NEW calls \in Seq(CallNames)
  PROVE  LET r == After(n, calls)
         IN /\ r \in ReaderType(r) /\ r.data # <<>> /\ r.data[Len(r.data)] = End
            /\ r.calls = calls /\ r.mode = reader.mode /\ r.out = reader.out
            /\ r.reported = reader.reported /\ r.introducer = reader.introducer
            /\ Len(r.data) = Len(reader.data) - n
<1> DEFINE data == SubSeq(reader.data, n + 1, Len(reader.data))
           menuMode == IF menu.open THEN reader.menuMode ELSE "idle"
           r == After(n, calls)
<1>1. /\ data \in Seq(Bytes \cup {End}) /\ Len(data) = Len(reader.data) - n
      /\ data # <<>> /\ data[Len(data)] = End
  <2>1. reader.data \in Seq(Bytes \cup {End}) /\ Len(reader.data) \in Nat
    BY DEF ReaderType
  <2>2. data \in Seq(Bytes \cup {End}) /\ Len(data) = Len(reader.data) - n
        /\ data[Len(reader.data) - n] = reader.data[Len(reader.data)]
    BY <2>1
  <2> HIDE DEF data
  <2> QED
    BY <2>1, <2>2
<1>2. menuMode \in {"idle", "escape", "sequence"}
  BY DEF ReaderType, MenuType
<1>3. r = [reader EXCEPT !.data = data, !.calls = calls, !.menuMode = menuMode]
  BY DEF After, ReaderType
<1> HIDE DEF data, menuMode, r
<1>4. /\ r \in ReaderType(r) /\ r.data = data /\ r.calls = calls /\ r.mode = reader.mode
      /\ r.out = reader.out /\ r.reported = reader.reported /\ r.introducer = reader.introducer
  BY <1>1, <1>2, <1>3 DEF ReaderType
<1> QED
  BY <1>1, <1>4 DEF r

\* What is known of the reader after a byte for the session or a key of it.
Consumed ==
  /\ reader' \in ReaderType(reader') /\ reader'.data # <<>>
  /\ reader'.data[Len(reader'.data)] = End /\ reader'.reported = reader.reported
  /\ CallsFit(reader')
  /\ \A i \in 1..Len(reader'.calls) : reader'.calls[i] # "lines"

\* A byte for the session keeps what is known of the input.
LEMMA ConsumedInner ==
  ASSUME IInv, main \notin Before, UNCHANGED outerVars, Unmoved, UNCHANGED menu,
         Ready, ~menu.open, Consumed
  PROVE  InnerInv'
<1>1. bar' = bar /\ screen' = screen /\ main' = main /\ typed' = typed
      /\ connection' = connection /\ detach' = detach /\ menu' = menu
  BY DEF Unmoved, outerVars, barVars
<1>2. InputType'
  BY <1>1 DEF IInv, InnerInv, InputType, Consumed
<1>3. CallsInv' /\ InputInv'
  BY <1>1 DEF CallsInv, InputInv, Consumed, MenuOwnsKeyboard
<1>4. ReportInv'
  BY <1>1 DEF IInv, InnerInv, ReportInv, Consumed
<1>5. SwitcherInv'
  <2>1. SwitcherShown
    BY DEF IInv, InnerInv, SwitcherInv, Ready
  <2> QED
    BY <1>1, <2>1 DEF IInv, InnerInv, SwitcherInv, SwitcherShown, Lines
<1> QED
  BY <1>2, <1>3, <1>4, <1>5 DEF InnerInv

\* A byte that is ready is a byte, and not the last of its read.
LEMMA ReadyFacts ==
  ASSUME InputType, InputInv, Ready
  PROVE  /\ reader \in ReaderType(reader) /\ menu \in MenuType
         /\ reader.data # <<>> /\ reader.data[Len(reader.data)] = End
         /\ Len(reader.data) \in Nat \ {0} /\ Byte = reader.data[1]
         /\ \A i \in 1..Len(reader.data) :
              reader.data[i] # End => i < Len(reader.data) /\ reader.data[i] \in Bytes
         /\ ~OpenMenu => ~menu.open
<1>1. /\ reader \in ReaderType(reader) /\ menu \in MenuType
      /\ reader.data # <<>> /\ reader.data[Len(reader.data)] = End
  BY DEF InputType, InputInv, Ready
<1>2. reader.data \in Seq(Bytes \cup {End})
  BY <1>1 DEF ReaderType
<1>3. Len(reader.data) \in Nat \ {0} /\ Byte = reader.data[1]
  BY <1>1, <1>2 DEF Byte
<1>4. \A i \in 1..Len(reader.data) :
        reader.data[i] # End => i < Len(reader.data) /\ reader.data[i] \in Bytes
  BY <1>1, <1>2, <1>3
<1>5. ~OpenMenu => ~menu.open
  BY DEF InputInv, MenuOwnsKeyboard, OpenMenu
<1> QED
  BY <1>1, <1>3, <1>4, <1>5

\* What the three ways to take a byte do to the reader.
Took(n) == Len(reader'.data) = Len(reader.data) - n

\* What is held goes to the session with the byte;
LEMMA ForwardTakes ==
  ASSUME InputType, InputInv, Ready, Byte # End, NEW bytes \in Seq(Bytes),
         reader' = Forward(bytes)
  PROVE  /\ Consumed /\ Took(1) /\ reader'.mode = "idle"
         /\ reader'.out = reader.out \o bytes
<1> DEFINE r == After(1, <<>>)
           out == r.out \o bytes
<1>1. <<>> \in Seq(CallNames) /\ 1 \in Nat /\ 1 < Len(reader.data)
  BY ReadyFacts
<1>2. /\ r \in ReaderType(r) /\ r.data # <<>> /\ r.data[Len(r.data)] = End
      /\ r.calls = <<>> /\ r.out = reader.out
      /\ r.reported = reader.reported /\ Len(r.data) = Len(reader.data) - 1
  BY <1>1, ReadyFacts, AfterFacts
<1>3. reader' = [r EXCEPT !.mode = "idle", !.out = out]
  BY <1>2 DEF Forward, ReaderType
<1>4. out \in Seq(Bytes)
  BY <1>2 DEF ReaderType
<1> HIDE DEF r, out
<1>5. /\ reader' \in ReaderType(reader') /\ reader'.data = r.data /\ reader'.calls = r.calls
      /\ reader'.mode = "idle" /\ reader'.out = out /\ reader'.reported = r.reported
  BY <1>2, <1>3, <1>4 DEF ReaderType, Modes
<1> QED
  BY <1>2, <1>5 DEF Consumed, CallsFit, Took, out

\* the byte is held;
LEMMA HoldTakes ==
  ASSUME InputType, InputInv, Ready, Byte # End, NEW mode \in Modes,
         NEW introducer \in {"[", "O"},
         \/ reader' = Hold(mode) /\ introducer = reader.introducer
         \/ reader' = [Hold(mode) EXCEPT !.introducer = introducer]
  PROVE  /\ Consumed /\ Took(1) /\ reader'.mode = mode /\ reader'.out = reader.out
         /\ reader'.introducer = introducer
<1> DEFINE r == After(1, <<>>)
<1>1. <<>> \in Seq(CallNames) /\ 1 \in Nat /\ 1 < Len(reader.data)
  BY ReadyFacts
<1>2. /\ r \in ReaderType(r) /\ r.data # <<>> /\ r.data[Len(r.data)] = End
      /\ r.calls = <<>> /\ r.out = reader.out /\ r.introducer = reader.introducer
      /\ r.reported = reader.reported /\ Len(r.data) = Len(reader.data) - 1
  BY <1>1, ReadyFacts, AfterFacts
<1>3. \/ reader' = [r EXCEPT !.mode = mode] /\ introducer = r.introducer
      \/ reader' = [r EXCEPT !.mode = mode, !.introducer = introducer]
  BY <1>2 DEF Hold, ReaderType
<1> HIDE DEF r
<1>5. /\ reader' \in ReaderType(reader') /\ reader'.data = r.data /\ reader'.calls = r.calls
      /\ reader'.mode = mode /\ reader'.out = r.out /\ reader'.reported = r.reported
      /\ reader'.introducer = introducer
  <2>1. CASE reader' = [r EXCEPT !.mode = mode] /\ introducer = r.introducer
    BY <1>2, <2>1 DEF ReaderType
  <2>2. CASE reader' = [r EXCEPT !.mode = mode, !.introducer = introducer]
    BY <1>2, <2>2 DEF ReaderType
  <2> QED
    BY <1>3, <2>1, <2>2
<1> QED
  BY <1>2, <1>5 DEF Consumed, CallsFit, Took

\* or it completes a key of Falkn.
LEMMA ClaimTakes ==
  ASSUME InputType, InputInv, Ready, Byte # End, NEW calls \in Seq(CallNames), NEW request,
         \A i \in 1..Len(calls) :
           calls[i] \notin {"lines", "size", "toggle"} \/ calls = Flush \o <<"toggle">>,
         reader' = Claim(calls) \/ reader' = [Claim(calls) EXCEPT !.request = request]
  PROVE  Consumed /\ Took(1) /\ reader'.mode = "idle" /\ reader'.out = reader.out
<1> DEFINE r == After(1, calls)
<1>1. 1 \in Nat /\ 1 < Len(reader.data)
  BY ReadyFacts
<1>2. /\ r \in ReaderType(r) /\ r.data # <<>> /\ r.data[Len(r.data)] = End
      /\ r.calls = calls /\ r.out = reader.out
      /\ r.reported = reader.reported /\ Len(r.data) = Len(reader.data) - 1
  BY <1>1, ReadyFacts, AfterFacts
<1>3. reader' = [r EXCEPT !.mode = "idle"]
      \/ reader' = [r EXCEPT !.mode = "idle", !.request = request]
  BY <1>2 DEF Claim, ReaderType
<1> HIDE DEF r
<1>4. /\ reader' \in ReaderType(reader') /\ reader'.data = r.data /\ reader'.calls = r.calls
      /\ reader'.mode = "idle" /\ reader'.out = r.out /\ reader'.reported = r.reported
  <2>1. CASE reader' = [r EXCEPT !.mode = "idle"]
    BY <1>2, <2>1 DEF ReaderType, Modes
  <2>2. CASE reader' = [r EXCEPT !.mode = "idle", !.request = request]
    BY <1>2, <2>2 DEF ReaderType, Modes
  <2> QED
    BY <1>3, <2>1, <2>2
<1>5. CASE calls # Flush \o <<"toggle">>
  BY <1>2, <1>4, <1>5 DEF Consumed, CallsFit, Took
<1>6. CASE calls = Flush \o <<"toggle">>
  <2>1. CASE reader.out = <<>>
    <3>1. Len(calls) = 1 /\ calls[1] = "toggle"
      BY <1>6, <2>1 DEF Flush
    <3> QED
      BY <1>2, <1>4, <2>1, <3>1 DEF Consumed, CallsFit, Took
  <2>2. CASE reader.out # <<>>
    <3>1. <<"flush">> \in Seq(CallNames) /\ <<"toggle">> \in Seq(CallNames)
          /\ Len(<<"flush">>) = 1 /\ Len(<<"toggle">>) = 1 /\ Flush = <<"flush">>
      BY <2>2 DEF Flush, CallNames
    <3>2. Len(calls) = 2 /\ calls[1] = "flush" /\ calls[2] = "toggle"
      BY <1>6, <3>1, ConcatProperties
    <3> QED
      BY <1>2, <1>4, <3>2 DEF Consumed, CallsFit, Took
  <2> QED
    BY <2>1, <2>2
<1> QED
  BY <1>5, <1>6

-----------------------------------------------------------------------------
(* What becomes of the bytes of a key. *)

\* A sequence with one more byte, told by its elements.
LEMMA OneMore ==
  \A h, all \in Seq(Bytes) : \A b \in Bytes :
    Len(all) = Len(h) + 1 /\ (\A i \in 1..Len(h) : all[i] = h[i]) /\ all[Len(h) + 1] = b
    => h \o <<b>> = all
<1>1. SUFFICES ASSUME NEW h \in Seq(Bytes), NEW all \in Seq(Bytes), NEW b \in Bytes,
                      Len(all) = Len(h) + 1, \A i \in 1..Len(h) : all[i] = h[i],
                      all[Len(h) + 1] = b
               PROVE  h \o <<b>> = all
  OBVIOUS
<1>2. <<b>> \in Seq(Bytes) /\ Len(<<b>>) = 1 /\ <<b>>[1] = b /\ Len(h) \in Nat
  OBVIOUS
<1>3. h \o <<b>> \in Seq(Bytes) /\ Len(h \o <<b>>) = Len(h) + 1
      /\ \A i \in 1..Len(h) + 1 : (h \o <<b>>)[i] = IF i <= Len(h) THEN h[i] ELSE b
  <2>1. \A i \in 1..Len(h) + 1 : i <= Len(h) \/ i - Len(h) = 1
    BY <1>2
  <2> QED
    BY <1>2, <2>1, ConcatProperties
<1>4. \A i \in 1..Len(h) + 1 : (h \o <<b>>)[i] = all[i]
  BY <1>1, <1>2, <1>3
<1> QED
  BY <1>1, <1>3, <1>4, SeqEqual

\* What is held before a byte and the byte, as one sequence.
LEMMA Joined ==
  \A b \in Bytes : \A i \in {"[", "O"} :
    /\ <<>> \o <<b>> = <<b>> /\ <<"PRE">> \o <<b>> = <<"PRE", b>>
    /\ <<"PRE", "ESC">> \o <<b>> = <<"PRE", "ESC", b>>
    /\ <<"PRE", "ESC", i>> \o <<b>> = <<"PRE", "ESC", i, b>>
<1>1. TAKE b \in Bytes
<1>2. TAKE i \in {"[", "O"}
<1>3. <<>> \o <<b>> = <<b>>
  OBVIOUS
<1>4. <<"PRE">> \o <<b>> = <<"PRE", b>>
  <2> DEFINE held == <<"PRE">>
             all == <<"PRE", b>>
  <2>1. held \in Seq(Bytes) /\ Len(held) = 1 /\ held[1] = "PRE"
    BY DEF Bytes
  <2>2. all \in Seq(Bytes) /\ Len(all) = 2 /\ all[1] = "PRE" /\ all[2] = b
    BY DEF Bytes
  <2>3. Len(all) = Len(held) + 1 /\ (\A k \in 1..Len(held) : all[k] = held[k])
        /\ all[Len(held) + 1] = b
    BY <2>1, <2>2
  <2> HIDE DEF held, all
  <2>4. held \o <<b>> = all
    BY <2>1, <2>2, <2>3, OneMore
  <2> QED
    BY <2>4 DEF held, all
<1>5. <<"PRE", "ESC">> \o <<b>> = <<"PRE", "ESC", b>>
  <2> DEFINE held == <<"PRE", "ESC">>
             all == <<"PRE", "ESC", b>>
  <2>1. held \in Seq(Bytes) /\ Len(held) = 2 /\ held[1] = "PRE" /\ held[2] = "ESC"
    BY DEF Bytes
  <2>2. all \in Seq(Bytes) /\ Len(all) = 3 /\ all[1] = "PRE" /\ all[2] = "ESC" /\ all[3] = b
    BY DEF Bytes
  <2>3. Len(all) = Len(held) + 1 /\ (\A k \in 1..Len(held) : all[k] = held[k])
        /\ all[Len(held) + 1] = b
    BY <2>1, <2>2
  <2> HIDE DEF held, all
  <2>4. held \o <<b>> = all
    BY <2>1, <2>2, <2>3, OneMore
  <2> QED
    BY <2>4 DEF held, all
<1>6. <<"PRE", "ESC", i>> \o <<b>> = <<"PRE", "ESC", i, b>>
  <2> DEFINE held == <<"PRE", "ESC", i>>
             all == <<"PRE", "ESC", i, b>>
  <2>1. held \in Seq(Bytes) /\ Len(held) = 3
        /\ held[1] = "PRE" /\ held[2] = "ESC" /\ held[3] = i
    BY DEF Bytes
  <2>2. all \in Seq(Bytes) /\ Len(all) = 4
        /\ all[1] = "PRE" /\ all[2] = "ESC" /\ all[3] = i /\ all[4] = b
    BY DEF Bytes
  <2>3. Len(all) = Len(held) + 1 /\ (\A k \in 1..Len(held) : all[k] = held[k])
        /\ all[Len(held) + 1] = b
    BY <2>1, <2>2
  <2> HIDE DEF held, all
  <2>4. held \o <<b>> = all
    BY <2>1, <2>2, <2>3, OneMore
  <2> QED
    BY <2>4 DEF held, all
<1> QED
  BY <1>3, <1>4, <1>5, <1>6

Taken == SubSeq(reader.data, 1, Len(reader.data) - Len(reader'.data))

\* The bytes of a key in the order they were typed.
LEMMA KeyBytes ==
  ASSUME InputType, InputInv, Ready, Byte # End, Took(1)
  PROVE  /\ Taken = <<Byte>> /\ Byte \in Bytes /\ reader.out \in Seq(Bytes)
         /\ Held(reader) \in Seq(Bytes)
         /\ Held(reader) \o <<Byte>> \in Seq(Bytes)
         /\ (reader.out \o Held(reader)) \o <<Byte>> = reader.out \o (Held(reader) \o <<Byte>>)
         /\ reader.out \o <<>> = reader.out
<1>1. Len(reader.data) \in Nat \ {0} /\ Byte = reader.data[1] /\ Byte \in Bytes
      /\ reader \in ReaderType(reader)
  BY ReadyFacts
<1>2. Len(reader.data) - Len(reader'.data) = 1
  BY <1>1 DEF Took
<1>3. SubSeq(reader.data, 1, 1) = <<Byte>>
  <2> DEFINE one == SubSeq(reader.data, 1, 1)
             byte == <<reader.data[1]>>
  <2>1. /\ one \in Seq(Bytes \cup {End}) /\ Len(one) = 1 /\ one[1] = reader.data[1]
    BY <1>1 DEF ReaderType
  <2>2. byte \in Seq(Bytes \cup {End}) /\ Len(byte) = 1 /\ byte[1] = reader.data[1]
    BY <1>1
  <2>3. \A i \in 1..1 : one[i] = byte[i]
    BY <2>1, <2>2
  <2> HIDE DEF one, byte
  <2>4. one = byte
    BY <2>1, <2>2, <2>3, SeqEqual
  <2> QED
    BY <1>1, <2>4 DEF one, byte
<1>4. Held(reader) \in Seq(Bytes) /\ reader.out \in Seq(Bytes) /\ <<Byte>> \in Seq(Bytes)
  <2>1. <<>> \in Seq(Bytes) /\ <<"PRE">> \in Seq(Bytes) /\ <<"PRE", "ESC">> \in Seq(Bytes)
        /\ <<"PRE", "ESC", "[">> \in Seq(Bytes) /\ <<"PRE", "ESC", "O">> \in Seq(Bytes)
    BY DEF Bytes
  <2>2. Held(reader) \in {<<>>, <<"PRE">>, <<"PRE", "ESC">>, <<"PRE", "ESC", "[">>,
                         <<"PRE", "ESC", "O">>}
    BY <1>1 DEF Held, ReaderType, Modes
  <2>3. reader.out \in Seq(Bytes) /\ <<Byte>> \in Seq(Bytes)
    BY <1>1 DEF ReaderType
  <2> QED
    BY <2>1, <2>2, <2>3
<1>5. Held(reader) \o <<Byte>> \in Seq(Bytes)
      /\ reader.out \o (Held(reader) \o <<Byte>>) = (reader.out \o Held(reader)) \o <<Byte>>
  <2> DEFINE out == reader.out
             held == Held(reader)
             byte == <<Byte>>
  <2>1. out \in Seq(Bytes) /\ held \in Seq(Bytes) /\ byte \in Seq(Bytes)
    BY <1>4
  <2> HIDE DEF out, held, byte
  <2>2. held \o byte \in Seq(Bytes) /\ out \o (held \o byte) = (out \o held) \o byte
    BY <2>1, BytesConcat
  <2> QED
    BY <2>2 DEF out, held, byte
<1> QED
  <2>1. reader.out \o <<>> = reader.out
    BY <1>4, ConcatEmptySeq
  <2>2. Taken = <<Byte>>
    BY <1>2, <1>3 DEF Taken
  <2> QED
    BY <1>1, <1>4, <1>5, <2>1, <2>2

\* A key is kept when the byte goes with what was held before it,
LEMMA ForwardKeepsKeys ==
  ASSUME InputType, InputInv, Ready, Byte # End, Took(1),
         reader'.mode = "idle", reader'.out = reader.out \o (Held(reader) \o <<Byte>>)
  PROVE  KeepsKeys
<1>1. Held(reader') = <<>>
  BY DEF Held
<1>2. (reader.out \o (Held(reader) \o <<Byte>>)) \o <<>> = reader.out \o (Held(reader) \o <<Byte>>)
  BY KeyBytes, ConcatProperties, ConcatEmptySeq
<1> QED
  BY <1>1, <1>2, KeyBytes DEF KeepsKeys, Taken

\* when it is held too,
LEMMA HoldKeepsKeys ==
  ASSUME InputType, InputInv, Ready, Byte # End, Took(1),
         Held(reader') = Held(reader) \o <<Byte>>, reader'.out = reader.out
  PROVE  KeepsKeys
BY KeyBytes DEF KeepsKeys, Taken

\* and when it completes a command.
LEMMA ClaimKeepsKeys ==
  ASSUME InputType, InputInv, Ready, Byte # End, Took(1),
         Held(reader) \o <<Byte>> \in Commands, reader'.mode = "idle", reader'.out = reader.out
  PROVE  KeepsKeys
<1>1. Held(reader') = <<>>
  BY DEF Held
<1> QED
  BY <1>1, KeyBytes DEF KeepsKeys, Taken

-----------------------------------------------------------------------------
(* A byte for the session, or of one of its keys. *)

\* A byte with no prefix held.
LEMMA IdleTakes ==
  ASSUME InputType, InputInv, IdleByte
  PROVE  Consumed /\ KeepsKeys
<1>1. Ready /\ Byte # End /\ Byte \in Bytes /\ reader \in ReaderType(reader)
  BY ReadyFacts DEF IdleByte, Plain
<1>2. Held(reader) = <<>> /\ Held(reader) \o <<Byte>> = <<Byte>>
  BY <1>1, Joined DEF IdleByte, Held
<1>3. CASE Byte = "PRE"
  <2>1. reader' = Hold("armed") /\ "armed" \in Modes /\ reader.introducer \in {"[", "O"}
    BY <1>1, <1>3 DEF IdleByte, ReaderType, Modes
  <2>2. Consumed /\ Took(1) /\ reader'.mode = "armed" /\ reader'.out = reader.out
    BY <1>1, <2>1, HoldTakes
  <2>3. Held(reader') = <<"PRE">>
    BY <2>2 DEF Held
  <2> QED
    BY <1>1, <1>2, <1>3, <2>2, <2>3, HoldKeepsKeys
<1>4. CASE Byte # "PRE"
  <2>1. reader' = Forward(<<Byte>>) /\ <<Byte>> \in Seq(Bytes)
    BY <1>1, <1>4 DEF IdleByte
  <2> QED
    BY <1>1, <1>2, <2>1, ForwardTakes, ForwardKeepsKeys
<1> QED
  BY <1>3, <1>4

\* A byte after the prefix.
LEMMA ArmedTakes ==
  ASSUME InputType, InputInv, ArmedByte
  PROVE  Consumed /\ KeepsKeys
<1>1. Ready /\ Byte # End /\ Byte \in Bytes /\ reader \in ReaderType(reader)
  BY ReadyFacts DEF ArmedByte, Plain
<1>2. Held(reader) = <<"PRE">> /\ Held(reader) \o <<Byte>> = <<"PRE", Byte>>
  BY <1>1, Joined DEF ArmedByte, Held
<1> DEFINE quit == <<"tryFlush", "detach", "onDetach", "close", "report", "stop">>
           request == [step |-> 0, index |-> Digit(Byte)]
<1>3. CASE Byte = "ESC"
  <2>1. reader' = Hold("escape") /\ "escape" \in Modes /\ reader.introducer \in {"[", "O"}
    BY <1>1, <1>3 DEF ArmedByte, ReaderType, Modes, Digits
  <2>2. Consumed /\ Took(1) /\ reader'.mode = "escape" /\ reader'.out = reader.out
    BY <1>1, <2>1, HoldTakes
  <2>3. Held(reader') = <<"PRE", "ESC">>
    BY <2>2 DEF Held
  <2> QED
    BY <1>1, <1>2, <1>3, <2>2, <2>3, HoldKeepsKeys
<1>4. CASE Byte = "PRE"
  <2>1. reader' = Forward(<<"PRE">>) /\ <<"PRE">> \in Seq(Bytes)
    BY <1>1, <1>4 DEF ArmedByte, Digits
  <2>2. Consumed /\ Took(1) /\ reader'.mode = "idle" /\ reader'.out = reader.out \o <<"PRE">>
    BY <1>1, <2>1, ForwardTakes
  <2>3. Held(reader') = <<>> /\ reader'.out \o <<>> = reader'.out
    BY <2>2, ConcatEmptySeq DEF Held, Consumed, ReaderType
  <2>4. KeepsKeys
    BY <1>1, <1>2, <1>4, <2>2, <2>3, KeyBytes DEF KeepsKeys, Taken
  <2> QED
    BY <2>2, <2>4
<1>5. CASE Byte \in {"q", "m", "n"} \cup Digits
  <2>1. Held(reader) \o <<Byte>> \in Commands
    BY <1>2, <1>5 DEF Commands
  <2>2. Consumed /\ Took(1) /\ reader'.mode = "idle" /\ reader'.out = reader.out
    <3>1. CASE Byte = "q"
      <4>1. reader' = Claim(quit)
        BY <3>1 DEF ArmedByte, Digits
      <4> QED
        BY <1>1, <4>1, FirstCalls, ClaimTakes
    <3>2. CASE Byte = "m"
      <4>1. reader' = Claim(Flush \o <<"mute", "muted">>)
        BY <3>2 DEF ArmedByte, Digits
      <4> HIDE DEF quit
      <4> QED
        BY <1>1, <4>1, FirstCalls, ClaimTakes
    <3>3. CASE Byte = "n"
      <4>1. reader' = Claim(Flush \o <<"new">>)
        BY <3>3 DEF ArmedByte, Digits
      <4> QED
        BY <1>1, <4>1, FirstCalls, ClaimTakes
    <3>4. CASE Byte \in Digits
      <4>1. reader' = [Claim(Flush \o <<"switch">>) EXCEPT !.request = request]
        BY <3>4 DEF ArmedByte, Digits
      <4> HIDE DEF request
      <4> QED
        BY <1>1, <4>1, FirstCalls, ClaimTakes
    <3> QED
      BY <1>5, <3>1, <3>2, <3>3, <3>4
  <2> QED
    BY <1>1, <2>1, <2>2, ClaimKeepsKeys
<1>6. CASE Byte \notin {"ESC", "PRE", "q", "m", "n"} \cup Digits
  <2>1. reader' = Forward(<<"PRE", Byte>>)
    BY <1>6 DEF ArmedByte, Digits
  <2>2. <<"PRE", Byte>> \in Seq(Bytes)
    BY <1>1 DEF Bytes
  <2> QED
    BY <1>1, <1>2, <2>1, <2>2, ForwardTakes, ForwardKeepsKeys
<1> QED
  BY <1>3, <1>4, <1>5, <1>6

\* A byte after the prefix and an escape.
LEMMA EscapeTakes ==
  ASSUME InputType, InputInv, EscapeByte
  PROVE  Consumed /\ KeepsKeys
<1>1. Ready /\ Byte # End /\ Byte \in Bytes /\ reader \in ReaderType(reader)
  BY ReadyFacts DEF EscapeByte, Plain
<1>2. Held(reader) = <<"PRE", "ESC">> /\ Held(reader) \o <<Byte>> = <<"PRE", "ESC", Byte>>
  BY <1>1, Joined DEF EscapeByte, Held
<1>3. CASE Byte \in {"[", "O"}
  <2>1. reader' = [Hold("sequence") EXCEPT !.introducer = Byte] /\ "sequence" \in Modes
    BY <1>1, <1>3 DEF EscapeByte, Modes
  <2>2. Consumed /\ Took(1) /\ reader'.mode = "sequence" /\ reader'.out = reader.out
        /\ reader'.introducer = Byte
    BY <1>1, <1>3, <2>1, HoldTakes
  <2>3. Held(reader') = <<"PRE", "ESC", Byte>>
    BY <2>2 DEF Held
  <2> QED
    BY <1>1, <1>2, <2>2, <2>3, HoldKeepsKeys
<1>4. CASE Byte \notin {"[", "O"}
  <2>1. reader' = Forward(<<"PRE", "ESC", Byte>>)
    BY <1>4 DEF EscapeByte
  <2>2. <<"PRE", "ESC", Byte>> \in Seq(Bytes)
    BY <1>1 DEF Bytes
  <2> QED
    BY <1>1, <1>2, <2>1, <2>2, ForwardTakes, ForwardKeepsKeys
<1> QED
  BY <1>3, <1>4

\* A byte after the prefix and the start of an arrow key.
LEMMA SequenceTakes ==
  ASSUME InputType, InputInv, SequenceByte
  PROVE  Consumed /\ KeepsKeys
<1> DEFINE i == reader.introducer
<1>1. Ready /\ Byte # End /\ Byte \in Bytes /\ reader \in ReaderType(reader) /\ i \in {"[", "O"}
  BY ReadyFacts DEF SequenceByte, Plain, ReaderType
<1>2. Held(reader) = <<"PRE", "ESC", i>> /\ Held(reader) \o <<Byte>> = <<"PRE", "ESC", i, Byte>>
  BY <1>1, Joined DEF SequenceByte, Held
<1>3. CASE Byte \in {"A", "B", "C", "D"}
  <2>1. Held(reader) \o <<Byte>> \in Commands
    BY <1>1, <1>2, <1>3 DEF Commands
  <2>2. Consumed /\ Took(1) /\ reader'.mode = "idle" /\ reader'.out = reader.out
    <3>1. CASE Byte \in {"C", "D"}
      <4> DEFINE request == [step |-> IF Byte = "D" THEN -1 ELSE 1, index |-> 0]
      <4>1. reader' = [Claim(Flush \o <<"switch">>) EXCEPT !.request = request]
        BY <3>1 DEF SequenceByte
      <4> HIDE DEF request
      <4> QED
        BY <1>1, <4>1, FirstCalls, ClaimTakes
    <3>2. CASE Byte \in {"A", "B"}
      <4>1. reader' = Claim(Flush \o <<"toggle">>)
        BY <3>2 DEF SequenceByte
      <4>2. Flush \o <<"toggle">> \in Seq(CallNames)
        <5>1. <<>> \in Seq(CallNames) /\ <<"flush">> \in Seq(CallNames)
              /\ <<"toggle">> \in Seq(CallNames)
          BY DEF CallNames
        <5>2. Flush = <<>> \/ Flush = <<"flush">>
          BY DEF Flush
        <5> QED
          BY <5>1, <5>2, ConcatProperties
      <4> QED
        BY <1>1, <4>1, <4>2, ClaimTakes
    <3> QED
      BY <1>3, <3>1, <3>2
  <2> QED
    BY <1>1, <2>1, <2>2, ClaimKeepsKeys
<1>4. CASE Byte \notin {"A", "B", "C", "D"}
  <2>1. reader' = Forward(<<"PRE", "ESC", i, Byte>>)
    BY <1>4 DEF SequenceByte
  <2>2. <<"PRE", "ESC", i, Byte>> \in Seq(Bytes)
    BY <1>1 DEF Bytes
  <2> QED
    BY <1>1, <1>2, <2>1, <2>2, ForwardTakes, ForwardKeepsKeys
<1> QED
  BY <1>3, <1>4

\* A focus report.
LEMMA FocusTakes ==
  ASSUME InputType, InputInv, FocusReport
  PROVE  Consumed /\ KeepsKeys
<1> DEFINE calls == LastFlush \o <<"focus">>
           data == reader.data
<1>1. /\ Ready /\ Len(data) \in Nat /\ Len(data) >= 3 /\ reader.mode = "idle"
      /\ data[1] = "ESC" /\ data[2] = "[" /\ data[3] \in {"I", "O"} /\ 3 < Len(data)
      /\ reader \in ReaderType(reader)
  <2>1. Ready /\ AtFocusReport
    BY DEF FocusReport
  <2>2. /\ reader \in ReaderType(reader) /\ Len(data) \in Nat /\ Byte = data[1]
        /\ \A i \in 1..Len(data) : data[i] # End => i < Len(data)
    BY <2>1, ReadyFacts
  <2>3. data[3] # End /\ 3 \in 1..Len(data)
    BY <2>1, <2>2 DEF AtFocusReport, End
  <2> QED
    BY <2>1, <2>2, <2>3 DEF AtFocusReport
<1>2. /\ calls \in Seq(CallNames)
      /\ \A i \in 1..Len(calls) : calls[i] \notin {"lines", "size", "toggle"}
  BY <1>1, FirstCalls
<1> HIDE DEF calls
<1>3. reader' = After(3, calls)
  BY DEF FocusReport, calls
<1>4. /\ reader' \in ReaderType(reader') /\ reader'.data # <<>>
      /\ reader'.data[Len(reader'.data)] = End /\ reader'.calls = calls
      /\ reader'.mode = "idle" /\ reader'.out = reader.out
      /\ reader'.reported = reader.reported /\ Len(reader'.data) = Len(data) - 3
  BY <1>1, <1>2, <1>3, ReadyFacts, AfterFacts
<1>5. Consumed
  BY <1>2, <1>4 DEF Consumed, CallsFit
<1>6. Taken = <<"ESC", "[", data[3]>>
  <2> DEFINE all == <<"ESC", "[", data[3]>>
             three == SubSeq(data, 1, 3)
  <2>1. Len(data) - Len(reader'.data) = 3
    BY <1>1, <1>4
  <2>2. /\ three \in Seq(Bytes \cup {End}) /\ Len(three) = 3
        /\ three[1] = "ESC" /\ three[2] = "[" /\ three[3] = data[3]
    BY <1>1 DEF ReaderType
  <2>3. /\ all \in Seq(Bytes \cup {End}) /\ Len(all) = 3
        /\ all[1] = "ESC" /\ all[2] = "[" /\ all[3] = data[3]
    BY <1>1 DEF Bytes
  <2>4. \A i \in 1..3 : three[i] = all[i]
    BY <2>2, <2>3
  <2> HIDE DEF all, three
  <2>5. three = all
    BY <2>2, <2>3, <2>4, SeqEqual
  <2> QED
    BY <2>1, <2>5 DEF Taken, all, three
<1>7. Held(reader) = <<>> /\ Held(reader') = <<>> /\ reader.out \o <<>> = reader.out
  BY <1>1, <1>4, ConcatEmptySeq DEF Held, ReaderType
<1>8. Taken \in Commands
  BY <1>1, <1>6 DEF Commands
<1>9. KeepsKeys
  BY <1>4, <1>7, <1>8 DEF KeepsKeys, Taken
<1> QED
  BY <1>5, <1>9

\* What is done with a byte for the session keeps the invariant.
LEMMA PlainKeeps ==
  ASSUME IInv, Running, main \notin Before, UNCHANGED outerVars,
         IdleByte \/ ArmedByte \/ EscapeByte \/ SequenceByte \/ FocusReport
  PROVE  IInv'
<1>1. Consumed /\ Ready /\ ~OpenMenu /\ UNCHANGED menu /\ Unmoved
  <2>1. InputType /\ InputInv
    BY DEF IInv, InnerInv
  <2>2. Consumed
    BY <2>1, IdleTakes, ArmedTakes, EscapeTakes, SequenceTakes, FocusTakes
  <2> QED
    BY <2>2 DEF IdleByte, ArmedByte, EscapeByte, SequenceByte, FocusReport, Plain
<1>2. ~menu.open
  BY <1>1, ReadyFacts DEF IInv, InnerInv
<1>3. InnerInv'
  BY <1>1, <1>2, ConsumedInner
<1>4. ~Pends(reader.calls)
  BY <1>1 DEF Ready, Pends
<1>5. OuterInv'
  BY <1>1, <1>4, UnmovedOuter DEF IInv, Unmoved
<1> QED
  BY <1>3, <1>5 DEF IInv

\* The end of a read leaves the report of the prefix to be made, or it is right.
LEMMA EndOfReadKeeps ==
  ASSUME IInv, Running, main \notin Before, UNCHANGED outerVars, EndOfRead
  PROVE  IInv'
<1> DEFINE calls == Reports \o LastFlush
<1>1. Ready /\ UNCHANGED menu /\ Unmoved /\ reader \in ReaderType(reader)
  BY DEF EndOfRead, IInv, InnerInv, InputType
<1>2. /\ calls \in Seq(CallNames)
      /\ \A i \in 1..Len(calls) : calls[i] \notin {"lines", "size", "toggle"}
  BY <1>1, FirstCalls
<1> HIDE DEF calls
<1>3. Reports # <<>> => calls # <<>> /\ Head(calls) = "report"
  <2>1. SUFFICES ASSUME Reports # <<>> PROVE calls # <<>> /\ Head(calls) = "report"
    OBVIOUS
  <2>2. calls = <<"report">> \o LastFlush
    BY <2>1 DEF Reports, calls
  <2>3. <<"report">> \in Seq(CallNames) /\ LastFlush \in Seq(CallNames)
        /\ Len(<<"report">>) = 1 /\ <<"report">>[1] = "report"
    BY <1>1, FirstCalls DEF CallNames
  <2>4. Len(calls) >= 1 /\ calls[1] = "report"
    BY <2>2, <2>3, ConcatProperties
  <2> QED
    BY <1>2, <2>4
<1>4. reader' = [reader EXCEPT !.data = <<>>, !.calls = calls]
  BY DEF EndOfRead, calls
<1>5. /\ reader' \in ReaderType(reader') /\ reader'.data = <<>> /\ reader'.calls = calls
      /\ reader'.mode = reader.mode /\ reader'.out = reader.out
      /\ reader'.reported = reader.reported /\ reader'.stopped = reader.stopped
  <2>1. <<>> \in Seq(Bytes \cup {End})
    OBVIOUS
  <2> QED
    BY <1>1, <1>2, <1>4, <2>1 DEF ReaderType
<1>6. bar' = bar /\ screen' = screen /\ main' = main /\ typed' = typed
      /\ connection' = connection /\ detach' = detach /\ menu' = menu
  BY <1>1 DEF Unmoved, outerVars, barVars
<1>7. InputType'
  BY <1>5, <1>6 DEF IInv, InnerInv, InputType
<1>8. CallsInv' /\ InputInv'
  BY <1>2, <1>5, <1>6 DEF IInv, InnerInv, CallsInv, CallsFit, InputInv, MenuOwnsKeyboard
<1>9. ReportInv'
  BY <1>3, <1>5, <1>6 DEF IInv, InnerInv, ReportInv, Reports
<1>10. SwitcherInv'
  <2>1. SwitcherShown
    BY <1>1 DEF IInv, InnerInv, SwitcherInv, Ready
  <2> QED
    BY <1>6, <2>1 DEF IInv, InnerInv, SwitcherInv, SwitcherShown, Lines
<1>11. OuterInv'
  BY <1>1, UnmovedOuter DEF IInv, Unmoved, Ready, Pends
<1> QED
  BY <1>7, <1>8, <1>9, <1>10, <1>11 DEF IInv, InnerInv

\* A read leaves what is typed in its place.
LEMMA ReadInputKeeps ==
  ASSUME IInv, Running, main \notin Before, UNCHANGED outerVars, ReadInput
  PROVE  IInv'
<1>1. PICK n \in 1..Len(typed) :
        /\ reader' = [reader EXCEPT !.data = SubSeq(typed, 1, n) \o <<End>>]
        /\ typed' = SubSeq(typed, n + 1, Len(typed))
  BY DEF ReadInput
<1> DEFINE data == SubSeq(typed, 1, n) \o <<End>>
<1>2. reader \in ReaderType(reader) /\ typed \in Seq(Bytes) /\ Waiting
  BY DEF IInv, InnerInv, InputType, ReadInput
<1>3. /\ data \in Seq(Bytes \cup {End}) /\ Len(data) = n + 1 /\ data[Len(data)] = End
      /\ data # <<>> /\ typed' \in Seq(Bytes)
  <2>1. SubSeq(typed, 1, n) \in Seq(Bytes \cup {End}) /\ <<End>> \in Seq(Bytes \cup {End})
        /\ Len(SubSeq(typed, 1, n)) = n /\ Len(<<End>>) = 1 /\ <<End>>[1] = End
    BY <1>2
  <2>2. /\ data \in Seq(Bytes \cup {End}) /\ Len(data) = n + 1 /\ data[n + 1] = End
    BY <2>1, ConcatProperties
  <2>3. typed' \in Seq(Bytes)
    BY <1>1, <1>2
  <2> HIDE DEF data
  <2> QED
    BY <2>2, <2>3
<1> HIDE DEF data
<1>4. reader' = [reader EXCEPT !.data = data]
  BY <1>1 DEF data
<1>5. /\ reader' \in ReaderType(reader') /\ reader'.data = data /\ reader'.calls = reader.calls
      /\ reader'.mode = reader.mode /\ reader'.out = reader.out
      /\ reader'.reported = reader.reported
  BY <1>2, <1>3, <1>4 DEF ReaderType
<1>6. bar' = bar /\ screen' = screen /\ main' = main
      /\ connection' = connection /\ detach' = detach /\ menu' = menu
  BY DEF ReadInput, outerVars, barVars
<1>7. InputType'
  BY <1>3, <1>5, <1>6 DEF IInv, InnerInv, InputType
<1>8. CallsInv' /\ InputInv'
  BY <1>3, <1>5, <1>6 DEF IInv, InnerInv, CallsInv, CallsFit, InputInv, MenuOwnsKeyboard
<1>9. ReportInv'
  BY <1>3, <1>5, <1>6 DEF IInv, InnerInv, ReportInv
<1>10. SwitcherInv'
  BY <1>5, <1>6 DEF IInv, InnerInv, SwitcherInv, SwitcherShown, Lines
<1>11. OuterInv'
  BY <1>2, UnmovedOuter DEF IInv, ReadInput, Waiting, Pends
<1> QED
  BY <1>7, <1>8, <1>9, <1>10, <1>11 DEF IInv, InnerInv

-----------------------------------------------------------------------------
(* The switcher. *)

\* What opening, moving in or closing the switcher does to the reader; every
\* one of them is followed by a repaint.
Switched ==
  /\ reader' \in ReaderType(reader') /\ CallsFit(reader')
  /\ reader'.mode = reader.mode /\ reader'.out = reader.out
  /\ reader'.reported = reader.reported /\ reader'.stopped = reader.stopped
  /\ reader'.data = <<>> \/ reader'.data[Len(reader'.data)] = End
  /\ reader'.data = <<>> => reader.data = <<>>
  /\ reader.calls = <<>> \/ Head(reader.calls) = "toggle"
  /\ menu' \in MenuType
  /\ \/ menu' = menu /\ reader'.calls = <<>> /\ reader.calls = <<>>
     \/ /\ reader'.calls # <<>> /\ Head(reader'.calls) = "lines"
        /\ \/ menu' = ClosedMenu
           \/ menu.open /\ menu'.open /\ menu'.sessions = menu.sessions
           \/ /\ ~menu.open /\ menu'.open /\ menu'.sessions # {}
              /\ reader.mode = "idle" /\ reader.out = <<>>

\* The switcher and the bar may differ until the repaint that follows.
LEMMA SwitchedKeeps ==
  ASSUME IInv, Running, main \notin Before, UNCHANGED outerVars, Unmoved, Switched
  PROVE  IInv'
<1>1. bar' = bar /\ screen' = screen /\ main' = main /\ typed' = typed
      /\ connection' = connection /\ detach' = detach
  BY DEF Unmoved, outerVars, barVars
<1>2. InputType'
  BY <1>1 DEF IInv, InnerInv, InputType, Switched
<1>3. CallsInv'
  BY DEF CallsInv, Switched
<1>4. InputInv'
  BY <1>1 DEF IInv, InnerInv, InputInv, Switched, MenuOwnsKeyboard, ClosedMenu
<1>5. ReportInv'
  BY <1>1 DEF IInv, InnerInv, ReportInv, Switched
<1>6. SwitcherInv'
  <2>1. SwitcherShown
    BY DEF IInv, InnerInv, SwitcherInv, Switched
  <2>2. CASE menu' = menu
    BY <1>1, <2>1, <2>2 DEF IInv, InnerInv, SwitcherInv, SwitcherShown, Lines
  <2>3. CASE reader'.calls # <<>> /\ Head(reader'.calls) = "lines"
    <3>1. CASE menu' = ClosedMenu
      BY <1>1, <2>3, <3>1 DEF IInv, InnerInv, SwitcherInv, ClosedMenu
    <3>2. CASE menu.open /\ menu'.open /\ menu'.sessions = menu.sessions
      BY <1>1, <2>3, <3>2 DEF IInv, InnerInv, SwitcherInv, Lines
    <3>3. CASE ~menu.open
      <4>1. bar.menu.count = 0
        BY <2>1, <3>3 DEF SwitcherShown, Lines, NoLines
      <4> QED
        BY <1>1, <2>3, <4>1 DEF IInv, InnerInv, SwitcherInv
    <3> QED
      BY <2>3, <3>1, <3>2, <3>3 DEF Switched
  <2> QED
    BY <2>2, <2>3 DEF Switched
<1>7. Pends(reader.calls) => Pends(reader'.calls)
  BY DEF Switched, Pends
<1>8. OuterInv'
  BY <1>7, UnmovedOuter DEF IInv, Unmoved
<1> QED
  BY <1>2, <1>3, <1>4, <1>5, <1>6, <1>8 DEF IInv, InnerInv

\* The steps of the switcher, of a reader that has taken its bytes.
LEMMA SwitcherSteps ==
  ASSUME InputType, NEW r, r \in ReaderType(r), menu.open => menu.sessions # {},
         r.mode = reader.mode, r.out = reader.out, r.reported = reader.reported,
         r.stopped = reader.stopped,
         r.data = <<>> \/ r.data[Len(r.data)] = End, r.data = <<>> => reader.data = <<>>,
         reader.calls = <<>> \/ Head(reader.calls) = "toggle",
         \/ reader' = r /\ menu' = menu /\ r.calls = <<>> /\ reader.calls = <<>>
         \/ CloseMenu(r)
         \/ menu.open /\ \E delta \in {-1, 1} : Move(delta, r)
         \/ \E selection : Choose(selection, r)
  PROVE  Switched
<1>1. CASE reader' = r /\ menu' = menu /\ r.calls = <<>> /\ reader.calls = <<>>
  BY <1>1 DEF Switched, CallsFit, InputType
<1>2. ASSUME NEW calls \in {Repaint, Repaint \o <<>>, Repaint \o <<"handoff">>}, NEW target,
             reader' = [r EXCEPT !.calls = calls]
             \/ reader' = [r EXCEPT !.target = target, !.calls = calls],
             menu' \in MenuType,
             menu' = ClosedMenu \/ (menu.open /\ menu'.open /\ menu'.sessions = menu.sessions)
      PROVE  Switched
  <2>1. /\ calls \in Seq(CallNames) /\ calls # <<>> /\ Head(calls) = "lines"
        /\ \A i \in 1..Len(calls) :
             /\ calls[i] = "lines" => i < Len(calls) /\ calls[i + 1] = "size"
             /\ calls[i] = "size" => i < Len(calls) /\ calls[i + 1] = "resize"
             /\ calls[i] # "toggle"
    BY RepaintCalls
  <2>2. /\ reader' \in ReaderType(reader') /\ reader'.calls = calls /\ reader'.data = r.data
        /\ reader'.mode = r.mode /\ reader'.out = r.out /\ reader'.reported = r.reported
        /\ reader'.stopped = r.stopped
    <3>1. CASE reader' = [r EXCEPT !.calls = calls]
      BY <2>1, <3>1 DEF ReaderType
    <3>2. CASE reader' = [r EXCEPT !.target = target, !.calls = calls]
      BY <2>1, <3>2 DEF ReaderType
    <3> QED
      BY <1>2, <3>1, <3>2
  <2>3. CallsFit(reader')
    BY <2>1, <2>2 DEF CallsFit
  <2> QED
    BY <1>2, <2>1, <2>2, <2>3 DEF Switched
<1>3. ClosedMenu \in MenuType
  BY DEF ClosedMenu, MenuType
<1>4. CASE CloseMenu(r)
  BY <1>2, <1>3, <1>4 DEF CloseMenu
<1>5. ASSUME menu.open, NEW delta \in {-1, 1}, Move(delta, r)
      PROVE  Switched
  <2> DEFINE count == Cardinality(menu.sessions)
             selection == (menu.selection + delta) % count
  <2>1. menu \in MenuType /\ menu.sessions # {} /\ IsFiniteSet(menu.sessions)
    BY <1>5, SelfIsASession, FS_Subset DEF InputType, MenuType, SelfAssumption
  <2>2. count \in Nat \ {0}
    BY <2>1, FS_CardinalityType, FS_EmptySet
  <2>3. selection \in Int
    <3>1. menu.selection + delta \in Int
      BY <2>1 DEF MenuType
    <3> HIDE DEF count
    <3> QED
      BY <2>2, <3>1
  <2>4. menu' = [menu EXCEPT !.selection = selection] /\ reader' = [r EXCEPT !.calls = Repaint]
    BY <1>5 DEF Move
  <2> HIDE DEF selection
  <2>5. menu' \in MenuType /\ menu'.open /\ menu'.sessions = menu.sessions
    BY <1>5, <2>1, <2>3, <2>4 DEF MenuType
  <2> QED
    BY <1>2, <1>5, <2>4, <2>5
<1>6. ASSUME NEW selection, Choose(selection, r)
      PROVE  Switched
  <2> DEFINE target == Nth(menu.sessions, selection + 1)
             more == IF target = Self THEN <<>> ELSE <<"handoff">>
  <2>1. menu' = ClosedMenu /\ reader' = [r EXCEPT !.target = target, !.calls = Repaint \o more]
    BY <1>6 DEF Choose
  <2>2. more = <<>> \/ more = <<"handoff">>
    OBVIOUS
  <2> HIDE DEF target, more
  <2>3. Repaint \o more \in {Repaint, Repaint \o <<>>, Repaint \o <<"handoff">>}
    BY <2>2
  <2> QED
    BY <1>2, <1>3, <2>1, <2>3
<1> QED
  BY <1>1, <1>4, <1>5, <1>6

\* A reader that has taken a byte for the switcher.
LEMMA MenuTakes ==
  ASSUME InputType, InputInv, Ready, Byte # End, NEW n \in {0, 1},
         NEW menuMode \in {"idle", "escape", "sequence"}, NEW r,
         r = After(n, <<>>) \/ r = [After(n, <<>>) EXCEPT !.menuMode = menuMode]
  PROVE  /\ r \in ReaderType(r) /\ r.calls = <<>>
         /\ r.mode = reader.mode /\ r.out = reader.out /\ r.reported = reader.reported
         /\ r.stopped = reader.stopped /\ r.data # <<>> /\ r.data[Len(r.data)] = End
<1> DEFINE took == After(n, <<>>)
<1>1. <<>> \in Seq(CallNames) /\ n \in Nat /\ n < Len(reader.data)
  BY ReadyFacts
<1>2. /\ took \in ReaderType(took) /\ took.data # <<>> /\ took.data[Len(took.data)] = End
      /\ took.calls = <<>> /\ took.mode = reader.mode /\ took.out = reader.out
      /\ took.reported = reader.reported
  BY <1>1, ReadyFacts, AfterFacts
<1>3. took.stopped = reader.stopped
  BY ReadyFacts DEF After, ReaderType
<1> HIDE DEF took
<1>4. r = took \/ r = [took EXCEPT !.menuMode = menuMode]
  BY DEF took
<1> QED
  BY <1>2, <1>3, <1>4 DEF ReaderType

\* A byte for the switcher.
LEMMA MenuKeeps ==
  ASSUME IInv, Running, main \notin Before, UNCHANGED outerVars,
         MenuByte \/ MenuEscape \/ MenuSequence
  PROVE  IInv'
<1>1. /\ InputType /\ InputInv /\ Ready /\ Byte # End /\ menu.open /\ reader.calls = <<>>
      /\ (menu.open => menu.sessions # {}) /\ Unmoved
  BY DEF IInv, InnerInv, InputInv, MenuByte, MenuEscape, MenuSequence, OpenMenu, Ready
<1>2. CASE MenuByte
  <2> DEFINE took == After(1, <<>>)
             escaped == [took EXCEPT !.menuMode = "escape"]
  <2>1. /\ took \in ReaderType(took) /\ took.calls = <<>>
        /\ took.mode = reader.mode /\ took.out = reader.out /\ took.reported = reader.reported
        /\ took.stopped = reader.stopped /\ took.data # <<>> /\ took.data[Len(took.data)] = End
    BY <1>1, MenuTakes
  <2>2. /\ escaped \in ReaderType(escaped) /\ escaped.calls = <<>>
        /\ escaped.mode = reader.mode /\ escaped.out = reader.out
        /\ escaped.reported = reader.reported /\ escaped.stopped = reader.stopped
        /\ escaped.data # <<>> /\ escaped.data[Len(escaped.data)] = End
    BY <1>1, MenuTakes
  <2>3. \/ reader' = escaped /\ menu' = menu
        \/ reader' = took /\ menu' = menu
        \/ CloseMenu(took)
        \/ \E delta \in {-1, 1} : Move(delta, took)
        \/ \E selection : Choose(selection, took)
    BY <1>2 DEF MenuByte
  <2> HIDE DEF took, escaped
  <2>4. Switched
    <3>1. CASE reader' = escaped /\ menu' = menu
      BY <1>1, <2>2, <3>1, SwitcherSteps
    <3>2. CASE ~(reader' = escaped /\ menu' = menu)
      BY <1>1, <2>1, <2>3, <3>2, SwitcherSteps
    <3> QED
      BY <3>1, <3>2
  <2> QED
    BY <1>1, <2>4, SwitchedKeeps
<1>3. CASE MenuEscape
  <2> DEFINE moved == [After(1, <<>>) EXCEPT !.menuMode = "sequence"]
             again == [After(0, <<>>) EXCEPT !.menuMode = "idle"]
  <2>1. /\ moved \in ReaderType(moved) /\ moved.calls = <<>>
        /\ moved.mode = reader.mode /\ moved.out = reader.out /\ moved.reported = reader.reported
        /\ moved.stopped = reader.stopped /\ moved.data # <<>>
        /\ moved.data[Len(moved.data)] = End
    BY <1>1, MenuTakes
  <2>2. /\ again \in ReaderType(again) /\ again.calls = <<>>
        /\ again.mode = reader.mode /\ again.out = reader.out /\ again.reported = reader.reported
        /\ again.stopped = reader.stopped /\ again.data # <<>>
        /\ again.data[Len(again.data)] = End
    BY <1>1, MenuTakes
  <2>3. (reader' = moved /\ menu' = menu) \/ CloseMenu(again)
    BY <1>3 DEF MenuEscape
  <2> HIDE DEF moved, again
  <2>4. Switched
    BY <1>1, <2>1, <2>2, <2>3, SwitcherSteps
  <2> QED
    BY <1>1, <2>4, SwitchedKeeps
<1>4. CASE MenuSequence
  <2> DEFINE took == [After(1, <<>>) EXCEPT !.menuMode = "idle"]
  <2>1. /\ took \in ReaderType(took) /\ took.calls = <<>>
        /\ took.mode = reader.mode /\ took.out = reader.out /\ took.reported = reader.reported
        /\ took.stopped = reader.stopped /\ took.data # <<>> /\ took.data[Len(took.data)] = End
    BY <1>1, MenuTakes
  <2>2. (reader' = took /\ menu' = menu) \/ \E delta \in {-1, 1} : Move(delta, took)
    BY <1>4 DEF MenuSequence
  <2> HIDE DEF took
  <2>3. Switched
    BY <1>1, <2>1, <2>2, SwitcherSteps
  <2> QED
    BY <1>1, <2>3, SwitchedKeeps
<1> QED
  BY <1>2, <1>3, <1>4

\* The escape that stood alone.
LEMMA GraceKeeps ==
  ASSUME IInv, Running, main \notin Before, UNCHANGED outerVars, GracePasses
  PROVE  IInv'
<1> DEFINE idle == [reader EXCEPT !.menuMode = "idle"]
<1>1. /\ InputType /\ reader \in ReaderType(reader) /\ reader.data = <<>> /\ reader.calls = <<>>
      /\ (menu.open => menu.sessions # {}) /\ Unmoved
  BY DEF IInv, InnerInv, InputType, InputInv, GracePasses, Waiting
<1>2. /\ idle \in ReaderType(idle) /\ idle.calls = <<>> /\ idle.data = <<>>
      /\ idle.mode = reader.mode /\ idle.out = reader.out
      /\ idle.reported = reader.reported /\ idle.stopped = reader.stopped
  BY <1>1 DEF ReaderType
<1>3. CloseMenu(idle) \/ (reader' = idle /\ menu' = menu)
  BY DEF GracePasses
<1> HIDE DEF idle
<1>4. Switched
  BY <1>1, <1>2, <1>3, SwitcherSteps
<1> QED
  BY <1>1, <1>4, SwitchedKeeps

-----------------------------------------------------------------------------
(* The calls. *)

\* What a call other than a report and a repaint's first leaves in the reader.
CallMade ==
  /\ reader' \in ReaderType(reader') /\ CallsFit(reader')
  /\ reader'.mode = reader.mode /\ reader'.reported = reader.reported
  /\ reader'.out \in {reader.out, <<>>}
  /\ \/ reader'.data = reader.data /\ reader'.stopped = reader.stopped
     \/ reader'.data = <<>> /\ reader'.stopped

\* A call keeps what is known of the input.
LEMMA CallInner ==
  ASSUME InnerInv, main \notin Before, main' = main, UNCHANGED <<typed, menu>>,
         connection' \in {"open", "closed"}, detach' \in {"no", "sent", "yes"},
         reader.calls # <<>>, Head(reader.calls) \notin {"report", "lines"}, CallMade,
         bar'.content.armed = bar.content.armed, bar'.menu = bar.menu, screen'.hid = screen.hid
  PROVE  InnerInv'
<1>1. InputType' /\ CallsInv'
  BY DEF InnerInv, InputType, CallsInv, CallMade
<1>2. InputInv'
  BY DEF InnerInv, InputInv, CallMade, MenuOwnsKeyboard
<1>3. ReportInv'
  BY DEF InnerInv, ReportInv, CallMade
<1>4. SwitcherInv'
  <2>1. SwitcherShown
    BY DEF InnerInv, SwitcherInv
  <2> QED
    BY <2>1 DEF InnerInv, SwitcherInv, SwitcherShown, Lines
<1> QED
  BY <1>1, <1>2, <1>3, <1>4 DEF InnerInv

\* The calls that are left when one is made.
LEMMA TailFits ==
  ASSUME reader \in ReaderType(reader), CallsFit(reader), reader.calls # <<>>, NEW r,
         r.calls = Tail(reader.calls), r.mode = reader.mode,
         r.out = <<>> \/ (r.out = reader.out /\ Head(reader.calls) # "flush")
  PROVE  /\ r.calls \in Seq(CallNames) /\ CallsFit(r)
         /\ Head(reader.calls) = "lines" => r.calls # <<>> /\ Head(r.calls) = "size"
         /\ Head(reader.calls) = "size" => r.calls # <<>> /\ Head(r.calls) = "resize"
<1> DEFINE calls == reader.calls
           rest == r.calls
<1>1. /\ calls \in Seq(CallNames) /\ Len(calls) \in Nat \ {0} /\ Head(calls) = calls[1]
      /\ rest \in Seq(CallNames) /\ Len(rest) = Len(calls) - 1
      /\ \A i \in 1..Len(rest) : i + 1 \in 1..Len(calls) /\ rest[i] = calls[i + 1]
  BY DEF ReaderType
<1>2. CallsFit(r)
  <2>1. SUFFICES ASSUME NEW i \in 1..Len(rest)
                 PROVE  /\ rest[i] = "lines" => i < Len(rest) /\ rest[i + 1] = "size"
                        /\ rest[i] = "size" => i < Len(rest) /\ rest[i + 1] = "resize"
                        /\ rest[i] = "toggle" =>
                             r.mode = "idle"
                             /\ IF i = 1 THEN r.out = <<>> ELSE i = 2 /\ rest[1] = "flush"
    BY DEF CallsFit
  <2>2. /\ calls[i + 1] = "lines" => i + 1 < Len(calls) /\ calls[i + 2] = "size"
        /\ calls[i + 1] = "size" => i + 1 < Len(calls) /\ calls[i + 2] = "resize"
        /\ calls[i + 1] = "toggle" => reader.mode = "idle" /\ i = 1 /\ calls[1] = "flush"
    <3>1. i + 1 \in 1..Len(calls) /\ (i + 1) + 1 = i + 2 /\ i + 1 # 1 /\ (i + 1 = 2 => i = 1)
      BY <1>1
    <3> QED
      BY <3>1 DEF CallsFit
  <2>3. i < Len(rest) <=> i + 1 < Len(calls)
    BY <1>1
  <2>4. i < Len(rest) => rest[i + 1] = calls[i + 2]
    <3>1. i < Len(rest) => i + 1 \in 1..Len(rest) /\ (i + 1) + 1 = i + 2
      BY <1>1
    <3> QED
      BY <1>1, <3>1
  <2>5. rest[i] = calls[i + 1]
    BY <1>1
  <2> QED
    BY <1>1, <2>2, <2>3, <2>4, <2>5
<1>3. /\ calls[1] = "lines" => 1 < Len(calls) /\ calls[2] = "size"
      /\ calls[1] = "size" => 1 < Len(calls) /\ calls[2] = "resize"
  <2>1. 1 \in 1..Len(calls) /\ 1 + 1 = 2
    BY <1>1
  <2> QED
    BY <2>1 DEF CallsFit
<1>4. 1 < Len(calls) => rest # <<>> /\ Head(rest) = calls[2]
  <2>1. SUFFICES ASSUME 1 < Len(calls) PROVE rest # <<>> /\ Head(rest) = calls[2]
    OBVIOUS
  <2>2. 1 \in 1..Len(rest) /\ rest \in Seq(CallNames)
    BY <1>1, <2>1
  <2>3. rest[1] = calls[2]
    BY <1>1, <2>2
  <2> HIDE DEF rest
  <2> QED
    BY <2>2, <2>3
<1> QED
  BY <1>1, <1>2, <1>3, <1>4

\* The reader when one call is made and nothing else is changed that matters.
LEMMA CalledMade ==
  ASSUME InnerInv, reader.calls # <<>>, NEW target, NEW request, NEW muted \in BOOLEAN,
         NEW size \in SizeType, NEW out \in {reader.out, <<>>},
         Head(reader.calls) = "flush" => reader'.out = <<>>,
         \/ reader' = [reader EXCEPT !.calls = Tail(@), !.out = out]
         \/ reader' = Called
         \/ reader' = [Called EXCEPT !.muted = muted]
         \/ reader' = [Called EXCEPT !.size = size]
         \/ reader' = [Called EXCEPT !.request = request, !.target = target]
  PROVE  /\ CallMade /\ reader'.calls = Tail(reader.calls)
         /\ Head(reader.calls) = "lines" => reader'.calls # <<>> /\ Head(reader'.calls) = "size"
         /\ Head(reader.calls) = "size" => reader'.calls # <<>> /\ Head(reader'.calls) = "resize"
<1> DEFINE rest == Tail(reader.calls)
<1>1. reader \in ReaderType(reader) /\ CallsFit(reader)
  BY DEF InnerInv, InputType, CallsInv
<1>2. rest \in Seq(CallNames) /\ out \in Seq(Bytes)
  <2>1. reader.calls \in Seq(CallNames) /\ reader.out \in Seq(Bytes) /\ <<>> \in Seq(Bytes)
    BY <1>1 DEF ReaderType
  <2>2. rest \in Seq(CallNames)
    BY <2>1, HeadTailProperties
  <2>3. out \in Seq(Bytes)
    BY <2>1
  <2> QED
    BY <2>2, <2>3
<1> HIDE DEF rest
<1>3. \/ reader' = [reader EXCEPT !.calls = rest, !.out = out]
      \/ reader' = [reader EXCEPT !.calls = rest]
      \/ reader' = [reader EXCEPT !.calls = rest, !.muted = muted]
      \/ reader' = [reader EXCEPT !.calls = rest, !.size = size]
      \/ reader' = [reader EXCEPT !.calls = rest, !.request = request, !.target = target]
  BY <1>1 DEF Called, ReaderType, rest
<1>4. /\ reader' \in ReaderType(reader') /\ reader'.calls = rest /\ reader'.mode = reader.mode
      /\ reader'.reported = reader.reported /\ reader'.out \in {reader.out, out}
      /\ reader'.data = reader.data /\ reader'.stopped = reader.stopped
  <2>1. CASE reader' = [reader EXCEPT !.calls = rest, !.out = out]
    BY <1>1, <1>2, <2>1 DEF ReaderType
  <2>2. CASE reader' = [reader EXCEPT !.calls = rest]
    BY <1>1, <1>2, <2>2 DEF ReaderType
  <2>3. CASE reader' = [reader EXCEPT !.calls = rest, !.muted = muted]
    BY <1>1, <1>2, <2>3 DEF ReaderType
  <2>4. CASE reader' = [reader EXCEPT !.calls = rest, !.size = size]
    BY <1>1, <1>2, <2>4 DEF ReaderType
  <2>5. CASE reader' = [reader EXCEPT !.calls = rest, !.request = request, !.target = target]
    BY <1>1, <1>2, <2>5 DEF ReaderType
  <2> QED
    BY <1>3, <2>1, <2>2, <2>3, <2>4, <2>5
<1>5. /\ CallsFit(reader')
      /\ Head(reader.calls) = "lines" => reader'.calls # <<>> /\ Head(reader'.calls) = "size"
      /\ Head(reader.calls) = "size" => reader'.calls # <<>> /\ Head(reader'.calls) = "resize"
  BY <1>1, <1>4, TailFits DEF rest
<1> QED
  BY <1>4, <1>5 DEF CallMade, rest

\* The reader when a call leads to others, or to the end of the input.
LEMMA NewCallsMade ==
  ASSUME InnerInv, NEW calls, NEW target, NEW request, NEW muted \in BOOLEAN,
         calls \in {<<>>, <<"report", "stop">>, <<"stop">>, <<"handoff">>, <<"detach", "close">>},
         \/ reader' = [reader EXCEPT !.calls = calls, !.out = <<>>]
         \/ reader' = [reader EXCEPT !.calls = calls, !.muted = muted]
         \/ reader' = [reader EXCEPT !.calls = calls, !.target = target]
         \/ reader' = [reader EXCEPT !.calls = calls, !.target = target, !.request = request]
         \/ reader' = [reader EXCEPT !.calls = calls, !.data = <<>>, !.stopped = TRUE]
  PROVE  CallMade /\ reader'.calls = calls
<1>1. reader \in ReaderType(reader)
  BY DEF InnerInv, InputType
<1>2. calls \in Seq(CallNames)
      /\ \A i \in 1..Len(calls) : calls[i] \notin {"lines", "size", "toggle"}
  BY <1>1, FirstCalls
<1>3. <<>> \in Seq(Bytes) /\ <<>> \in Seq(Bytes \cup {End})
  OBVIOUS
<1>4. /\ reader' \in ReaderType(reader') /\ reader'.calls = calls /\ reader'.mode = reader.mode
      /\ reader'.reported = reader.reported /\ reader'.out \in {reader.out, <<>>}
      /\ \/ reader'.data = reader.data /\ reader'.stopped = reader.stopped
         \/ reader'.data = <<>> /\ reader'.stopped
  <2> DEFINE none == <<>>
  <2>0. none \in Seq(Bytes) /\ none \in Seq(Bytes \cup {End})
    BY <1>3
  <2> HIDE DEF none
  <2>1. CASE reader' = [reader EXCEPT !.calls = calls, !.out = none]
    BY <1>1, <1>2, <2>0, <2>1 DEF ReaderType, none
  <2>2. CASE reader' = [reader EXCEPT !.calls = calls, !.muted = muted]
    BY <1>1, <1>2, <2>2 DEF ReaderType
  <2>3. CASE reader' = [reader EXCEPT !.calls = calls, !.target = target]
    BY <1>1, <1>2, <2>3 DEF ReaderType
  <2>4. CASE reader' = [reader EXCEPT !.calls = calls, !.target = target, !.request = request]
    BY <1>1, <1>2, <2>4 DEF ReaderType
  <2>5. CASE reader' = [reader EXCEPT !.calls = calls, !.data = none, !.stopped = TRUE]
    BY <1>1, <1>2, <2>0, <2>5 DEF ReaderType, none
  <2> QED
    BY <2>1, <2>2, <2>3, <2>4, <2>5 DEF none
<1>5. CallsFit(reader')
  BY <1>2, <1>4 DEF CallsFit
<1> QED
  BY <1>4, <1>5 DEF CallMade

\* The size of the session stays right when neither it nor the bar changes.
LEMMA CallSize ==
  ASSUME SizeInv, winch' = winch, ContentRows(bar)' = ContentRows(bar),
         connection = "closed" => connection' = "closed",
         session'.reading => session.reading,
         session'.pty = session.pty, session'.overtaken = session.overtaken,
         Pends(reader.calls) => Pends(reader'.calls)
  PROVE  SizeInv'
BY DEF SizeInv, Pends

\* A call keeps the invariant.
LEMMA CallKeeps ==
  ASSUME IInv, Running, main \notin Before, UNCHANGED outerVars, UNCHANGED <<typed, menu>>,
         connection' \in {connection, "closed"}, detach' \in {"no", "sent", "yes"},
         others' \subseteq Sessions, reader.calls # <<>>,
         Head(reader.calls) \notin {"report", "lines"}, CallMade,
         NEW kind, NEW value, Framed(kind, value), SizeInv',
         BarKept, SamePlaces, bar'.content.armed = bar.content.armed
  PROVE  IInv'
<1>1. main' = main /\ connection' \in {"open", "closed"}
  BY DEF outerVars, IInv, InnerInv, InputType
<1>2. InnerInv'
  BY <1>1, CallInner DEF IInv, SamePlaces
<1>3. DaemonType'
  BY DEF Framed, DaemonType
<1>4. OuterInv'
  BY <1>3, InputOuter DEF IInv, Framed
<1> QED
  BY <1>2, <1>4 DEF IInv

\* A call that leaves the bar alone and sends no size.
LEMMA PlainCallKeeps ==
  ASSUME IInv, Running, main \notin Before, UNCHANGED outerVars, UNCHANGED <<typed, menu>>,
         connection' \in {connection, "closed"}, detach' \in {"no", "sent", "yes"},
         others' \subseteq Sessions, reader.calls # <<>>,
         Head(reader.calls) \notin {"report", "lines", "resize"}, CallMade,
         Head(reader.calls) = "size" => Pends(reader'.calls),
         \/ session' = session
         \/ \E kind \in {"input", "focus", "detach"} : Frame(kind, 0)
         \/ \E muted \in BOOLEAN : Frame("mute", muted),
         UNCHANGED barVars
  PROVE  IInv'
<1>1. BarKept /\ SamePlaces /\ bar'.content = bar.content
  BY BarIsOK, SameBar DEF IInv
<1>2. session \in SessionType(session)
  BY DEF IInv, OuterInv, DaemonType
<1>3. \E kind, value : kind # "resize" /\ Framed(kind, value)
  <2>1. CASE session' = session
    <3>1. Framed("input", 0)
      BY <1>2, <2>1 DEF Framed, SessionType
    <3> QED
      BY <3>1
  <2>2. ASSUME NEW kind \in {"input", "focus", "detach"}, Frame(kind, 0)
        PROVE  kind # "resize" /\ Framed(kind, 0)
    BY <1>2, <2>2, FrameKeeps
  <2>3. ASSUME NEW muted \in BOOLEAN, Frame("mute", muted)
        PROVE  Framed("mute", muted)
    BY <1>2, <2>3, FrameKeeps
  <2> QED
    BY <2>1, <2>2, <2>3
<1>4. PICK kind : \E value : kind # "resize" /\ Framed(kind, value)
  BY <1>3
<1>5. PICK value : kind # "resize" /\ Framed(kind, value)
  BY <1>4
<1>6. ContentRows(bar)' = ContentRows(bar) /\ winch' = winch
  BY <1>1 DEF BarKept, SamePlaces, ContentRows, Reserved, outerVars
<1>7. SizeInv'
  <2>1. Pends(reader.calls) => Pends(reader'.calls)
    BY DEF Pends
  <2> QED
    BY <1>5, <1>6, <2>1, CallSize DEF IInv, OuterInv, Framed
<1> QED
  BY <1>1, <1>5, <1>7, CallKeeps

\* A call that is made and leads to no other.
LEMMA OnceCalledKeeps ==
  ASSUME IInv, Running, main \notin Before, UNCHANGED outerVars, UNCHANGED <<typed, menu>>,
         connection' \in {connection, "closed"}, detach' \in {"no", "sent", "yes"},
         others' \subseteq Sessions, reader.calls # <<>>,
         Head(reader.calls) \notin {"report", "lines", "resize", "flush"},
         NEW target, NEW request, NEW muted \in BOOLEAN, NEW size \in SizeType,
         \/ reader' = Called
         \/ reader' = [Called EXCEPT !.muted = muted]
         \/ reader' = [Called EXCEPT !.size = size]
         \/ reader' = [Called EXCEPT !.request = request, !.target = target],
         \/ session' = session
         \/ \E kind \in {"input", "focus", "detach"} : Frame(kind, 0)
         \/ \E m \in BOOLEAN : Frame("mute", m),
         UNCHANGED barVars
  PROVE  IInv'
<1>1. /\ CallMade /\ reader'.calls = Tail(reader.calls)
      /\ Head(reader.calls) = "size" => reader'.calls # <<>> /\ Head(reader'.calls) = "resize"
  <2>1. reader.out \in {reader.out, <<>>}
    OBVIOUS
  <2> QED
    BY <2>1, CalledMade DEF IInv
<1>2. Head(reader.calls) = "size" => Pends(reader'.calls)
  BY <1>1 DEF Pends
<1> QED
  BY <1>1, <1>2, PlainCallKeeps

\* flush, whichever way it ends.
LEMMA FlushOutKeeps ==
  ASSUME IInv, Running, main \notin Before, UNCHANGED outerVars, FlushOut
  PROVE  IInv'
<1>1. PICK flush \in {"flush", "lastFlush", "tryFlush"} :
        /\ Calls(flush)
        /\ IF reader.out = <<>>
           THEN reader' = Called /\ UNCHANGED session
           ELSE /\ Frame("input", 0)
                /\ \E ok \in Sends :
                     reader' = [reader EXCEPT !.out = <<>>, !.calls =
                       IF ok \/ flush = "tryFlush" THEN Tail(@)
                       ELSE IF flush = "flush" THEN <<"report", "stop">> ELSE <<"stop">>]
  BY DEF FlushOut
<1>2. reader.calls # <<>> /\ Head(reader.calls) = flush
      /\ UNCHANGED <<typed, menu, connection, detach, others, barVars>>
  BY <1>1 DEF Calls, FlushOut
<1>3. /\ InnerInv /\ reader \in ReaderType(reader) /\ others \subseteq Sessions
      /\ detach \in {"no", "sent", "yes"} /\ reader.muted \in BOOLEAN
      /\ reader.size \in SizeType
  BY DEF IInv, InnerInv, InputType, OuterInv, DaemonType, ReaderType
<1>4. CallMade
  <2>1. CASE reader.out = <<>>
    <3>1. reader' = [reader EXCEPT !.calls = Tail(@), !.out = <<>>]
      BY <1>1, <1>3, <2>1 DEF Called, ReaderType
    <3>2. reader'.out = <<>> /\ <<>> \in {reader.out, <<>>}
      BY <1>3, <3>1 DEF ReaderType
    <3> QED
      BY <1>2, <1>3, <3>1, <3>2, CalledMade
  <2>2. CASE reader.out # <<>>
    <3>1. PICK ok \in Sends :
            reader' = [reader EXCEPT !.out = <<>>, !.calls =
                       IF ok \/ flush = "tryFlush" THEN Tail(@)
                       ELSE IF flush = "flush" THEN <<"report", "stop">> ELSE <<"stop">>]
      BY <1>1, <2>2
    <3>2. CASE ok \/ flush = "tryFlush"
      <4> DEFINE calls == IF ok \/ flush = "tryFlush" THEN Tail(reader.calls)
                          ELSE IF flush = "flush" THEN <<"report", "stop">> ELSE <<"stop">>
      <4>1. calls = Tail(reader.calls)
        BY <3>2
      <4>2. reader' = [reader EXCEPT !.out = <<>>, !.calls = calls]
        BY <3>1
      <4> HIDE DEF calls
      <4>3. /\ reader' = [reader EXCEPT !.calls = Tail(@), !.out = <<>>]
            /\ reader'.out = <<>> /\ <<>> \in {reader.out, <<>>}
        BY <1>3, <4>1, <4>2 DEF ReaderType
      <4> QED
        BY <1>2, <1>3, <4>3, CalledMade
    <3>3. CASE ~(ok \/ flush = "tryFlush")
      <4> DEFINE calls == IF flush = "flush" THEN <<"report", "stop">> ELSE <<"stop">>
      <4>1. calls \in {<<>>, <<"report", "stop">>, <<"stop">>, <<"handoff">>, <<"detach", "close">>}
        OBVIOUS
      <4>2. reader' = [reader EXCEPT !.calls = calls, !.out = <<>>]
        BY <1>3, <3>1, <3>3 DEF ReaderType
      <4> HIDE DEF calls
      <4> QED
        BY <1>3, <4>1, <4>2, NewCallsMade
    <3> QED
      BY <3>2, <3>3
  <2> QED
    BY <2>1, <2>2
<1>5. session' = session \/ \E kind \in {"input", "focus", "detach"} : Frame(kind, 0)
  BY <1>1
<1> QED
  BY <1>2, <1>3, <1>4, <1>5, PlainCallKeeps

\* The calls that send a frame, end the attachment or read the size.
LEMMA FrameCallsKeep ==
  ASSUME IInv, Running, main \notin Before, UNCHANGED outerVars,
         FocusFrame \/ ToggleMute \/ SendDetach \/ RequestDetach \/ CloseConnection
         \/ ReadSize \/ StopReading
  PROVE  IInv'
<1>1. /\ InnerInv /\ reader \in ReaderType(reader) /\ others \subseteq Sessions
      /\ detach \in {"no", "sent", "yes"} /\ reader.muted \in BOOLEAN
      /\ reader.size \in SizeType
  BY DEF IInv, InnerInv, InputType, OuterInv, DaemonType, ReaderType
<1>2. CASE FocusFrame
  <2>1. /\ reader.calls # <<>> /\ Head(reader.calls) = "focus" /\ reader' = Called
        /\ Frame("focus", 0) /\ UNCHANGED <<typed, menu, connection, detach, others, barVars>>
    BY <1>2 DEF FocusFrame, Calls
  <2> QED
    BY <1>1, <2>1, OnceCalledKeeps
<1>3. CASE ToggleMute
  <2> DEFINE muted == ~reader.muted
  <2>1. /\ reader.calls # <<>> /\ Head(reader.calls) = "mute"
        /\ Frame("mute", muted) /\ UNCHANGED <<typed, menu, connection, detach, others, barVars>>
    BY <1>3 DEF ToggleMute, Calls
  <2>2. muted \in BOOLEAN
    BY <1>1
  <2>3. PICK ok \in Sends : reader' = [(IF ok THEN Called ELSE Failed) EXCEPT !.muted = ~@]
    BY <1>3 DEF ToggleMute
  <2>4. CASE ok
    <3>1. reader' = [Called EXCEPT !.muted = muted]
      BY <1>1, <2>3, <2>4 DEF Called, ReaderType
    <3> HIDE DEF muted
    <3> QED
      BY <1>1, <2>1, <2>2, <3>1, OnceCalledKeeps
  <2>5. CASE ~ok
    <3> DEFINE calls == <<"report", "stop">>
    <3>1. reader' = [reader EXCEPT !.calls = calls, !.muted = muted]
      BY <1>1, <2>3, <2>5 DEF Failed, ReaderType
    <3>2. calls \in {<<>>, <<"report", "stop">>, <<"stop">>, <<"handoff">>, <<"detach", "close">>}
      OBVIOUS
    <3> HIDE DEF muted, calls
    <3>3. CallMade
      BY <1>1, <2>2, <3>1, <3>2, NewCallsMade
    <3> QED
      BY <1>1, <2>1, <2>2, <3>3, PlainCallKeeps
  <2> QED
    BY <2>4, <2>5
<1>4. CASE SendDetach
  <2>1. /\ reader.calls # <<>> /\ Head(reader.calls) = "detach" /\ reader' = Called
        /\ Frame("detach", 0) /\ UNCHANGED <<typed, menu, connection, others, barVars>>
        /\ detach' \in {"no", "sent", "yes"}
    BY <1>1, <1>4 DEF SendDetach, Calls
  <2> QED
    BY <1>1, <2>1, OnceCalledKeeps
<1>5. CASE RequestDetach
  <2>1. /\ reader.calls # <<>> /\ Head(reader.calls) = "onDetach" /\ reader' = Called
        /\ UNCHANGED <<typed, menu, connection, session, others, barVars>>
        /\ detach' \in {"no", "sent", "yes"}
    BY <1>5 DEF RequestDetach, Calls
  <2> QED
    BY <1>1, <2>1, OnceCalledKeeps
<1>6. CASE CloseConnection
  <2>1. /\ reader.calls # <<>> /\ Head(reader.calls) = "close" /\ reader' = Called
        /\ UNCHANGED <<typed, menu, detach, session, others, barVars>>
        /\ connection' \in {connection, "closed"}
    BY <1>6 DEF CloseConnection, Calls
  <2> QED
    BY <1>1, <2>1, OnceCalledKeeps
<1>7. CASE ReadSize
  <2> DEFINE size == SizeOf(ContentRows(bar))
  <2>1. /\ reader.calls # <<>> /\ Head(reader.calls) = "size"
        /\ reader' = [Called EXCEPT !.size = size]
        /\ UNCHANGED <<typed, menu, connection, detach, session, others, barVars>>
    BY <1>7 DEF ReadSize, Calls, Quiet
  <2>2. size \in SizeType
    <3>1. ContentRows(bar) \in Int
      BY HeightFacts DEF IInv, OuterInv, BarType, LinesType, ContentRows, Reserved
    <3> QED
      BY <3>1 DEF SizeOf, SizeType
  <2> HIDE DEF size
  <2> QED
    BY <1>1, <2>1, <2>2, OnceCalledKeeps
<1>8. CASE StopReading
  <2> DEFINE calls == <<>>
  <2>1. /\ reader.calls # <<>> /\ Head(reader.calls) = "stop"
        /\ reader' = [reader EXCEPT !.calls = calls, !.data = <<>>, !.stopped = TRUE]
        /\ UNCHANGED <<typed, menu, connection, detach, session, others, barVars>>
    BY <1>8 DEF StopReading, Calls, Quiet
  <2>2. calls \in {<<>>, <<"report", "stop">>, <<"stop">>, <<"handoff">>, <<"detach", "close">>}
    OBVIOUS
  <2> HIDE DEF calls
  <2>3. CallMade
    BY <1>1, <2>1, <2>2, NewCallsMade
  <2> QED
    BY <1>1, <2>1, <2>3, PlainCallKeeps
<1> QED
  BY <1>2, <1>3, <1>4, <1>5, <1>6, <1>7, <1>8

\* The report of a held prefix to the status bar: afterwards the bar says what
\* the reader has reported, and that is whether a prefix is held.
LEMMA ReportKeeps ==
  ASSUME IInv, Running, main \notin Before, UNCHANGED outerVars, Report
  PROVE  IInv'
<1> DEFINE armed == reader.mode # "idle"
           rest == Tail(reader.calls)
           content == [bar.content EXCEPT !.armed = armed]
<1>1. /\ InputType /\ reader \in ReaderType(reader) /\ CallsFit(reader)
      /\ reader.calls # <<>> /\ Head(reader.calls) = "report"
      /\ reader' = [Called EXCEPT !.reported = armed]
      /\ IF armed = reader.reported THEN UNCHANGED barVars ELSE SetContent(content)
      /\ UNCHANGED <<typed, menu, connection, detach, session, others>>
  BY DEF IInv, InnerInv, InputType, CallsInv, Report, Calls, Quiet, SetPrefixArmed
<1>2. armed \in BOOLEAN
  OBVIOUS
<1>3. rest \in Seq(CallNames)
  BY <1>1, HeadTailProperties DEF ReaderType
<1>4. BarOK /\ bar.content \in ContentType /\ bar.content.armed = reader.reported
  BY BarIsOK DEF IInv, OuterInv, BarType, InnerInv, ReportInv
<1> HIDE DEF armed, rest
<1>5. reader' = [reader EXCEPT !.calls = rest, !.reported = armed]
  BY <1>1 DEF Called, ReaderType, rest
<1>6. /\ reader' \in ReaderType(reader') /\ reader'.calls = rest /\ reader'.mode = reader.mode
      /\ reader'.out = reader.out /\ reader'.data = reader.data
      /\ reader'.stopped = reader.stopped /\ reader'.reported = armed
  BY <1>1, <1>2, <1>3, <1>5 DEF ReaderType
<1>7. CallsFit(reader')
  BY <1>1, <1>6, TailFits DEF rest
<1>8. content \in ContentType /\ content.armed = armed
  BY <1>2, <1>4 DEF ContentType
<1> HIDE DEF content
<1>9. BarKept /\ SamePlaces /\ bar'.content.armed = armed
  <2>1. CASE armed = reader.reported
    BY <1>1, <1>4, <2>1, SameBar
  <2>2. CASE armed # reader.reported
    <3>1. Keeps /\ SamePlaces /\ DrawsAgain /\ bar'.content = content
      BY <1>1, <1>4, <1>8, <2>2, SetContentKeeps
    <3> QED
      BY <1>8, <3>1, KeepsIsKept DEF SamePlaces
  <2> QED
    BY <2>1, <2>2
<1>10. main' = main /\ winch' = winch
  BY DEF outerVars
<1>11. InputType' /\ CallsInv'
  BY <1>1, <1>6, <1>7 DEF InputType, CallsInv
<1>12. InputInv'
  BY <1>1, <1>6, <1>10 DEF IInv, InnerInv, InputInv, MenuOwnsKeyboard
<1>13. ReportInv'
  BY <1>6, <1>9 DEF ReportInv, armed
<1>14. SwitcherInv'
  <2>1. SwitcherShown
    BY <1>1 DEF IInv, InnerInv, SwitcherInv
  <2> QED
    BY <1>1, <1>9, <2>1 DEF IInv, InnerInv, SwitcherInv, SwitcherShown, Lines, SamePlaces
<1>15. OuterInv'
  <2>1. ContentRows(bar)' = ContentRows(bar)
    BY <1>9 DEF SamePlaces, ContentRows, Reserved
  <2>2. ~Pends(reader.calls)
    BY <1>1 DEF Pends
  <2>3. SizeInv'
    BY <1>1, <1>10, <2>1, <2>2, CallSize DEF IInv, OuterInv
  <2>4. DaemonType'
    BY <1>1 DEF IInv, OuterInv, DaemonType
  <2> QED
    BY <1>1, <1>9, <2>3, <2>4, InputOuter DEF IInv
<1> QED
  BY <1>11, <1>12, <1>13, <1>14, <1>15 DEF IInv, InnerInv

\* The mute is shown with the prefix left as it is.
LEMMA ShowMuteKeeps ==
  ASSUME IInv, Running, main \notin Before, UNCHANGED outerVars, ShowMute
  PROVE  IInv'
<1> DEFINE content == [bar.content EXCEPT !.muted = reader.muted]
<1>1. /\ InnerInv /\ reader \in ReaderType(reader) /\ others \subseteq Sessions
      /\ connection' \in {connection, "closed"} /\ detach' \in {"no", "sent", "yes"}
      /\ reader.calls # <<>> /\ Head(reader.calls) = "muted" /\ reader' = Called
      /\ SetContent(content) /\ UNCHANGED <<typed, menu, connection, detach, session, others>>
  BY DEF IInv, InnerInv, InputType, OuterInv, DaemonType, ShowMute, Calls, Quiet,
         SetNotificationsMuted
<1>2. BarOK /\ bar.content \in ContentType /\ session \in SessionType(session)
  BY BarIsOK DEF IInv, OuterInv, BarType, DaemonType
<1>3. content \in ContentType /\ content.armed = bar.content.armed
  BY <1>1, <1>2 DEF ContentType, ReaderType
<1> HIDE DEF content
<1>4. Keeps /\ SamePlaces /\ DrawsAgain /\ bar'.content = content
  BY <1>1, <1>2, <1>3, SetContentKeeps
<1>5. BarKept
  BY <1>4, KeepsIsKept DEF SamePlaces
<1>6. CallMade
  <2>1. reader.muted \in BOOLEAN /\ reader.size \in SizeType /\ reader.out \in {reader.out, <<>>}
    BY <1>1 DEF ReaderType
  <2> QED
    BY <1>1, <2>1, CalledMade
<1>7. Framed("input", 0)
  BY <1>1, <1>2 DEF Framed, SessionType
<1>8. SizeInv'
  <2>1. ContentRows(bar)' = ContentRows(bar) /\ winch' = winch
    BY <1>4 DEF SamePlaces, ContentRows, Reserved, outerVars
  <2>2. ~Pends(reader.calls)
    BY <1>1 DEF Pends
  <2> QED
    BY <1>1, <2>1, <2>2, CallSize DEF IInv, OuterInv
<1> QED
  BY <1>1, <1>3, <1>4, <1>5, <1>6, <1>7, <1>8, CallKeeps

\* The switcher opens with the sessions the daemon has, when a prefixed arrow
\* asked for it: nothing is held then and everything typed before is sent.
LEMMA ToggleKeeps ==
  ASSUME IInv, Running, main \notin Before, UNCHANGED outerVars, Toggle
  PROVE  IInv'
<1>1. /\ InnerInv /\ InputType /\ reader \in ReaderType(reader) /\ others \subseteq Sessions
      /\ detach \in {"no", "sent", "yes"} /\ reader.muted \in BOOLEAN
      /\ reader.size \in SizeType /\ reader.out \in {reader.out, <<>>}
      /\ reader.calls # <<>> /\ Head(reader.calls) = "toggle" /\ Unmoved
      /\ reader.data = <<>> \/ reader.data[Len(reader.data)] = End
      /\ menu.open => menu.sessions # {}
  BY DEF IInv, InnerInv, InputType, InputInv, OuterInv, DaemonType, ReaderType, Toggle, Calls
<1>2. reader.mode = "idle" /\ reader.out = <<>>
  <2>1. 1 \in 1..Len(reader.calls) /\ reader.calls[1] = "toggle"
    BY <1>1 DEF ReaderType
  <2> QED
    BY <2>1 DEF IInv, InnerInv, CallsInv, CallsFit
<1>3. CASE menu.open /\ CloseMenu(reader)
  <2>1. Switched
    BY <1>1, <1>3, SwitcherSteps
  <2> QED
    BY <1>1, <2>1, SwitchedKeeps
<1>4. CASE reader' = Called /\ UNCHANGED menu
  BY <1>1, <1>4, OnceCalledKeeps DEF Unmoved
<1>5. CASE ~menu.open /\ reader' = [reader EXCEPT !.calls = Repaint] /\ Switchable # {}
           /\ menu' = [open |-> TRUE, sessions |-> Switchable,
                       selection |-> IF Self \in Switchable
                                     THEN Number(Switchable, Self) - 1 ELSE 0]
  <2>1. Switchable \subseteq Sessions
    BY <1>1, SelfIsASession DEF Switchable, SelfAssumption
  <2>2. Number(Switchable, Self) \in Nat
    <3>1. IsFiniteSet(Switchable) /\ {t \in Switchable : t <= Self} \subseteq Switchable
      BY <2>1, LinesBounded
    <3>2. IsFiniteSet({t \in Switchable : t <= Self})
      BY <3>1, FS_Subset
    <3> QED
      BY <3>2, FS_CardinalityType DEF Number
  <2>3. menu' \in MenuType /\ menu'.open /\ menu'.sessions # {}
    <3> DEFINE selection == IF Self \in Switchable THEN Number(Switchable, Self) - 1 ELSE 0
    <3>1. selection \in Int
      BY <2>2
    <3>2. menu' = [open |-> TRUE, sessions |-> Switchable, selection |-> selection]
      BY <1>5
    <3> HIDE DEF selection
    <3> QED
      BY <1>5, <2>1, <3>1, <3>2 DEF MenuType
  <2> DEFINE calls == Repaint
  <2>4. /\ calls \in Seq(CallNames) /\ calls # <<>> /\ Head(calls) = "lines"
        /\ \A i \in 1..Len(calls) :
             /\ calls[i] = "lines" => i < Len(calls) /\ calls[i + 1] = "size"
             /\ calls[i] = "size" => i < Len(calls) /\ calls[i + 1] = "resize"
             /\ calls[i] # "toggle"
    BY RepaintCalls
  <2>5. reader' = [reader EXCEPT !.calls = calls]
    BY <1>5
  <2> HIDE DEF calls
  <2>6. /\ reader' \in ReaderType(reader') /\ reader'.calls = calls /\ reader'.data = reader.data
        /\ reader'.mode = reader.mode /\ reader'.out = reader.out
        /\ reader'.reported = reader.reported /\ reader'.stopped = reader.stopped
    BY <1>1, <2>4, <2>5 DEF ReaderType
  <2>7. CallsFit(reader')
    BY <2>4, <2>6 DEF CallsFit
  <2>8. Switched
    BY <1>1, <1>2, <1>5, <2>3, <2>4, <2>6, <2>7 DEF Switched
  <2> QED
    BY <1>1, <2>8, SwitchedKeeps
<1> QED
  BY <1>3, <1>4, <1>5 DEF Toggle

\* The first step of a repaint: the bar takes the lines of the switcher.
LEMMA PaintLinesKeeps ==
  ASSUME IInv, Running, main \notin Before, UNCHANGED outerVars, PaintLines
  PROVE  IInv'
<1> DEFINE lines == Lines
<1>1. /\ InnerInv /\ InputType /\ reader \in ReaderType(reader) /\ menu \in MenuType
      /\ reader.calls # <<>> /\ Head(reader.calls) = "lines" /\ reader' = Called
      /\ SetMenuLines(lines) /\ UNCHANGED <<typed, menu, connection, detach, session, others>>
  BY DEF IInv, InnerInv, InputType, PaintLines, Calls, Quiet
<1>2. BarOK
  BY BarIsOK DEF IInv
<1>3. /\ lines \in LinesType
      /\ lines.count = 0 => lines = NoLines
      /\ ~menu.open => lines.count = 0
  <2>1. CASE menu.open
    <3>1. menu.sessions \subseteq Sessions /\ menu.selection \in Int
      BY <1>1 DEF MenuType
    <3>2. LinesFor(menu.sessions) \in Nat \ {0} /\ LinesFor(menu.sessions) <= LinesFor(Sessions)
          /\ LinesFor(Sessions) \in Nat
      BY <3>1, LinesBounded
    <3>3. lines = [count |-> LinesFor(menu.sessions), selected |-> menu.selection]
      BY <2>1 DEF Lines
    <3> HIDE DEF lines
    <3> QED
      BY <2>1, <3>1, <3>2, <3>3 DEF LinesType
  <2>2. CASE ~menu.open
    <3>1. lines = NoLines
      BY <2>2 DEF Lines
    <3>2. LinesFor(Sessions) \in Nat
      BY LinesBounded
    <3> HIDE DEF lines
    <3> QED
      BY <3>1, <3>2 DEF LinesType, NoLines
  <2> QED
    BY <2>1, <2>2
<1>4. /\ menu.open => bar.menu.count \in {0, lines.count}
      /\ bar.menu.count = 0 => bar.menu = NoLines
      /\ bar.menu.count \in Nat
  BY HeightFacts DEF IInv, InnerInv, SwitcherInv, OuterInv, BarType, LinesType
<1> HIDE DEF lines
<1>5. lines.count < bar.menu.count => lines.count = 0
  <2>1. lines.count \in Nat
    BY <1>3, HeightFacts DEF LinesType
  <2> QED
    BY <1>3, <1>4, <2>1
<1>6. /\ Keeps /\ DrawsAgain
      /\ bar'.rows = bar.rows /\ bar'.content = bar.content /\ bar'.menu = lines
  BY <1>1, <1>2, <1>3, <1>4, <1>5, SetMenuLinesKeeps
<1>7. BarKept
  BY <1>6, KeepsIsKept
<1>8. CallMade /\ reader'.calls # <<>> /\ Head(reader'.calls) = "size"
  <2>1. reader.muted \in BOOLEAN /\ reader.size \in SizeType /\ reader.out \in {reader.out, <<>>}
    BY <1>1 DEF ReaderType
  <2> QED
    BY <1>1, <2>1, CalledMade
<1>9. main' = main
  BY DEF outerVars
<1>10. InputType' /\ CallsInv'
  BY <1>1, <1>8 DEF InputType, CallsInv, CallMade
<1>11. InputInv'
  BY <1>1, <1>8, <1>9 DEF InnerInv, InputInv, CallMade, MenuOwnsKeyboard
<1>12. ReportInv'
  BY <1>1, <1>6, <1>8 DEF InnerInv, ReportInv, CallMade
<1>13. SwitcherInv'
  <2>1. Lines' = lines
    BY <1>1 DEF Lines, lines
  <2> QED
    BY <1>3, <1>6, <2>1 DEF SwitcherInv, SwitcherShown
<1>14. OuterInv'
  <2>1. SizeInv'
    BY <1>8 DEF SizeInv, Pends
  <2>2. DaemonType'
    BY <1>1 DEF IInv, OuterInv, DaemonType
  <2> QED
    BY <1>1, <1>7, <2>1, <2>2, InputOuter DEF IInv
<1> QED
  BY <1>10, <1>11, <1>12, <1>13, <1>14 DEF IInv, InnerInv

\* Its last: the size read between them reaches the session, unless it is
\* overtaken.
LEMMA SendSizeKeeps ==
  ASSUME IInv, Running, main \notin Before, UNCHANGED outerVars, SendSize
  PROVE  IInv'
<1> DEFINE none == NoSize
<1>1. /\ InnerInv /\ reader \in ReaderType(reader) /\ others \subseteq Sessions
      /\ connection' \in {connection, "closed"} /\ detach' \in {"no", "sent", "yes"}
      /\ reader.calls # <<>> /\ Head(reader.calls) = "resize"
      /\ reader' = [Called EXCEPT !.size = none] /\ Frame("resize", reader.size)
      /\ UNCHANGED <<typed, menu, connection, detach, others, barVars>>
  BY DEF IInv, InnerInv, InputType, OuterInv, DaemonType, SendSize, Calls
<1>2. /\ session \in SessionType(session) /\ BarKept /\ SamePlaces
      /\ bar'.content = bar.content
  BY <1>1, BarIsOK, SameBar DEF IInv, OuterInv, DaemonType
<1>3. none \in SizeType /\ reader.size \in SizeType /\ reader.muted \in BOOLEAN
      /\ reader.out \in {reader.out, <<>>}
  BY <1>1 DEF NoSize, SizeType, ReaderType
<1> HIDE DEF none
<1>4. CallMade
  BY <1>1, <1>3, CalledMade
<1>5. /\ Framed("resize", reader.size)
      /\ \/ connection = "closed" \/ ~session'.reading \/ session'.overtaken
         \/ session'.pty = Normalized(ContentRows(bar) % 65536)
  BY <1>1, <1>2, <1>3, FrameKeeps
<1>6. ContentRows(bar)' = ContentRows(bar)
  BY <1>2 DEF SamePlaces, ContentRows, Reserved
<1>7. SizeInv'
  BY <1>1, <1>5, <1>6 DEF SizeInv
<1> QED
  BY <1>1, <1>2, <1>4, <1>5, <1>7, CallKeeps

\* A switch and a new session ask for a handoff, or nothing comes of them.
LEMMA SwitchKeeps ==
  ASSUME IInv, Running, main \notin Before, UNCHANGED outerVars, Switch \/ CreateSession
  PROVE  IInv'
<1> DEFINE request == [step |-> 0, index |-> 0]
           handoff == <<"handoff">>
<1>1. /\ InnerInv /\ reader \in ReaderType(reader) /\ others' \subseteq Sessions
      /\ detach' \in {"no", "sent", "yes"} /\ reader.muted \in BOOLEAN
      /\ reader.size \in SizeType /\ reader.calls # <<>>
      /\ Head(reader.calls) \in {"switch", "new"}
      /\ UNCHANGED <<typed, menu, connection, detach, session, barVars>>
  BY DEF IInv, InnerInv, InputType, OuterInv, DaemonType, ReaderType, Switch, CreateSession,
         Calls, Quiet
<1>2. \/ reader' = Called
      \/ reader' = [Called EXCEPT !.request = request, !.target = NoSession]
      \/ \E target : reader' = [reader EXCEPT !.calls = handoff, !.target = target]
      \/ \E target :
           reader' = [reader EXCEPT !.calls = handoff, !.target = target, !.request = request]
  <2>1. CASE Switch
    <3>1. CASE reader' = Over
      BY <3>1 DEF Over
    <3>2. CASE reader' # Over
      <4>1. PICK target : reader' = [Over EXCEPT !.target = target, !.calls = handoff]
        BY <2>1, <3>2 DEF Switch
      <4> HIDE DEF request, handoff
      <4>2. reader' = [reader EXCEPT !.calls = handoff, !.target = target, !.request = request]
        BY <1>1, <4>1 DEF Over, Called, ReaderType, request
      <4> QED
        BY <4>2
    <3> QED
      BY <3>1, <3>2
  <2>2. CASE CreateSession
    BY <2>2 DEF CreateSession
  <2> QED
    BY <2>1, <2>2
<1>3. handoff \in {<<>>, <<"report", "stop">>, <<"stop">>, <<"handoff">>, <<"detach", "close">>}
  OBVIOUS
<1> HIDE DEF request, handoff
<1>4. CallMade
  <2>1. reader.out \in {reader.out, <<>>}
    OBVIOUS
  <2>2. CASE reader' = Called
    BY <1>1, <2>1, <2>2, CalledMade
  <2>3. CASE reader' = [Called EXCEPT !.request = request, !.target = NoSession]
    BY <1>1, <2>1, <2>3, CalledMade
  <2>4. ASSUME NEW target,
               \/ reader' = [reader EXCEPT !.calls = handoff, !.target = target]
               \/ reader' = [reader EXCEPT !.calls = handoff, !.target = target,
                                           !.request = request]
        PROVE  CallMade
    BY <1>1, <1>3, <2>4, NewCallsMade
  <2> QED
    BY <1>2, <2>2, <2>3, <2>4
<1> QED
  BY <1>1, <1>4, PlainCallKeeps

\* The target of a handoff is recorded once; a handoff under way stands.
LEMMA HandoffKeeps ==
  ASSUME IInv, Running, main \notin Before, UNCHANGED outerVars, Handoff
  PROVE  IInv'
<1> DEFINE request == [step |-> 0, index |-> 0]
           calls == <<"detach", "close">>
           target == reader.target
<1>1. /\ InnerInv /\ reader \in ReaderType(reader) /\ others \subseteq Sessions
      /\ connection' \in {connection, "closed"} /\ detach' \in {"no", "sent", "yes"}
      /\ reader.muted \in BOOLEAN /\ reader.size \in SizeType
      /\ reader.calls # <<>> /\ Head(reader.calls) = "handoff"
      /\ UNCHANGED <<typed, menu, connection, detach, session, others>>
  BY DEF IInv, InnerInv, InputType, OuterInv, DaemonType, ReaderType, Handoff, Calls, Quiet
<1>2. CASE bar.handoff # NoSession
  <2>1. reader' = [Called EXCEPT !.request = request, !.target = NoSession]
        /\ UNCHANGED barVars
    BY <1>2 DEF Handoff, Over
  <2> HIDE DEF request
  <2> QED
    BY <1>1, <2>1, OnceCalledKeeps
<1>3. CASE bar.handoff = NoSession
  <2>1. /\ reader' = [Over EXCEPT !.calls = calls]
        /\ bar' = [bar EXCEPT !.handoff = target] /\ screen' = screen /\ writing' = writing
    BY <1>3 DEF Handoff, RequestHandoff
  <2>2. calls \in {<<>>, <<"report", "stop">>, <<"stop">>, <<"handoff">>, <<"detach", "close">>}
    OBVIOUS
  <2> HIDE DEF calls, target, request
  <2>3. reader' = [reader EXCEPT !.calls = calls, !.target = NoSession, !.request = request]
    BY <1>1, <2>1 DEF Over, Called, ReaderType, request
  <2>4. CallMade
    BY <1>1, <2>2, <2>3, NewCallsMade
  <2>5. BarOK
    BY BarIsOK DEF IInv
  <2>6. /\ bar' \in BarType(bar') /\ bar'.rows = bar.rows /\ bar'.menu = bar.menu
        /\ bar'.content = bar.content /\ bar'.dirty = bar.dirty /\ bar'.claimed = bar.claimed
        /\ bar'.pending = bar.pending /\ bar'.clear = bar.clear /\ bar'.stream = bar.stream
        /\ bar'.tail = bar.tail /\ bar'.closed = bar.closed
    BY <2>1, <2>5 DEF BarOK, BarType
  <2>7. BarOK'
    BY <2>1, <2>5, <2>6 DEF BarOK, KeptInv, Own, ContentRows, Reserved, ScreenType
  <2>8. DrawsAgain
    BY <2>1, <2>6 DEF DrawsAgain, FooterInv, Own, ContentRows, Reserved, Footer
  <2>9. BarKept /\ SamePlaces
    BY <1>3, <2>1, <2>6, <2>7, <2>8 DEF BarKept, SamePlaces
  <2>10. Framed("input", 0)
    BY <1>1 DEF IInv, OuterInv, DaemonType, Framed, SessionType
  <2>11. SizeInv'
    <3>1. ContentRows(bar)' = ContentRows(bar) /\ winch' = winch
      BY <2>9 DEF SamePlaces, ContentRows, Reserved, outerVars
    <3>2. ~Pends(reader.calls)
      BY <1>1 DEF Pends
    <3> QED
      BY <1>1, <3>1, <3>2, CallSize DEF IInv, OuterInv
  <2> QED
    BY <1>1, <2>4, <2>6, <2>9, <2>10, <2>11, CallKeeps
<1> QED
  BY <1>2, <1>3

-----------------------------------------------------------------------------
(* The whole of the input. *)

\* Everything the input does keeps the invariant.
LEMMA InputKeeps ==
  ASSUME IInv, Input
  PROVE  IInv'
<1>1. Running /\ main \notin Before /\ UNCHANGED outerVars
  BY DEF Input, Before
<1>2. CASE ReadInput
  BY <1>1, <1>2, ReadInputKeeps
<1>3. CASE GracePasses
  BY <1>1, <1>3, GraceKeeps
<1>4. CASE EndOfRead
  BY <1>1, <1>4, EndOfReadKeeps
<1>5. CASE IdleByte \/ ArmedByte \/ EscapeByte \/ SequenceByte \/ FocusReport
  BY <1>1, <1>5, PlainKeeps
<1>6. CASE MenuByte \/ MenuEscape \/ MenuSequence
  BY <1>1, <1>6, MenuKeeps
<1>7. CASE FlushOut
  BY <1>1, <1>7, FlushOutKeeps
<1>8. CASE FocusFrame \/ ToggleMute \/ SendDetach \/ RequestDetach \/ CloseConnection
           \/ ReadSize \/ StopReading
  BY <1>1, <1>8, FrameCallsKeep
<1>9. CASE Report
  BY <1>1, <1>9, ReportKeeps
<1>10. CASE ShowMute
  BY <1>1, <1>10, ShowMuteKeeps
<1>11. CASE Toggle
  BY <1>1, <1>11, ToggleKeeps
<1>12. CASE PaintLines
  BY <1>1, <1>12, PaintLinesKeeps
<1>13. CASE SendSize
  BY <1>1, <1>13, SendSizeKeeps
<1>14. CASE Switch \/ CreateSession
  BY <1>1, <1>14, SwitchKeeps
<1>15. CASE Handoff
  BY <1>1, <1>15, HandoffKeeps
<1> QED
  BY <1>2, <1>3, <1>4, <1>5, <1>6, <1>7, <1>8, <1>9, <1>10, <1>11, <1>12, <1>13, <1>14, <1>15
     DEF Input, InputStep, ConsumeStep, CallStep

-----------------------------------------------------------------------------
(* What an action of the rest of the client leaves to the input. *)

\* The switcher, when neither it nor the lines of the bar move.
LEMMA SwitcherKept ==
  ASSUME InnerInv, UNCHANGED inputVars, bar'.menu = bar.menu, screen'.hid = screen.hid
  PROVE  SwitcherInv'
<1>1. reader' = reader /\ menu' = menu
  BY DEF inputVars
<1> QED
  BY <1>1 DEF InnerInv, SwitcherInv, SwitcherShown, Lines

\* An action that is not one of the input keeps what is known of it.
LEMMA InnerKept ==
  ASSUME InnerInv, UNCHANGED inputVars, SwitcherInv',
         bar'.content.armed = bar.content.armed, main' \in Before => main \in Before
  PROVE  InnerInv'
<1>1. /\ typed' = typed /\ reader' = reader /\ menu' = menu
      /\ connection' = connection /\ detach' = detach
  BY DEF inputVars
<1>2. InputType' /\ CallsInv'
  BY <1>1 DEF InnerInv, InputType, CallsInv
<1>3. InputInv'
  BY <1>1 DEF InnerInv, InputInv, MenuOwnsKeyboard
<1>4. ReportInv'
  BY <1>1 DEF InnerInv, ReportInv
<1> QED
  BY <1>2, <1>3, <1>4 DEF InnerInv

\* Before the copy nothing has been read.
LEMMA BeforeFacts ==
  ASSUME InnerInv, main \in Before
  PROVE  /\ reader = NewReader(reader.muted) /\ reader.muted \in BOOLEAN
         /\ menu = ClosedMenu /\ bar.menu = NoLines
         /\ ~bar.content.armed /\ ~reader.reported
<1>1. /\ reader \in ReaderType(reader) /\ reader = NewReader(reader.muted) /\ menu = ClosedMenu
  BY DEF InnerInv, InputType, InputInv
<1>2. reader.calls = <<>> /\ ~reader.reported /\ reader.muted \in BOOLEAN
  <2>1. reader.calls = NewReader(reader.muted).calls
        /\ reader.reported = NewReader(reader.muted).reported
    BY <1>1
  <2> QED
    BY <1>1, <2>1 DEF NewReader, ReaderType
<1>3. bar.menu = NoLines
  BY <1>1, <1>2 DEF InnerInv, SwitcherInv, SwitcherShown, Lines, ClosedMenu
<1>4. ~bar.content.armed
  BY <1>2 DEF InnerInv, ReportInv
<1> QED
  BY <1>1, <1>2, <1>3, <1>4

\* A new reader has read nothing.
LEMMA NewReaderTyped ==
  ASSUME NEW muted \in BOOLEAN
  PROVE  LET r == NewReader(muted)
         IN /\ r \in ReaderType(r) /\ CallsFit(r) /\ r.mode = "idle" /\ r.out = <<>>
            /\ r.data = <<>> /\ r.calls = <<>> /\ ~r.reported /\ r.muted = muted
            /\ r = NewReader(r.muted)
<1> DEFINE r == NewReader(muted)
<1>1. NoSize \in SizeType
  BY DEF NoSize, SizeType
<1>2. <<>> \in Seq(Bytes) /\ <<>> \in Seq(Bytes \cup {End}) /\ <<>> \in Seq(CallNames)
  OBVIOUS
<1>3. /\ r \in ReaderType(r) /\ r.mode = "idle" /\ r.out = <<>>
      /\ r.data = <<>> /\ r.calls = <<>> /\ ~r.reported /\ r.muted = muted
  BY <1>1, <1>2 DEF NewReader, ReaderType, Modes
<1>4. CallsFit(r)
  BY <1>3 DEF CallsFit
<1> QED
  BY <1>3, <1>4

\* What is left of the screen below the footer is a number of rows.
LEMMA ContentFits ==
  ASSUME OuterInv
  PROVE  ContentRows(bar) \in Nat /\ ContentRows(bar) % 65536 = ContentRows(bar)
<1>1. /\ bar.rows \in Nat /\ bar.rows < 65536 /\ bar.menu.count \in Nat
      /\ bar.menu.count <= LinesFor(Sessions) /\ LinesFor(Sessions) \in Nat
      /\ Visible(bar.rows) => bar.rows > 1 + LinesFor(Sessions)
  BY HeightFacts DEF OuterInv, BarType, LinesType
<1>2. ContentRows(bar) \in Nat /\ ContentRows(bar) < 65536
  BY <1>1 DEF ContentRows, Reserved
<1> QED
  BY <1>2

\* An action beside the copy or outside the client, of one that runs on.
LEMMA OuterKept ==
  ASSUME OuterInv, Running, outcome' = outcome, main' = main, connection' = connection,
         BarOK', writing' = writing, bar'.stream = bar.stream, bar'.tail = bar.tail,
         bar'.closed = bar.closed, bar'.handoff = bar.handoff,
         main \in {"attach", "draw"} => bar' = bar /\ (Bare(screen) => Bare(screen)'),
         SafeBoundary(bar.stream) /\ ~bar.closed /\ ~bar.pending => ~bar'.pending,
         (~bar.closed /\ Follows => FooterInv(bar, screen))',
         OuterType', WindowInv', SizeInv', DaemonType',
         session.stream = "closed" => session'.stream = "closed",
         (session.stream = "closed" => session.dropped \/ session.status # "running")'
  PROVE  OuterInv'
<1>1. StreamInv'
  BY StreamKept DEF OuterInv, BarOK
<1>2. outcome.kind = "none"
  BY DEF Running, Attached, Outcome
<1>3. ExitInv'
  BY <1>2 DEF OuterInv, ExitInv, LeavesOnlyAtExit, StaysInFalkn, SwitchesOnlyAtExit
<1>4. BarInv'
  <2>1. KeptInv(bar, screen)'
    BY DEF BarOK
  <2>2. Running' /\ ~bar'.closed
    BY DEF OuterInv, BarInv, Running
  <2>3. (main \in {"attach", "draw"} => bar.pending /\ bar.dirty /\ bar.clear = {})'
    BY DEF OuterInv, BarInv
  <2>4. (main = "attach" => Bare(screen))'
    BY DEF OuterInv, BarInv
  <2>5. (~bar.closed /\ main \notin {"attach", "draw"} /\ bar.handoff = NoSession
         /\ SafeBoundary(bar.stream) => ~bar.pending)'
    BY DEF OuterInv, BarInv
  <2> QED
    BY <2>1, <2>2, <2>3, <2>4, <2>5 DEF BarInv, RestoredAtExit
<1> QED
  BY <1>1, <1>3, <1>4 DEF OuterInv, BarOK

\* One that leaves the bar and the screen alone.
LEMMA OuterSame ==
  ASSUME OuterInv, Running, outcome' = outcome, main' = main, connection' = connection,
         UNCHANGED barVars, Follows' => Follows,
         OuterType', WindowInv', SizeInv', DaemonType',
         session.stream = "closed" => session'.stream = "closed",
         (session.stream = "closed" => session.dropped \/ session.status # "running")'
  PROVE  OuterInv'
<1>1. bar' = bar /\ screen' = screen /\ writing' = writing
  BY DEF barVars
<1>2. BarOK'
  BY <1>1, BarIsOK DEF BarOK
<1>3. (~bar.closed /\ Follows => FooterInv(bar, screen))'
  BY <1>1 DEF OuterInv, BarInv
<1>4. Bare(screen) => Bare(screen)'
  BY <1>1
<1> QED
  BY <1>1, <1>2, <1>3, <1>4, OuterKept

-----------------------------------------------------------------------------
(* The goroutines beside the copy, and what is around the client. *)

\* The signal is taken with the rows the window has then.
LEMMA TakeSignalKeeps ==
  ASSUME IInv, TakeSignal
  PROVE  IInv'
<1> DEFINE rows == window.rows
<1>1. /\ Running /\ winch.pc = "wait" /\ window.signal
      /\ window' = [window EXCEPT !.signal = FALSE]
      /\ winch' = [winch EXCEPT !.pc = "resize", !.rows = rows]
      /\ UNCHANGED <<inputVars, daemonVars, barVars, main, outcome>>
  BY DEF TakeSignal
<1>2. session' = session /\ others' = others /\ bar' = bar /\ screen' = screen
      /\ connection' = connection /\ reader' = reader
  BY <1>1 DEF daemonVars, barVars, inputVars
<1>3. window \in WindowType /\ winch \in WinchType /\ rows \in Heights
  BY DEF IInv, OuterInv, OuterType, WindowType
<1> HIDE DEF rows
<1>4. /\ window' \in WindowType /\ window'.rows = window.rows
      /\ winch' \in WinchType /\ winch'.pc = "resize" /\ winch'.rows = rows
  BY <1>1, <1>3 DEF WindowType, WinchType
<1>5. OuterType'
  BY <1>1, <1>4 DEF IInv, OuterInv, OuterType
<1>6. WindowInv'
  BY <1>1, <1>3, <1>4 DEF IInv, OuterInv, WindowInv, rows
<1>7. SizeInv'
  BY <1>1, <1>2 DEF IInv, OuterInv, SizeInv, Pends, ContentRows, Reserved
<1>8. ~Follows'
  BY <1>4 DEF Follows
<1>9. OuterInv'
  BY <1>1, <1>2, <1>5, <1>6, <1>7, <1>8, OuterSame DEF IInv, OuterInv, DaemonType, ExitInv
<1>10. InnerInv'
  BY <1>1, <1>2, SwitcherKept, InnerKept DEF IInv
<1> QED
  BY <1>9, <1>10 DEF IInv

\* A resize that hides the switcher leaves it open, and remembers that.
LEMMA ResizeBarKeeps ==
  ASSUME IInv, ResizeBar
  PROVE  IInv'
<1> DEFINE rows == winch.rows
<1>1. /\ Running /\ winch.pc = "resize" /\ Resize(rows)
      /\ winch' = [winch EXCEPT !.pc = "size"]
      /\ UNCHANGED <<inputVars, daemonVars, window, main, outcome>>
  BY DEF ResizeBar
<1>2. session' = session /\ others' = others /\ connection' = connection
      /\ reader' = reader /\ menu' = menu
  BY <1>1 DEF daemonVars, inputVars
<1>3. winch \in WinchType /\ rows \in Heights /\ BarOK
  BY <1>1, BarIsOK DEF IInv, OuterInv, OuterType, WindowInv
<1>4. winch' \in WinchType /\ winch'.pc = "size"
  BY <1>1, <1>3 DEF WinchType
<1> HIDE DEF rows
<1>5. /\ Keeps
      /\ bar'.rows = rows /\ bar'.content = bar.content
      /\ bar'.menu = IF Visible(rows) THEN bar.menu ELSE NoLines
      /\ screen'.hid = (screen.hid \/ (~Visible(rows) /\ bar.menu.count > 0))
      /\ FooterInv(bar, screen)'
      /\ SafeBoundary(bar.stream) /\ ~bar.closed => ~bar'.pending
  BY <1>1, <1>3, ResizeKeeps
<1>6. OuterType' /\ SizeInv' /\ DaemonType'
  BY <1>1, <1>2, <1>4 DEF IInv, OuterInv, OuterType, SizeInv, DaemonType
<1>7. main \notin Before
  BY <1>1 DEF IInv, OuterInv, WindowInv
<1>8. WindowInv'
  BY <1>1, <1>4, <1>5, <1>7 DEF IInv, OuterInv, WindowInv, rows
<1>9. OuterInv'
  <2>1. main \notin {"attach", "draw"}
    BY <1>7 DEF Before
  <2> QED
    BY <1>1, <1>2, <1>5, <1>6, <1>8, <2>1, OuterKept DEF IInv, OuterInv, ExitInv, Keeps
<1>10. SwitcherInv'
  <2>1. Lines' = Lines
    BY <1>2 DEF Lines
  <2>2. CASE Visible(rows)
    BY <1>2, <1>5, <2>1, <2>2 DEF IInv, InnerInv, SwitcherInv, SwitcherShown
  <2>3. CASE ~Visible(rows)
    <3>1. bar'.menu = NoLines /\ bar'.menu.count = 0
      BY <1>5, <2>3 DEF NoLines
    <3>2. SwitcherShown => SwitcherShown'
      <4>1. CASE menu.open /\ bar.menu = Lines
        <5>1. Lines.count \in Nat \ {0}
          BY <4>1, LinesBounded DEF IInv, InnerInv, InputType, MenuType, Lines
        <5>2. bar.menu.count > 0
          BY <4>1, <5>1
        <5>3. menu'.open /\ screen'.hid
          BY <1>2, <1>5, <2>3, <4>1, <5>2
        <5> QED
          BY <3>1, <5>3 DEF SwitcherShown
      <4>2. CASE ~menu.open
        BY <1>2, <2>1, <3>1, <4>2 DEF SwitcherShown, Lines
      <4>3. CASE menu.open /\ screen.hid
        BY <1>2, <1>5, <3>1, <4>3 DEF SwitcherShown
      <4> QED
        BY <4>1, <4>2, <4>3 DEF SwitcherShown
    <3> QED
      BY <1>2, <3>1, <3>2 DEF IInv, InnerInv, SwitcherInv
  <2> QED
    BY <2>2, <2>3
<1>11. InnerInv'
  BY <1>1, <1>5, <1>10, InnerKept DEF IInv
<1> QED
  BY <1>9, <1>11 DEF IInv

\* The size sent for a resize is the one the bar had when it was read, or is
\* overtaken.
LEMMA SizesKeep ==
  ASSUME IInv, ReadContentRows \/ SendResize
  PROVE  IInv'
<1>1. /\ Running /\ winch.pc \in {"size", "send"}
      /\ UNCHANGED <<inputVars, others, barVars, window, main, outcome>>
  BY DEF ReadContentRows, SendResize, daemonVars
<1>2. /\ bar' = bar /\ screen' = screen /\ connection' = connection
      /\ reader' = reader /\ ContentRows(bar)' = ContentRows(bar)
  BY <1>1 DEF barVars, inputVars, ContentRows, Reserved
<1>3. winch \in WinchType /\ session \in SessionType(session) /\ main \notin Before
  BY <1>1 DEF IInv, OuterInv, OuterType, DaemonType, WindowInv
<1>4. /\ winch' \in WinchType /\ winch'.pc \in {"send", "wait"}
      /\ session' \in SessionType(session') /\ session'.status = session.status
      /\ session'.stream = session.stream /\ session'.dropped = session.dropped
      /\ SizeInv'
  <2>1. CASE ReadContentRows
    <3> DEFINE size == SizeOf(ContentRows(bar))
    <3>1. winch' = [winch EXCEPT !.pc = "send", !.size = size] /\ session' = session
      BY <2>1 DEF ReadContentRows, daemonVars
    <3>2. size \in SizeType
      BY ContentFits DEF IInv, SizeOf, SizeType
    <3> HIDE DEF size
    <3>3. winch' \in WinchType /\ winch'.pc = "send"
      BY <1>3, <3>1, <3>2 DEF WinchType
    <3> QED
      BY <1>3, <3>1, <3>3 DEF SizeInv
  <2>2. CASE SendResize
    <3> DEFINE none == NoSize
               nothing == 0
    <3>1. /\ Frame("resize", winch.size) /\ winch.size \in SizeType
          /\ winch' = [pc |-> "wait", rows |-> nothing, size |-> none]
      BY <1>3, <2>2 DEF SendResize, WinchType
    <3>2. none \in SizeType /\ nothing \in Heights \cup {0}
      BY DEF NoSize, SizeType
    <3> HIDE DEF none, nothing
    <3>3. winch' \in WinchType /\ winch'.pc = "wait"
      BY <3>1, <3>2 DEF WinchType
    <3>4. /\ Framed("resize", winch.size)
          /\ \/ connection = "closed" \/ ~session'.reading \/ session'.overtaken
             \/ session'.pty = Normalized(ContentRows(bar) % 65536)
      BY <1>3, <3>1, FrameKeeps
    <3>5. SizeInv'
      BY <1>2, <3>4 DEF SizeInv
    <3> QED
      BY <3>3, <3>4, <3>5 DEF Framed
  <2> QED
    BY <2>1, <2>2
<1>5. OuterType' /\ DaemonType' /\ WindowInv'
  BY <1>1, <1>2, <1>3, <1>4 DEF IInv, OuterInv, OuterType, DaemonType, WindowInv
<1>6. Follows' => Follows
  BY <1>1 DEF Follows
<1>7. OuterInv'
  BY <1>1, <1>2, <1>4, <1>5, <1>6, OuterSame DEF IInv, OuterInv, ExitInv
<1>8. InnerInv'
  BY <1>1, <1>2, SwitcherKept, InnerKept DEF IInv
<1> QED
  BY <1>7, <1>8 DEF IInv

\* The status poll keeps what the footer says of the prefix.
LEMMA UpdateFooterKeeps ==
  ASSUME IInv, UpdateFooter
  PROVE  IInv'
<1> DEFINE content == [Listed EXCEPT !.armed = bar.content.armed]
<1>1. /\ Running /\ main \notin {"attach", "draw"} /\ SetContent(content)
      /\ UNCHANGED <<inputVars, daemonVars, window, winch, main, outcome>>
  BY DEF UpdateFooter, UpdateSessions
<1>2. session' = session /\ others' = others /\ connection' = connection /\ reader' = reader
  BY <1>1 DEF daemonVars, inputVars
<1>3. /\ BarOK /\ bar.content \in ContentType /\ session.muted \in BOOLEAN
      /\ others \subseteq Sessions
  BY BarIsOK DEF IInv, OuterInv, BarType, DaemonType, SessionType
<1>4. content \in ContentType /\ content.armed = bar.content.armed
  BY <1>3 DEF Listed, ContentType
<1> HIDE DEF content
<1>5. Keeps /\ SamePlaces /\ DrawsAgain /\ bar'.content = content
  BY <1>1, <1>3, <1>4, SetContentKeeps
<1>6. OuterType' /\ DaemonType' /\ WindowInv' /\ SizeInv'
  BY <1>1, <1>2, <1>5 DEF IInv, OuterInv, OuterType, DaemonType, WindowInv, SizeInv, SamePlaces,
       ContentRows, Reserved, Pends
<1>7. (~bar.closed /\ Follows => FooterInv(bar, screen))'
  BY <1>1, <1>5 DEF IInv, OuterInv, BarInv, Keeps, DrawsAgain, Follows
<1>8. OuterInv'
  BY <1>1, <1>2, <1>5, <1>6, <1>7, OuterKept DEF IInv, OuterInv, ExitInv, Keeps, DrawsAgain
<1>9. InnerInv'
  BY <1>1, <1>4, <1>5, SwitcherKept, InnerKept DEF IInv, SamePlaces
<1> QED
  BY <1>8, <1>9 DEF IInv

\* What is typed waits.
LEMMA TypeKeyKeeps ==
  ASSUME IInv, TypeKey
  PROVE  IInv'
<1>1. /\ Running
      /\ UNCHANGED <<reader, menu, connection, detach, daemonVars, barVars, window, winch, main,
                     outcome>>
  BY DEF TypeKey, Event
<1>2. session' = session /\ others' = others /\ bar' = bar /\ screen' = screen
  BY <1>1 DEF daemonVars, barVars
<1>3. typed' \in Seq(Bytes)
  <2>1. PICK key \in Keys : typed' = typed \o key
    BY DEF TypeKey
  <2>2. typed \in Seq(Bytes) /\ key \in Seq(Bytes)
    BY <2>1, InputsAreTyped DEF IInv, InnerInv, InputType, InputAssumption
  <2> QED
    BY <2>1, <2>2, BytesConcat
<1>4. InnerInv'
  <2>1. InputType' /\ CallsInv' /\ InputInv' /\ ReportInv'
    BY <1>1, <1>2, <1>3
       DEF IInv, InnerInv, InputType, CallsInv, InputInv, ReportInv, MenuOwnsKeyboard
  <2>2. SwitcherInv'
    BY <1>1, <1>2 DEF IInv, InnerInv, SwitcherInv, SwitcherShown, Lines
  <2> QED
    BY <2>1, <2>2 DEF InnerInv
<1>5. OuterType' /\ DaemonType' /\ WindowInv' /\ SizeInv'
  BY <1>1, <1>2 DEF IInv, OuterInv, OuterType, DaemonType, WindowInv, SizeInv, ContentRows,
       Reserved, Pends
<1>6. Follows' => Follows
  BY <1>1 DEF Follows
<1>7. OuterInv'
  BY <1>1, <1>2, <1>5, <1>6, OuterSame DEF IInv, OuterInv, ExitInv
<1> QED
  BY <1>4, <1>7 DEF IInv

\* The terminal takes everything off the screen and the signal is on its way.
LEMMA ResizeWindowKeeps ==
  ASSUME IInv, ResizeWindow
  PROVE  IInv'
<1>1. /\ Running /\ WindowChanges
      /\ UNCHANGED <<inputVars, daemonVars, winch, main, outcome>>
  BY DEF ResizeWindow, Event
<1>2. PICK rows \in Sizes \ {window.rows} :
        window' = [rows |-> rows, signal |-> winch.pc # "off", missed |-> winch.pc = "off"]
  BY DEF ResizeWindow
<1>3. session' = session /\ others' = others /\ connection' = connection /\ reader' = reader
  BY <1>1 DEF daemonVars, inputVars
<1>4. BarOK' /\ bar' = bar /\ writing' = writing /\ Bare(screen)' /\ screen'.hid = screen.hid
  BY <1>1, BarIsOK, WindowChangesKeeps DEF IInv
<1>5. window' \in WindowType /\ (window'.signal \/ window'.missed)
  <2> DEFINE off == winch.pc = "off"
  <2>1. rows \in Heights /\ off \in BOOLEAN
    BY DEF Heights
  <2>2. window' = [rows |-> rows, signal |-> ~off, missed |-> off]
    BY <1>2
  <2> HIDE DEF off
  <2> QED
    BY <2>1, <2>2 DEF WindowType
<1>6. OuterType' /\ DaemonType' /\ WindowInv' /\ SizeInv'
  BY <1>1, <1>3, <1>4, <1>5 DEF IInv, OuterInv, OuterType, DaemonType, WindowInv, SizeInv,
       ContentRows, Reserved, Pends
<1>7. ~Follows'
  BY <1>5 DEF Follows
<1>8. OuterInv'
  BY <1>1, <1>3, <1>4, <1>6, <1>7, OuterKept DEF IInv, OuterInv, ExitInv
<1>9. InnerInv'
  BY <1>1, <1>4, SwitcherKept, InnerKept DEF IInv
<1> QED
  BY <1>8, <1>9 DEF IInv

\* What changes in the daemon: the sessions that run, this one, and the end of
\* the stream.
LEMMA DaemonKeeps ==
  ASSUME IInv, OtherChanges \/ SessionChanges \/ StreamEnds \/ DropClient
  PROVE  IInv'
<1>1. /\ Running /\ UNCHANGED <<inputVars, barVars, window, winch, main, outcome>>
  BY DEF OtherChanges, SessionChanges, StreamEnds, DropClient, Event, outerVars
<1>2. /\ bar' = bar /\ screen' = screen /\ connection' = connection /\ reader' = reader
      /\ ContentRows(bar)' = ContentRows(bar)
  BY <1>1 DEF barVars, inputVars, ContentRows, Reserved
<1>3. session \in SessionType(session) /\ others \subseteq Sessions
      /\ (session.stream = "closed" => session.dropped \/ session.status # "running")
  BY DEF IInv, OuterInv, DaemonType, ExitInv
<1>4. others' \subseteq Sessions
  BY <1>3 DEF OtherChanges, SessionChanges, StreamEnds, DropClient
<1>5. /\ session' \in SessionType(session')
      /\ session'.pty = session.pty /\ session'.overtaken = session.overtaken
      /\ session'.reading => session.reading
      /\ session.stream = "closed" => session'.stream = "closed"
      /\ session'.stream = "closed" => session'.dropped \/ session'.status # "running"
  <2>1. CASE OtherChanges
    BY <1>3, <2>1 DEF OtherChanges
  <2>2. CASE session.status = "running" /\ session' = [session EXCEPT !.muted = ~@]
    BY <1>3, <2>2 DEF SessionType
  <2>3. CASE session.status = "running" /\ session' = [session EXCEPT !.status = "ended"]
    BY <1>3, <2>3 DEF SessionType
  <2>4. CASE session.status = "ended" /\ session' = [session EXCEPT !.status = "gone"]
    BY <1>3, <2>4 DEF SessionType
  <2>5. CASE StreamEnds
    <3> DEFINE dropped == session.status = "running"
    <3>1. session' = [session EXCEPT !.stream = "closed", !.reading = FALSE, !.dropped = dropped]
      BY <2>5 DEF StreamEnds
    <3>2. dropped \in BOOLEAN /\ (dropped \/ session.status # "running")
      OBVIOUS
    <3> HIDE DEF dropped
    <3> QED
      BY <1>3, <3>1, <3>2 DEF SessionType
  <2>6. CASE DropClient
    BY <1>3, <2>6 DEF DropClient, SessionType
  <2> QED
    BY <2>1, <2>2, <2>3, <2>4, <2>5, <2>6 DEF SessionChanges
<1>6. OuterType' /\ DaemonType' /\ WindowInv'
  BY <1>1, <1>2, <1>4, <1>5 DEF IInv, OuterInv, OuterType, DaemonType, WindowInv
<1>7. SizeInv'
  BY <1>1, <1>2, <1>5, CallSize DEF IInv, OuterInv
<1>8. Follows' => Follows
  BY <1>1 DEF Follows
<1>9. OuterInv'
  BY <1>1, <1>2, <1>5, <1>6, <1>7, <1>8, OuterSame DEF IInv, OuterInv
<1>10. InnerInv'
  BY <1>1, <1>2, SwitcherKept, InnerKept DEF IInv
<1> QED
  BY <1>9, <1>10 DEF IInv

-----------------------------------------------------------------------------
(* AttachClient itself. *)

\* The request to attach carries the size of the bar, and the reader starts
\* with what the daemon answered; or the client leaves a screen it never drew on.
LEMMA AttachKeeps ==
  ASSUME IInv, Attach
  PROVE  IInv'
<1>1. /\ Running /\ main = "attach" /\ main \in Before
      /\ UNCHANGED <<typed, menu, connection, detach, others, screen, writing, window, winch>>
  BY DEF Attach, Before
<1>2. /\ menu = ClosedMenu /\ bar.menu = NoLines /\ ~bar.content.armed
      /\ session \in SessionType(session) /\ BarOK
  BY <1>1, BeforeFacts, BarIsOK DEF IInv, OuterInv, DaemonType
<1>3. CASE session.status = "running"
  <2> DEFINE muted == session.muted
             pty == Normalized(ContentRows(bar))
             content == [bar.content EXCEPT !.muted = muted]
  <2>1. /\ session' = [session EXCEPT !.pty = pty, !.reading = TRUE]
        /\ reader' = NewReader(muted) /\ main' = "draw" /\ outcome' = outcome
        /\ bar' = [bar EXCEPT !.content.muted = muted]
    BY <1>3 DEF Attach
  <2>2. muted \in BOOLEAN
    BY <1>2 DEF SessionType
  <2>3. pty = Normalized(ContentRows(bar) % 65536)
    BY ContentFits DEF IInv
  <2>4. content \in ContentType /\ content.armed = bar.content.armed
    BY <2>2 DEF IInv, OuterInv, BarType, ContentType
  <2>5. bar' = [bar EXCEPT !.content = content]
    BY <2>1
  <2> HIDE DEF muted, pty, content
  <2>6. /\ bar' \in BarType(bar') /\ bar'.rows = bar.rows /\ bar'.menu = bar.menu
        /\ bar'.content = content /\ bar'.dirty = bar.dirty /\ bar'.claimed = bar.claimed
        /\ bar'.pending = bar.pending /\ bar'.clear = bar.clear /\ bar'.stream = bar.stream
        /\ bar'.tail = bar.tail /\ bar'.closed = bar.closed /\ bar'.handoff = bar.handoff
    BY <1>2, <2>4, <2>5 DEF BarOK, BarType
  <2>7. /\ session' \in SessionType(session') /\ session'.pty = pty
        /\ session'.stream = session.stream /\ session'.status = session.status
        /\ session'.dropped = session.dropped
    BY <1>2, <2>1 DEF SessionType
  <2>8. ContentRows(bar)' = ContentRows(bar)
    BY <2>6 DEF ContentRows, Reserved
  <2>9. InnerInv'
    <3>1. /\ reader' \in ReaderType(reader') /\ CallsFit(reader') /\ reader'.mode = "idle"
          /\ reader'.out = <<>> /\ reader'.data = <<>> /\ reader'.calls = <<>>
          /\ ~reader'.reported /\ reader' = NewReader(reader'.muted)
      BY <2>1, <2>2, NewReaderTyped
    <3>2. InputType' /\ CallsInv'
      BY <1>1, <3>1 DEF IInv, InnerInv, InputType, CallsInv
    <3>3. InputInv'
      BY <1>1, <1>2, <3>1 DEF InputInv, MenuOwnsKeyboard, ClosedMenu
    <3>4. ReportInv'
      <4>1. bar'.content.armed = FALSE /\ reader'.reported = FALSE
        BY <1>2, <2>4, <2>6, <3>1 DEF ContentType, ReaderType
      <4> QED
        BY <3>1, <4>1 DEF ReportInv
    <3>5. SwitcherInv'
      BY <1>1, <1>2, <2>6 DEF SwitcherInv, SwitcherShown, Lines, ClosedMenu
    <3> QED
      BY <3>2, <3>3, <3>4, <3>5 DEF InnerInv
  <2>10. DaemonType' /\ OuterType' /\ SizeInv'
    BY <1>1, <2>1, <2>3, <2>7, <2>8 DEF IInv, OuterInv, DaemonType, OuterType, SizeInv
  <2>11. WindowInv'
    BY <1>1, <2>1, <2>6 DEF IInv, OuterInv, WindowInv, Before
  <2>12. StreamInv'
    BY <1>1, <1>2, <2>6, StreamKept DEF IInv, OuterInv, BarOK
  <2>13. KeptInv(bar, screen)'
    BY <1>1, <1>2, <2>6, <2>8 DEF BarOK, KeptInv, Own
  <2>14. BarInv'
    BY <1>1, <2>1, <2>6, <2>13
       DEF IInv, OuterInv, BarInv, FooterInv, RestoredAtExit, Running
  <2>15. outcome.kind = "none"
    BY <1>1 DEF Running, Attached, Outcome
  <2>16. ExitInv'
    BY <2>1, <2>7, <2>15
       DEF IInv, OuterInv, ExitInv, LeavesOnlyAtExit, StaysInFalkn, SwitchesOnlyAtExit
  <2>17. screen' \in ScreenType(screen')
    BY <1>1, <1>2 DEF BarOK
  <2> QED
    BY <2>6, <2>9, <2>10, <2>11, <2>12, <2>14, <2>16, <2>17 DEF IInv, OuterInv
<1>4. CASE session.status # "running"
  <2>1. /\ outcome' = Outcome("rejected", NoSession)
        /\ session' = session /\ reader' = reader /\ bar' = bar /\ main' = main
    BY <1>4 DEF Attach
  <2>2. ~Running' /\ outcome'.kind = "rejected"
    BY <2>1 DEF Running, Attached, Outcome
  <2>3. InnerInv'
    BY <1>1, <2>1, SwitcherKept, InnerKept DEF IInv, inputVars
  <2>4. DaemonType' /\ OuterType' /\ WindowInv' /\ SizeInv' /\ StreamInv'
    BY <1>1, <2>1 DEF IInv, OuterInv, DaemonType, OuterType, WindowInv, SizeInv, StreamInv,
         SentPart, ContentRows, Reserved, Pends
  <2>5. Bare(screen)
    BY <1>1 DEF IInv, OuterInv, BarInv
  <2>6. BarInv'
    BY <1>1, <2>1, <2>2, <2>5 DEF IInv, OuterInv, BarInv, KeptInv, FooterInv, Own, ContentRows,
         Reserved, Footer, Follows, RestoredAtExit, Bare
  <2>7. ExitInv'
    BY <1>1, <2>1, <2>2
       DEF IInv, OuterInv, ExitInv, LeavesOnlyAtExit, StaysInFalkn, SwitchesOnlyAtExit
  <2> QED
    BY <1>1, <2>1, <2>3, <2>4, <2>6, <2>7 DEF IInv, OuterInv
<1> QED
  BY <1>3, <1>4

\* The first footer is drawn and the size of the window is followed from then on.
LEMMA StartKeeps ==
  ASSUME IInv, Draw \/ Notify
  PROVE  IInv'
<1>1. /\ Running /\ main \in {"draw", "notify"} /\ main \in Before
      /\ UNCHANGED <<inputVars, daemonVars, window, outcome>>
  BY DEF Draw, Notify, Before, barVars
<1>2. /\ session' = session /\ others' = others /\ connection' = connection
      /\ reader' = reader /\ ~bar.content.armed /\ BarOK /\ winch.pc = "off"
      /\ bar.content \in ContentType /\ winch \in WinchType /\ session \in SessionType(session)
      /\ others \subseteq Sessions
  BY <1>1, BeforeFacts, BarIsOK
     DEF IInv, OuterInv, OuterType, DaemonType, BarType, WindowInv, daemonVars, inputVars
<1>3. outcome.kind = "none"
  BY <1>1 DEF Running, Attached, Outcome
<1>4. CASE Draw
  <2>1. PICK list \in {Listed, bar.content} :
          Render(Pending([bar EXCEPT !.content = list]), screen, writing)
    BY <1>4 DEF Draw
  <2>2. list \in ContentType /\ list.armed = bar.content.armed
    <3>1. bar.content.armed = FALSE /\ session.muted \in BOOLEAN
      BY <1>2 DEF ContentType, SessionType
    <3>2. CASE list = [armed |-> FALSE, muted |-> session.muted, others |-> others]
      BY <1>2, <3>1, <3>2 DEF ContentType
    <3>3. CASE list = bar.content
      BY <1>2, <3>3
    <3> QED
      BY <3>2, <3>3 DEF Listed
  <2>3. /\ Keeps /\ SamePlaces /\ bar'.content = list
        /\ FooterInv(bar, screen) => FooterInv(bar, screen)'
        /\ SafeBoundary(bar.stream) /\ ~bar.closed => ~bar'.pending
    BY <1>2, <2>1, <2>2, PendingRenders
  <2>4. main' = "notify" /\ winch' = winch
    BY <1>4 DEF Draw
  <2>5. InnerInv'
    BY <1>1, <1>2, <2>2, <2>3, SwitcherKept, InnerKept DEF IInv, SamePlaces
  <2>6. DaemonType' /\ OuterType' /\ SizeInv'
    BY <1>1, <1>2, <2>3, <2>4 DEF IInv, OuterInv, DaemonType, OuterType, SizeInv, SamePlaces,
         ContentRows, Reserved, Pends
  <2>7. WindowInv'
    BY <1>1, <1>2, <2>3, <2>4 DEF IInv, OuterInv, WindowInv, SamePlaces, Before
  <2>8. StreamInv'
    BY <2>3, StreamKept DEF IInv, OuterInv, Keeps, BarOK
  <2>9. BarInv'
    <3>1. Follows' = Follows
      BY <1>1, <2>4 DEF Follows
    <3> QED
      BY <1>1, <2>3, <2>4, <3>1 DEF IInv, OuterInv, BarInv, Keeps, BarOK, RestoredAtExit, Running
  <2>10. ExitInv'
    BY <1>1, <1>2, <1>3, <2>4
       DEF IInv, OuterInv, ExitInv, LeavesOnlyAtExit, StaysInFalkn, SwitchesOnlyAtExit
  <2> QED
    BY <2>3, <2>5, <2>6, <2>7, <2>8, <2>9, <2>10 DEF IInv, OuterInv, Keeps, BarOK
<1>5. CASE Notify
  <2>1. /\ winch' = [winch EXCEPT !.pc = "wait"] /\ main' = "copy" /\ main = "notify"
        /\ bar' = bar /\ screen' = screen /\ writing' = writing
    BY <1>5 DEF Notify, barVars
  <2>2. winch' \in WinchType /\ winch'.pc = "wait"
    BY <1>2, <2>1 DEF WinchType
  <2>3. InnerInv'
    BY <1>1, <2>1, SwitcherKept, InnerKept DEF IInv, Before
  <2>4. DaemonType' /\ OuterType' /\ WindowInv' /\ StreamInv'
    BY <1>1, <1>2, <2>1, <2>2 DEF IInv, OuterInv, DaemonType, OuterType, WindowInv, StreamInv,
         SentPart, Before
  <2>5. SizeInv'
    BY <1>2, <2>1, <2>2 DEF IInv, OuterInv, SizeInv, ContentRows, Reserved, Pends
  <2>6. BarInv'
    <3>1. Follows' = Follows
      BY <1>1, <1>2, <2>2 DEF Follows
    <3>2. FooterInv(bar, screen)' = FooterInv(bar, screen)
          /\ KeptInv(bar, screen)' = KeptInv(bar, screen)
      BY <2>1 DEF FooterInv, KeptInv, Own, ContentRows, Reserved, Footer
    <3> QED
      BY <1>1, <2>1, <3>1, <3>2 DEF IInv, OuterInv, BarInv, RestoredAtExit, Running
  <2>7. ExitInv'
    BY <1>1, <1>2, <1>3, <2>1
       DEF IInv, OuterInv, ExitInv, LeavesOnlyAtExit, StaysInFalkn, SwitchesOnlyAtExit
  <2> QED
    BY <1>2, <2>1, <2>3, <2>4, <2>5, <2>6, <2>7 DEF IInv, OuterInv, BarOK
<1> QED
  BY <1>4, <1>5

\* A chunk of the session's output; one that asks for another session ends the
\* copy.
LEMMA CopyKeeps ==
  ASSUME IInv, CopyChunk
  PROVE  IInv'
<1>1. /\ Running /\ main = "copy" /\ main \notin Before
      /\ main' = IF bar'.handoff = NoSession THEN main ELSE "decide"
      /\ WriteRest \/ WriteFresh
      /\ UNCHANGED <<inputVars, daemonVars, window, winch, outcome>>
  BY DEF CopyChunk, Before, Event
<1>2. /\ session' = session /\ others' = others /\ connection' = connection
      /\ reader' = reader
  BY <1>1 DEF daemonVars, inputVars
<1>3. WroteOK
  BY <1>1, BarIsOK, WriteRestKeeps, WriteFreshKeeps DEF IInv, OuterInv
<1>4. main' \in {"copy", "decide"} /\ main' \notin Before
      /\ (main' = "decide" => bar'.handoff # NoSession)
  BY <1>1 DEF Before
<1>5. InnerInv'
  BY <1>1, <1>3, <1>4, SwitcherKept, InnerKept DEF IInv, WroteOK, SamePlaces
<1>6. DaemonType' /\ OuterType' /\ SizeInv'
  BY <1>1, <1>2, <1>3, <1>4 DEF IInv, OuterInv, DaemonType, OuterType, SizeInv, WroteOK,
       SamePlaces, ContentRows, Reserved, Pends
<1>7. WindowInv'
  BY <1>1, <1>3, <1>4 DEF IInv, OuterInv, WindowInv, WroteOK, SamePlaces
<1>8. BarInv'
  <2>1. Follows' = Follows
    BY <1>1 DEF Follows
  <2>2. KeptInv(bar, screen)'
    BY <1>3 DEF WroteOK, BarOK
  <2>3. (~bar.closed /\ Follows => FooterInv(bar, screen))'
    BY <1>3, <2>1 DEF IInv, OuterInv, BarInv, WroteOK
  <2>4. Running' /\ ~bar'.closed
    BY <1>1, <1>3 DEF IInv, OuterInv, BarInv, WroteOK, Running
  <2>5. (bar.handoff = NoSession /\ SafeBoundary(bar.stream) /\ ~bar.closed => ~bar.pending)'
    BY <1>3, <2>4 DEF WroteOK
  <2> QED
    BY <1>4, <2>2, <2>3, <2>4, <2>5 DEF BarInv, RestoredAtExit
<1>9. outcome.kind = "none"
  BY <1>1 DEF Running, Attached, Outcome
<1>10. ExitInv'
  BY <1>1, <1>2, <1>4, <1>9
     DEF IInv, OuterInv, ExitInv, LeavesOnlyAtExit, StaysInFalkn, SwitchesOnlyAtExit
<1> QED
  BY <1>3, <1>5, <1>6, <1>7, <1>8, <1>10 DEF IInv, OuterInv, WroteOK, BarOK

\* A step from one place to the next that touches nothing else.
LEMMA MovesOn ==
  ASSUME IInv, Running, main \notin Before, main' \in {"decide", "select", "fallback"},
         connection = "closed" \/ session.stream = "closed"
         \/ (main' = "decide" /\ bar.handoff # NoSession),
         UNCHANGED <<inputVars, daemonVars, barVars, window, winch, outcome>>
  PROVE  IInv'
<1>1. /\ session' = session /\ others' = others /\ connection' = connection
      /\ reader' = reader /\ bar' = bar /\ screen' = screen /\ writing' = writing
      /\ main' \notin Before /\ main \notin {"attach", "draw"}
  BY DEF daemonVars, inputVars, barVars, Before
<1>2. InnerInv'
  BY <1>1, SwitcherKept, InnerKept DEF IInv
<1>3. DaemonType' /\ OuterType' /\ WindowInv' /\ SizeInv' /\ StreamInv'
  BY <1>1 DEF IInv, OuterInv, DaemonType, OuterType, WindowInv, SizeInv, StreamInv, SentPart,
       ContentRows, Reserved, Pends
<1>4. BarInv'
  <2>1. Follows' = Follows
    BY DEF Follows
  <2>2. FooterInv(bar, screen)' = FooterInv(bar, screen)
        /\ KeptInv(bar, screen)' = KeptInv(bar, screen)
    BY <1>1 DEF FooterInv, KeptInv, Own, ContentRows, Reserved, Footer
  <2> QED
    BY <1>1, <2>1, <2>2 DEF IInv, OuterInv, BarInv, RestoredAtExit, Running
<1>5. outcome.kind = "none"
  BY DEF Running, Attached, Outcome
<1>6. ExitInv'
  BY <1>1, <1>5
     DEF IInv, OuterInv, ExitInv, LeavesOnlyAtExit, StaysInFalkn, SwitchesOnlyAtExit
<1>7. bar \in BarType(bar) /\ screen \in ScreenType(screen)
  BY DEF IInv, OuterInv
<1> QED
  BY <1>1, <1>2, <1>3, <1>4, <1>6, <1>7 DEF IInv, OuterInv

\* The end of AttachClient: the bar is closed and gives the screen back.
LEMMA EndsKeeps ==
  ASSUME IInv, Running, main \notin Before, NEW kind, NEW target, kind # "none",
         Ends(kind, target), UNCHANGED <<inputVars, daemonVars, window, winch>>,
         LeavesOnlyAtExit'
  PROVE  IInv'
<1>1. /\ session' = session /\ others' = others /\ connection' = connection
      /\ reader' = reader /\ main' = main /\ Close /\ outcome' = Outcome(kind, target)
      /\ main' \notin {"attach", "draw"}
  BY DEF daemonVars, inputVars, Ends, Before
<1>2. BarOK /\ ~bar.closed
  BY BarIsOK DEF IInv, OuterInv, BarInv
<1>3. /\ BarOK' /\ writing' = writing /\ bar' = [bar EXCEPT !.closed = TRUE]
      /\ screen'.hid = screen.hid
      /\ SafeBoundary(bar.stream) => Bare(screen)'
  BY <1>1, <1>2, CloseKeeps
<1>4. /\ bar'.rows = bar.rows /\ bar'.menu = bar.menu /\ bar'.content = bar.content
      /\ bar'.stream = bar.stream /\ bar'.tail = bar.tail /\ bar'.handoff = bar.handoff
      /\ bar'.closed
  BY <1>2, <1>3 DEF BarOK, BarType
<1>5. InnerInv'
  BY <1>1, <1>3, <1>4, SwitcherKept, InnerKept DEF IInv
<1>6. DaemonType' /\ OuterType' /\ WindowInv' /\ SizeInv'
  BY <1>1, <1>4 DEF IInv, OuterInv, DaemonType, OuterType, WindowInv, SizeInv, ContentRows,
       Reserved, Pends
<1>7. StreamInv'
  BY <1>3, <1>4, StreamKept DEF IInv, OuterInv, BarOK
<1>8. ~Running'
  BY <1>1 DEF Running, Attached, Outcome
<1>9. ~Cut(writing)' => Bare(screen)'
  BY <1>3, Boundary DEF IInv, OuterInv, Cut
<1>10. BarInv'
  <2>1. RestoredAtExit'
    BY <1>9 DEF RestoredAtExit, Bare
  <2>2. KeptInv(bar, screen)'
    BY <1>3 DEF BarOK
  <2> QED
    BY <1>1, <1>4, <1>8, <2>1, <2>2 DEF BarInv
<1>11. ExitInv'
  BY <1>1, <1>4 DEF IInv, OuterInv, ExitInv
<1> QED
  BY <1>3, <1>5, <1>6, <1>7, <1>10, <1>11 DEF IInv, OuterInv, BarOK

\* The copy ends, and where AttachClient goes from there.
LEMMA EndOfCopyKeeps ==
  ASSUME IInv, CopyEnds \/ Decide \/ Select
  PROVE  IInv'
<1>1. /\ Running /\ main \notin Before
      /\ UNCHANGED <<inputVars, daemonVars, window, winch>>
  BY DEF CopyEnds, Decide, Select, Before
<1>2. CASE CopyEnds
  <2>1. /\ main' = "decide" /\ (connection = "closed" \/ session.stream = "closed")
        /\ UNCHANGED <<inputVars, daemonVars, barVars, window, winch, outcome>>
    BY <1>2 DEF CopyEnds
  <2> QED
    BY <1>1, <2>1, MovesOn
<1>3. CASE Decide \/ Select
  <2>1. ASSUME NEW kind \in {"handoff", "detached", "failed"}, NEW target, Ends(kind, target)
        PROVE  IInv'
    <3>1. outcome'.kind = kind
      BY <2>1 DEF Ends, Outcome
    <3>2. LeavesOnlyAtExit'
      BY <3>1 DEF LeavesOnlyAtExit, StaysInFalkn, SwitchesOnlyAtExit
    <3> QED
      BY <1>1, <2>1, <3>2, EndsKeeps
  <2>2. CASE Decide
    <3>1. CASE bar.handoff # NoSession
      BY <2>1, <2>2, <3>1 DEF Decide
    <3>2. CASE bar.handoff = NoSession
      <4>1. GoesOn("select") /\ main = "decide"
        BY <2>2, <3>2 DEF Decide
      <4>2. /\ main' = "select" /\ UNCHANGED <<barVars, outcome>>
            /\ connection = "closed" \/ session.stream = "closed"
        BY <3>2, <4>1 DEF GoesOn, IInv, OuterInv, ExitInv
      <4> QED
        BY <1>1, <4>2, MovesOn
    <3> QED
      BY <3>1, <3>2
  <2>3. CASE Select
    <3>1. CASE GoesOn("fallback")
      <4>1. /\ main' = "fallback" /\ UNCHANGED <<barVars, outcome>>
            /\ connection = "closed" \/ session.stream = "closed"
        BY <2>3, <3>1 DEF Select, GoesOn, IInv, OuterInv, ExitInv
      <4> QED
        BY <1>1, <4>1, MovesOn
    <3>2. CASE Ends("detached", NoSession) \/ Ends("failed", NoSession)
      BY <2>1, <3>2
    <3> QED
      BY <2>3, <3>1, <3>2 DEF Select
  <2> QED
    BY <1>3, <2>2, <2>3
<1> QED
  BY <1>2, <1>3

\* A session that is over has somewhere to go when others run.
LEMMA FallbackFacts ==
  ASSUME others \subseteq Sessions, FallbackTarget = NoSession
  PROVE  others = {} \/ session.status = "running"
<1> DEFINE older == {s \in others : s < Self}
<1> SUFFICES ASSUME others # {}, session.status # "running"
             PROVE  FallbackTarget # NoSession
  OBVIOUS
<1>1. /\ others \subseteq Nat \ {0} /\ IsFiniteSet(others) /\ IsFiniteSet(older)
      /\ older \subseteq others
  <2>1. others \subseteq Nat \ {0} /\ IsFiniteSet(others) /\ older \subseteq others
    BY SelfIsASession, FS_Subset DEF SelfAssumption
  <2> QED
    BY <2>1, FS_Subset
<1> DEFINE last(S) == CHOOSE s \in S : \A t \in S : t <= s
           first(S) == CHOOSE s \in S : \A t \in S : s <= t
<1>2. FallbackTarget \in {last(others), last(older), first(others)}
      /\ (FallbackTarget = last(older) \/ FallbackTarget \in {last(others), first(others)})
      /\ (older = {} => FallbackTarget \in {last(others), first(others)})
  BY DEF FallbackTarget
<1>3. last(others) \in others /\ first(others) \in others
  <2>1. others \subseteq Nat
    BY <1>1
  <2>2. /\ \E m \in others : \A t \in others : t <= m
        /\ \E m \in others : \A t \in others : m <= t
    BY <1>1, <2>1, Extremes
  <2> QED
    BY <2>2
<1>4. older # {} => last(older) \in older
  <2>1. older \subseteq Nat
    BY <1>1
  <2> HIDE DEF older
  <2>2. older # {} => \E m \in older : \A t \in older : t <= m
    BY <1>1, <2>1, Extremes
  <2> QED
    BY <2>2
<1> HIDE DEF older, last, first
<1>5. FallbackTarget \in others
  BY <1>1, <1>2, <1>3, <1>4
<1> QED
  BY <1>1, <1>5 DEF NoSession

\* The client leaves when there is nowhere to go, and only then.
LEMMA FallbackKeeps ==
  ASSUME IInv, Fallback
  PROVE  IInv'
<1>1. /\ Running /\ main = "fallback" /\ main \notin Before
      /\ UNCHANGED <<inputVars, daemonVars, window, winch>>
  BY DEF Fallback, Before
<1>2. /\ session' = session /\ others' = others /\ connection' = connection
      /\ others \subseteq Sessions
      /\ connection = "closed" \/ session.dropped \/ session.status # "running"
  BY <1>1 DEF daemonVars, inputVars, IInv, OuterInv, DaemonType, ExitInv
<1>3. CASE Ends("unlisted", NoSession)
  <2>1. outcome'.kind = "unlisted"
    BY <1>3 DEF Ends, Outcome
  <2>2. LeavesOnlyAtExit'
    BY <2>1 DEF LeavesOnlyAtExit, StaysInFalkn, SwitchesOnlyAtExit
  <2> QED
    BY <1>1, <1>3, <2>2, EndsKeeps
<1>4. CASE FallbackTarget = NoSession /\ Ends("left", NoSession)
  <2>1. outcome'.kind = "left"
    BY <1>4 DEF Ends, Outcome
  <2>2. others = {} \/ session.status = "running"
    BY <1>2, <1>4, FallbackFacts
  <2>3. LeavesOnlyAtExit'
    BY <1>2, <2>1, <2>2 DEF LeavesOnlyAtExit, StaysInFalkn, SwitchesOnlyAtExit
  <2> QED
    BY <1>1, <1>4, <2>3, EndsKeeps
<1>5. CASE FallbackTarget # NoSession /\ Ends("fallback", FallbackTarget)
  <2> DEFINE target == FallbackTarget
  <2>1. outcome'.kind = "fallback" /\ Ends("fallback", target)
    BY <1>5 DEF Ends, Outcome
  <2>2. session.status # "running"
    BY <1>5 DEF FallbackTarget
  <2>3. LeavesOnlyAtExit'
    BY <1>2, <2>1, <2>2 DEF LeavesOnlyAtExit, StaysInFalkn, SwitchesOnlyAtExit
  <2> HIDE DEF target
  <2> QED
    BY <1>1, <2>1, <2>3, EndsKeeps
<1> QED
  BY <1>3, <1>4, <1>5 DEF Fallback

-----------------------------------------------------------------------------
(* The theorems. *)

\* The invariant holds at first.
LEMMA InitKeeps == Init => IInv
<1> SUFFICES ASSUME Init PROVE IInv
  OBVIOUS
<1> DEFINE nothing == 0
<1>1. /\ typed = <<>> /\ menu = ClosedMenu /\ connection = "open" /\ detach = "no"
      /\ main = "attach" /\ outcome = Attached /\ others = OthersFirst
      /\ reader = NewReader(FALSE) /\ bar = NewBar(FirstSize, NoList) /\ screen = BareScreen
      /\ writing = [item |-> <<"t">>, sent |-> 1]
      /\ window = [rows |-> FirstSize, signal |-> FALSE, missed |-> FALSE]
      /\ winch = [pc |-> "off", rows |-> nothing, size |-> NoSize]
      /\ session = [status |-> "running", muted |-> FALSE, pty |-> 0, stream |-> "open",
                    reading |-> FALSE, overtaken |-> FALSE, dropped |-> FALSE]
  BY DEF Init, BarInit
<1>2. FirstSize \in Heights /\ NoSize \in SizeType /\ nothing \in Heights \cup {0}
      /\ others \subseteq Sessions /\ LinesFor(Sessions) \in Nat /\ <<>> \in Seq(Bytes)
  BY <1>1, HeightFacts, InputsAreTyped DEF Heights, NoSize, SizeType, InputAssumption
<1> HIDE DEF nothing
<1>3. /\ reader \in ReaderType(reader) /\ CallsFit(reader) /\ reader.mode = "idle"
      /\ reader.out = <<>> /\ reader.data = <<>> /\ reader.calls = <<>>
      /\ reader.reported = FALSE /\ reader = NewReader(reader.muted)
  <2>1. ~reader.reported /\ FALSE \in BOOLEAN
    BY <1>1, NewReaderTyped
  <2> QED
    BY <1>1, <2>1, NewReaderTyped DEF ReaderType
<1>4. /\ bar.rows = FirstSize /\ bar.menu = NoLines /\ bar.content = NoList /\ bar.dirty
      /\ bar.claimed = 0 /\ bar.pending /\ bar.clear = {} /\ bar.stream = Ground
      /\ bar.handoff = NoSession /\ bar.closed = FALSE
  BY <1>1 DEF NewBar
<1>5. bar \in BarType(bar)
  <2>1. NoLines \in LinesType /\ NoList \in ContentType
    BY <1>2 DEF NoLines, LinesType, NoList, ContentType
  <2> QED
    BY <1>1, <1>2, <2>1 DEF NewBar, BarType
<1>6. /\ screen.bottom = Whole /\ screen.footer = NoFooter /\ screen.inked = {}
      /\ screen.freed = 0 /\ ~screen.torn /\ ~screen.hid
  BY <1>1 DEF BareScreen
<1>7. screen \in ScreenType(screen)
  BY <1>1, WholeTyped DEF BareScreen, ScreenType
<1>8. InnerInv
  <2>1. InputType
    <3>1. menu \in MenuType
      BY <1>1 DEF ClosedMenu, MenuType
    <3>2. typed \in Seq(Bytes)
      BY <1>1, <1>2
    <3> QED
      BY <1>1, <1>3, <3>1, <3>2 DEF InputType
  <2>2. InputInv
    BY <1>1, <1>3 DEF InputInv, MenuOwnsKeyboard, ClosedMenu
  <2>3. ReportInv
    <3>1. bar.content.armed = FALSE
      BY <1>4 DEF NoList
    <3> QED
      BY <1>3, <3>1 DEF ReportInv
  <2>4. SwitcherInv
    BY <1>1, <1>4 DEF SwitcherInv, SwitcherShown, Lines, ClosedMenu
  <2> QED
    BY <1>3, <2>1, <2>2, <2>3, <2>4 DEF InnerInv, CallsInv
<1>9. DaemonType /\ SizeInv
  BY <1>1, <1>2 DEF DaemonType, SessionType, SizeInv
<1>10. OuterType /\ WindowInv
  <2>1. winch \in WinchType /\ winch.pc = "off"
    BY <1>1, <1>2 DEF WinchType
  <2>2. window \in WindowType /\ window.rows = FirstSize
    BY <1>1, <1>2 DEF WindowType
  <2> QED
    BY <1>1, <1>4, <2>1, <2>2 DEF OuterType, WindowInv, Before
<1>11. StreamInv
  <2> DEFINE item == <<"t">>
  <2>1. item \in Items \cup {<<"t">>} /\ Len(item) = 1 /\ 1 \in 1..Len(item)
    OBVIOUS
  <2>2. item \notin ResetSequences
    BY DEF ResetSequences
  <2> HIDE DEF item
  <2>3. Consume(Ground, SubSeq(item, 1, 1)) = Ground
    BY <2>1, ItemFacts
  <2>4. writing.item = item /\ writing.sent = 1
        /\ writing = [item |-> writing.item, sent |-> writing.sent]
    BY <1>1 DEF item
  <2> QED
    BY <1>4, <1>6, <2>1, <2>2, <2>3, <2>4 DEF StreamInv, SentPart, item
<1>12. BarInv
  <2>1. KeptInv(bar, screen)
    BY <1>4, <1>6 DEF KeptInv, NoFooter
  <2>2. FooterInv(bar, screen)
    BY <1>4 DEF FooterInv
  <2> QED
    BY <1>1, <1>4, <1>6, <2>1, <2>2 DEF BarInv, Bare, RestoredAtExit
<1>13. ExitInv
  BY <1>1 DEF ExitInv, LeavesOnlyAtExit, StaysInFalkn, SwitchesOnlyAtExit, Attached, Outcome
<1> QED
  BY <1>5, <1>7, <1>8, <1>9, <1>10, <1>11, <1>12, <1>13 DEF IInv, OuterInv

\* Every step keeps the invariant.
LEMMA NextKeeps == IInv /\ [Next]_vars => IInv'
<1> SUFFICES ASSUME IInv, [Next]_vars PROVE IInv'
  OBVIOUS
<1>1. CASE Input
  BY <1>1, InputKeeps
<1>2. CASE MainStep
  BY <1>2, AttachKeeps, StartKeeps, CopyKeeps, EndOfCopyKeeps, FallbackKeeps DEF MainStep
<1>3. CASE Beside
  BY <1>3, TakeSignalKeeps, ResizeBarKeeps, SizesKeep, UpdateFooterKeeps DEF Beside
<1>4. CASE Outside
  BY <1>4, TypeKeyKeeps, ResizeWindowKeeps, DaemonKeeps DEF Outside
<1>5. CASE UNCHANGED vars
  <2>1. /\ typed' = typed /\ reader' = reader /\ menu' = menu /\ connection' = connection
        /\ detach' = detach /\ session' = session /\ others' = others /\ bar' = bar
        /\ screen' = screen /\ writing' = writing /\ window' = window /\ winch' = winch
        /\ main' = main /\ outcome' = outcome
    BY <1>5 DEF vars, inputVars, daemonVars, barVars, outerVars
  <2>2. InnerInv'
    BY <1>5, <2>1, SwitcherKept, InnerKept DEF IInv, vars
  <2>3. DaemonType' /\ OuterType' /\ WindowInv' /\ SizeInv' /\ StreamInv' /\ ExitInv'
    BY <2>1 DEF IInv, OuterInv, DaemonType, OuterType, WindowInv, SizeInv, StreamInv, SentPart,
         ExitInv, LeavesOnlyAtExit, StaysInFalkn, SwitchesOnlyAtExit, ContentRows, Reserved, Pends
  <2>4. BarInv'
    BY <2>1 DEF IInv, OuterInv, BarInv, KeptInv, FooterInv, Own, ContentRows, Reserved, Footer,
         Follows, Bare, RestoredAtExit, Running
  <2> QED
    BY <2>1, <2>2, <2>3, <2>4 DEF IInv, OuterInv
<1> QED
  BY <1>1, <1>2, <1>3, <1>4, <1>5 DEF Next, Returned

\* The inductive invariant holds in every state.
THEOREM Inductive == Spec => []IInv
<1>1. Init => IInv
  BY InitKeeps
<1>2. IInv /\ [Next]_vars => IInv'
  BY NextKeeps
<1> QED
  BY <1>1, <1>2, PTL DEF Spec

\* Falkn never writes inside a character or sequence of the session.
THEOREM StreamStaysIntact == Spec => []StreamIntact
<1>1. IInv => StreamIntact
  BY DEF IInv, OuterInv, StreamInv, StreamIntact
<1> QED
  BY <1>1, Inductive, PTL

\* What the invariant says of the footer at a boundary is all of it.
LEMMA FooterIsCurrent == IInv => FooterCurrent
<1> SUFFICES ASSUME IInv, ~bar.closed, bar.handoff = NoSession, main \notin {"attach", "draw"},
                    ~Cut(writing), ~window.missed, ~window.signal, winch.pc # "resize"
             PROVE  IF Visible(bar.rows)
                    THEN /\ screen.footer = Footer(bar) /\ screen.menu = bar.menu
                         /\ screen.bottom = ContentRows(bar)
                         /\ screen.inked = (ContentRows(bar) + 1)..bar.rows
                    ELSE screen.bottom = Whole /\ screen.inked = {}
  BY DEF FooterCurrent
<1>1. KeptInv(bar, screen) /\ FooterInv(bar, screen)
  BY DEF IInv, OuterInv, BarInv, Follows
<1>2. ~bar.pending
  BY Boundary DEF IInv, OuterInv, BarInv
<1>3. bar.clear = {}
  BY <1>1, <1>2 DEF KeptInv
<1>4. CASE Visible(bar.rows)
  <2>1. ~bar.dirty /\ screen.inked \subseteq Own(bar)
    BY <1>1, <1>2, <1>3, <1>4 DEF KeptInv
  <2>2. /\ screen.bottom = ContentRows(bar) /\ screen.footer = Footer(bar)
        /\ screen.menu = bar.menu /\ Own(bar) \subseteq screen.inked
    BY <1>1, <1>2, <1>4, <2>1 DEF FooterInv
  <2> QED
    BY <1>4, <2>1, <2>2 DEF Own
<1>5. CASE ~Visible(bar.rows)
  BY <1>1, <1>3, <1>5 DEF KeptInv
<1> QED
  BY <1>4, <1>5

\* Between two sequences of the session the footer, the switcher, the scroll
\* region and the rows with something of Falkn in them are those of the bar.
THEOREM FooterStaysCurrent == Spec => []FooterCurrent
BY FooterIsCurrent, Inductive, PTL

\* No row of the session's is drawn on that was not taken from it first.
THEOREM NothingIsCovered == Spec => []NothingCovered
<1>1. IInv => NothingCovered
  BY DEF IInv, OuterInv, BarInv, KeptInv, NothingCovered
<1> QED
  BY <1>1, Inductive, PTL

\* The bar agrees with the window and the session with the bar once everything
\* is handled, whichever goroutine sent its size last.
THEOREM GeometryComesToAgree == Spec => []GeometryAgrees
<1>1. IInv => GeometryAgrees
  BY DEF IInv, OuterInv, WindowInv, SizeInv, Pends, GeometryAgrees, Settled, Waiting
<1> QED
  BY <1>1, Inductive, PTL

\* While the input waits, the bar shows the switcher and the prefix as they are.
THEOREM InputIsShown == Spec => []InputShown
<1>1. IInv => InputShown
  BY DEF IInv, InnerInv, ReportInv, SwitcherInv, InputShown, Waiting, PrefixShown
<1> QED
  BY <1>1, Inductive, PTL

\* Nothing is held and nothing is on its way to the session while the switcher
\* is open.
THEOREM MenuHasKeyboard == Spec => []MenuOwnsKeyboard
<1>1. IInv => MenuOwnsKeyboard
  BY DEF IInv, InnerInv, InputInv
<1> QED
  BY <1>1, Inductive, PTL

\* A session that ends while others run never drops its user to the host
\* shell, and one that runs is never left for another by itself.
THEOREM ExitsAreDecided == Spec => []LeavesOnlyAtExit
<1>1. IInv => LeavesOnlyAtExit
  BY DEF IInv, OuterInv, ExitInv
<1> QED
  BY <1>1, Inductive, PTL

\* The whole screen is given back, unless the session stopped in a sequence.
THEOREM ScreenIsRestored == Spec => []RestoredAtExit
<1>1. IInv => RestoredAtExit
  BY DEF IInv, OuterInv, BarInv
<1> QED
  BY <1>1, Inductive, PTL

\* A byte that is handled is sent, held or completes a key: no other step than
\* those that take one is made while one is ready.
LEMMA BytesAreKept ==
  ASSUME IInv, [Next]_vars, Plain \/ (Ready /\ ~OpenMenu /\ AtFocusReport), reader' # reader
  PROVE  KeepsKeys
<1>1. InputType /\ InputInv
  BY DEF IInv, InnerInv
<1>2. Ready /\ ~OpenMenu /\ reader.calls = <<>> /\ reader.data # <<>> /\ Byte # End
  BY DEF Plain, Ready, AtFocusReport, End
<1>3. Input
  BY <1>2 DEF Next, Returned, vars, inputVars
<1>4. ~ReadInput /\ ~GracePasses
  BY <1>2 DEF ReadInput, GracePasses, Waiting
<1>5. ~CallStep
  BY <1>2 DEF CallStep, Calls, FlushOut, Report, FocusFrame, ToggleMute, ShowMute, Toggle,
       PaintLines, ReadSize, SendSize, Switch, CreateSession, Handoff, SendDetach,
       RequestDetach, CloseConnection, StopReading
<1>6. ~EndOfRead /\ ~MenuByte /\ ~MenuEscape /\ ~MenuSequence
  BY <1>2 DEF EndOfRead, MenuByte, MenuEscape, MenuSequence
<1>7. IdleByte \/ ArmedByte \/ EscapeByte \/ SequenceByte \/ FocusReport
  BY <1>3, <1>4, <1>5, <1>6 DEF Input, InputStep, ConsumeStep
<1> QED
  BY <1>1, <1>7, IdleTakes, ArmedTakes, EscapeTakes, SequenceTakes, FocusTakes

\* Whatever is typed, wherever its reads were cut: every byte goes to the
\* session in its place, or is held back, or completes a key of Falkn.
THEOREM KeysStayIntact == Spec => KeysIntact
<1>1. IInv /\ [Next]_vars
      => [Plain \/ (Ready /\ ~OpenMenu /\ AtFocusReport) => KeepsKeys]_reader
  BY BytesAreKept
<1> QED
  BY <1>1, Inductive, PTL DEF Spec, KeysIntact

-----------------------------------------------------------------------------
(* The output of a session. *)

\* The assumption on the items only says that the terminal ends characters and
\* sequences where the parser of the status bar does: as that parser reads it,
\* whatever a session writes that stops between two of them is an item and more
\* of the same.
THEOREM OutputIsItems ==
  ASSUME NEW bytes \in Seq(Bytes), bytes # <<>>, SafeBoundary(Consume(Ground, bytes))
  PROVE  \E n \in 1..Len(bytes) :
           LET item == SubSeq(bytes, 1, n)
               rest == SubSeq(bytes, n + 1, Len(bytes))
           IN /\ IsItem(item) /\ rest \in Seq(Bytes) /\ bytes = item \o rest
              /\ SafeBoundary(Consume(Ground, rest))
<1> DEFINE safe == {n \in 1..Len(bytes) : Consume(Ground, SubSeq(bytes, 1, n)) = Ground}
<1>1. Len(bytes) \in Nat \ {0} /\ SubSeq(bytes, 1, Len(bytes)) = bytes
      /\ Len(bytes) \in 1..Len(bytes)
  BY SubSeqFull
<1>2. PICK n \in safe : \A m \in safe : n <= m
  <2>1. IsFiniteSet(1..Len(bytes)) /\ safe \subseteq 1..Len(bytes)
    BY <1>1, FS_Interval
  <2>2. IsFiniteSet(safe) /\ safe \subseteq Nat
    BY <2>1, FS_Subset
  <2>3. Len(bytes) \in safe
    <3>1. Consume(Ground, SubSeq(bytes, 1, Len(bytes))) = Ground
      BY <1>1 DEF SafeBoundary
    <3> QED
      BY <1>1, <3>1
  <2> HIDE DEF safe
  <2> QED
    BY <2>2, <2>3, Extremes
<1> DEFINE item == SubSeq(bytes, 1, n)
           rest == SubSeq(bytes, n + 1, Len(bytes))
<1>3. n \in 1..Len(bytes) /\ Consume(Ground, item) = Ground
  BY <1>2
<1>4. \A m \in 1..Len(bytes) : Consume(Ground, SubSeq(bytes, 1, m)) = Ground => n <= m
  BY <1>2
<1> HIDE DEF safe
<1>5. item \in Seq(Bytes) /\ Len(item) = n /\ rest \in Seq(Bytes)
  BY <1>1, <1>3
<1>6. bytes = item \o rest
  <2>1. \A k \in n..Len(bytes) :
          SubSeq(bytes, 1, n) \o SubSeq(bytes, n + 1, k) = SubSeq(bytes, 1, k)
    BY <1>1, <1>3, ConcatAdjacentSubSeq
  <2>2. Len(bytes) \in n..Len(bytes)
    BY <1>1, <1>3
  <2> QED
    BY <1>1, <2>1, <2>2
<1>7. IsItem(item)
  <2>1. item # <<>>
    BY <1>3, <1>5
  <2>2. \A m \in 1..n : m \in 1..Len(bytes) /\ SubSeq(item, 1, m) = SubSeq(bytes, 1, m)
    BY <1>1, <1>3
  <2>3. SubSeq(item, 1, n) = item
    BY <1>3, <1>5, SubSeqFull
  <2> HIDE DEF item
  <2>4. ASSUME NEW m \in 1..n
        PROVE  Consume(Ground, SubSeq(item, 1, m)) = Ground <=> m = n
    <3>1. Consume(Ground, SubSeq(item, 1, m)) = Ground => n <= m
      BY <1>4, <2>2
    <3>2. n <= m <=> m = n
      BY <1>1, <1>3
    <3>3. m = n => Consume(Ground, SubSeq(item, 1, m)) = Ground
      BY <1>3, <2>3
    <3> QED
      BY <3>1, <3>2, <3>3
  <2> QED
    BY <1>5, <2>1, <2>4 DEF IsItem
<1>8. Consume(Ground, rest) = Ground
  <2> HIDE DEF item, rest
  <2>1. Consume(Consume(Ground, item), rest) = Consume(Ground, bytes)
    BY <1>5, <1>6, ConsumeConcat
  <2> QED
    BY <1>3, <2>1 DEF SafeBoundary
<1> QED
  BY <1>3, <1>5, <1>6, <1>7, <1>8 DEF SafeBoundary
===============================================================================
