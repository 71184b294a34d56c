-------------------------- MODULE SessionOutputProofs --------------------------
(***************************************************************************)
(* Theorems about one session's output and the counts and texts kept of it *)
(* (SessionOutput), for every set of clients, window and length of output. *)
(*                                                                         *)
(* That a new client misses nothing rests on the ring: it is unbroken up   *)
(* to the chunk published last, whatever was evicted and however many      *)
(* notices it holds.  A client's history and stream continue it chunk by   *)
(* chunk.                                                                  *)
(***************************************************************************)
EXTENDS SessionOutput, SequenceTheorems, FiniteSetTheorems, TLAPS

Entries == Seq(Nat)

Typed ==
  /\ published \in Nat /\ rendered \in Nat /\ seenAtDeath \in Nat
  /\ storedText \in Nat /\ stopText \in Nat /\ waiterText \in Nat
  /\ transcript \in Entries
  /\ queue \in [Clients -> Entries] /\ shown \in [Clients -> Entries]
  /\ clientAt \in [Clients -> {"absent", "resize", "register", "attached", "detaching", "gone"}]
  /\ subscribers \subseteq Clients
  /\ status \in {"running", "stopped", "ended"} /\ muted \in BOOLEAN
  /\ saved \in [status : {"running", "stopped", "ended"}, muted : BOOLEAN, text : Nat]

\* The ring is the newest of the output, and full once it has lost a chunk.
RingUnbroken == Len(transcript) <= Window /\ Unbroken(transcript, published)

\* Only attached clients are registered, and nothing is sent before.
RegisteredAttached ==
  /\ \A c \in subscribers : clientAt[c] \in {"attached", "detaching"}
  /\ \A c \in Clients : clientAt[c] \in {"absent", "resize", "register"} => queue[c] = <<>>

\* The text kept of a session is rendered after its process died.
DeathIsShown ==
  hasTerminal =>
    /\ child \in {"alive", "dead"}
    /\ child = "alive" => waiter = "waiting"
    /\ seenAtDeath <= rendered
    /\ waiter = "set" => waiterText >= seenAtDeath
    /\ status = "ended" => child = "dead" /\ waiter \in {"release", "done"}

\* The inductive invariant.
IInv ==
  /\ Typed /\ RingUnbroken /\ RegisteredAttached /\ DeathIsShown
  /\ SuppressionExact /\ NothingMissed /\ EndedTranscript

-------------------------------------------------------------------------------
LEMMA WindowIsPositive == Window \in Nat /\ Window > 0
  BY WindowAssumption

\* The next chunk continues what is unbroken.
LEMMA ChunkContinues ==
  ASSUME NEW e \in Entries, NEW last \in Nat, Unbroken(e, last)
  PROVE  Unbroken(Append(e, last + 1), last + 1)
<1> DEFINE f == Append(e, last + 1)
<1>1. /\ Len(e) \in Nat /\ Len(f) = Len(e) + 1
      /\ f \in Entries
      /\ f[Len(e) + 1] = last + 1
      /\ \A i \in 1 .. Len(e) : f[i] = e[i] /\ e[i] \in Nat
      /\ DOMAIN e = 1 .. Len(e) /\ DOMAIN f = 1 .. Len(f)
  BY AppendProperties, LenProperties DEF Entries
<1> HIDE DEF f
<1>2. PICK gone \in 0 .. last :
        /\ {e[i] : i \in DOMAIN e} \ {Notice} = gone + 1 .. last
        /\ gone > 0 => Len(e) >= Window
  BY DEF Unbroken
<1>3. ASSUME NEW i \in 1 .. Len(e) PROVE e[i] <= last
  <2>1. e[i] = Notice \/ e[i] \in gone + 1 .. last
    BY <1>1, <1>2
  <2> QED
    BY <2>1 DEF Notice
<1>4. ASSUME NEW i \in DOMAIN f, NEW j \in DOMAIN f, i < j, f[j] # Notice
      PROVE  f[i] < f[j]
  <2>1. CASE j = Len(e) + 1
    BY <2>1, <1>1, <1>3, <1>4
  <2>2. CASE j \in 1 .. Len(e)
    BY <2>2, <1>1, <1>4 DEF Unbroken
  <2> QED
    BY <2>1, <2>2, <1>1
<1>5. {f[i] : i \in DOMAIN f} = {e[i] : i \in DOMAIN e} \cup {last + 1}
  BY <1>1
<1>6. {f[i] : i \in DOMAIN f} \ {Notice} = gone + 1 .. last + 1
  <2>1. last + 1 # Notice
    BY DEF Notice
  <2>2. {f[i] : i \in DOMAIN f} \ {Notice} = (gone + 1 .. last) \cup {last + 1}
    BY <1>2, <1>5, <2>1
  <2>3. (gone + 1 .. last) \cup {last + 1} = gone + 1 .. last + 1
    OBVIOUS
  <2> QED
    BY <2>2, <2>3
<1>7. gone \in 0 .. last + 1 /\ (gone > 0 => Len(f) >= Window)
  BY <1>1, <1>2, WindowIsPositive
<1> QED
  BY <1>4, <1>6, <1>7 DEF Unbroken, f

\* A notice breaks nothing.
LEMMA NoticeContinues ==
  ASSUME NEW e \in Entries, NEW last \in Nat, Unbroken(e, last)
  PROVE  Unbroken(Append(e, Notice), last)
<1> DEFINE f == Append(e, Notice)
<1>1. /\ Len(e) \in Nat /\ Len(f) = Len(e) + 1
      /\ f[Len(e) + 1] = Notice
      /\ \A i \in 1 .. Len(e) : f[i] = e[i]
      /\ DOMAIN e = 1 .. Len(e) /\ DOMAIN f = 1 .. Len(f)
  BY AppendProperties, LenProperties DEF Entries, Notice
<1> HIDE DEF f
<1>2. PICK gone \in 0 .. last :
        /\ {e[i] : i \in DOMAIN e} \ {Notice} = gone + 1 .. last
        /\ gone > 0 => Len(e) >= Window
  BY DEF Unbroken
<1>3. ASSUME NEW i \in DOMAIN f, NEW j \in DOMAIN f, i < j, f[j] # Notice
      PROVE  f[i] < f[j]
  <2>1. j \in 1 .. Len(e) /\ i \in 1 .. Len(e)
    BY <1>1, <1>3
  <2> QED
    BY <2>1, <1>1, <1>3 DEF Unbroken
<1>4. {f[i] : i \in DOMAIN f} = {e[i] : i \in DOMAIN e} \cup {Notice}
  BY <1>1
<1>5. {f[i] : i \in DOMAIN f} \ {Notice} = gone + 1 .. last
  BY <1>4, <1>2
<1>6. gone > 0 => Len(f) >= Window
  BY <1>1, <1>2, WindowIsPositive
<1> QED
  BY <1>3, <1>5, <1>6 DEF Unbroken, f

\* Nor does the eviction of the oldest entry, once the ring is full.
LEMMA EvictionKeeps ==
  ASSUME NEW e \in Entries, NEW last \in Nat, Unbroken(e, last), Len(e) = Window + 1
  PROVE  /\ Newest(e) \in Entries /\ Len(Newest(e)) = Window
         /\ Unbroken(Newest(e), last)
<1> DEFINE f == Newest(e)
<1>1. /\ Len(e) \in Nat
      /\ \A i \in 1 .. Len(e) : e[i] \in Nat
      /\ DOMAIN e = 1 .. Len(e)
  BY LenProperties, ElementOfSeq DEF Entries
<1>2. f = SubSeq(e, 2, Len(e))
  BY <1>1, WindowIsPositive DEF Newest
<1>3. /\ f \in Entries /\ Len(f) = Window /\ DOMAIN f = 1 .. Window
      /\ \A i \in 1 .. Window : f[i] = e[i + 1]
  <2>1. /\ SubSeq(e, 2, Len(e)) \in Entries
        /\ Len(SubSeq(e, 2, Len(e))) = Len(e) - 1
        /\ \A i \in 1 .. (Len(e) - 1) : SubSeq(e, 2, Len(e))[i] = e[2 + i - 1]
    BY <1>1, SubSeqProperties, WindowIsPositive DEF Entries
  <2> QED
    BY <2>1, <1>1, <1>2, WindowIsPositive, LenProperties DEF Entries
<1> HIDE DEF f
<1>4. PICK gone \in 0 .. last :
        /\ {e[i] : i \in DOMAIN e} \ {Notice} = gone + 1 .. last
        /\ gone > 0 => Len(e) >= Window
  BY DEF Unbroken
<1>s. ASSUME NEW i \in DOMAIN f
      PROVE  i + 1 \in DOMAIN e /\ 1 < i + 1 /\ f[i] = e[i + 1]
  BY <1>1, <1>3, WindowIsPositive
<1>m. \A i, j \in DOMAIN e : i < j /\ e[j] # Notice => e[i] < e[j]
  BY DEF Unbroken
<1>5. ASSUME NEW i \in DOMAIN f, NEW j \in DOMAIN f, i < j, f[j] # Notice
      PROVE  f[i] < f[j]
  <2>1. i + 1 \in DOMAIN e /\ j + 1 \in DOMAIN e /\ i + 1 < j + 1
    BY <1>s, <1>3, <1>5
  <2> QED
    BY <1>s, <1>m, <1>5, <2>1
<1>6. {e[i] : i \in DOMAIN e} = {f[i] : i \in DOMAIN f} \cup {e[1]}
  <2>1. \A i \in DOMAIN e : i = 1 \/ (i - 1 \in DOMAIN f /\ f[i - 1] = e[i])
    BY <1>1, <1>3, WindowIsPositive
  <2>2. \A i \in DOMAIN f : i + 1 \in DOMAIN e
    BY <1>1, <1>3, WindowIsPositive
  <2>3. 1 \in DOMAIN e
    BY <1>1, WindowIsPositive
  <2> QED
    BY <2>1, <2>2, <2>3, <1>3
<1>7. ASSUME e[1] = Notice PROVE Unbroken(f, last)
  <2>1. {f[i] : i \in DOMAIN f} \ {Notice} = gone + 1 .. last
    BY <1>4, <1>6, <1>7
  <2>2. gone > 0 => Len(f) >= Window
    BY <1>3, WindowIsPositive
  <2> QED
    BY <1>5, <2>1, <2>2 DEF Unbroken
<1>8. ASSUME e[1] # Notice PROVE Unbroken(f, last)
  <2>1. e[1] \in gone + 1 .. last
    BY <1>1, <1>4, <1>8, WindowIsPositive
  <2>0. 1 \in DOMAIN e
    BY <1>1, WindowIsPositive
  <2>2. \A i \in DOMAIN f : f[i] # Notice => e[1] < f[i]
    BY <1>s, <1>m, <2>0
  <2>3. e[1] = gone + 1
    <3>1. gone + 1 \in {e[i] : i \in DOMAIN e} \ {Notice}
      BY <1>4, <2>1
    <3>2. gone + 1 = e[1] \/ \E i \in DOMAIN f : f[i] = gone + 1 /\ f[i] # Notice
      BY <3>1, <1>6
    <3> QED
      BY <3>2, <2>1, <2>2
  <2>4. {f[i] : i \in DOMAIN f} \ {Notice} = (gone + 1) + 1 .. last
    <3>1. e[1] \notin {f[i] : i \in DOMAIN f}
      BY <2>2, <1>8, <1>1, WindowIsPositive
    <3>2. {f[i] : i \in DOMAIN f} \ {Notice} = (gone + 1 .. last) \ {gone + 1}
      BY <3>1, <1>4, <1>6, <2>3
    <3>3. (gone + 1 .. last) \ {gone + 1} = (gone + 1) + 1 .. last
      OBVIOUS
    <3> QED
      BY <3>2, <3>3
  <2>5. gone + 1 \in 0 .. last /\ (gone + 1 > 0 => Len(f) >= Window)
    BY <1>3, <2>1, <2>3, WindowIsPositive
  <2> QED
    BY <1>5, <2>4, <2>5 DEF Unbroken
<1> QED
  BY <1>3, <1>7, <1>8 DEF f

\* What byteRing.Write leaves of a ring and one more entry.
LEMMA RingKeeps ==
  ASSUME NEW e \in Entries, Len(e) <= Window, NEW last \in Nat, NEW more \in Nat,
         transcript = e, Unbroken(Append(e, more), last)
  PROVE  /\ Written(more) \in Entries
         /\ Len(Written(more)) <= Window
         /\ Unbroken(Written(more), last)
<1> DEFINE f == Append(e, more)
<1>1. f \in Entries /\ Len(f) = Len(e) + 1 /\ Len(e) \in Nat
  BY AppendProperties, LenProperties DEF Entries
<1>2. Written(more) = IF Len(f) > Window THEN Newest(f) ELSE f
  BY DEF Written
<1> HIDE DEF f
<1>3. CASE Len(f) > Window
  <2>1. Len(f) = Window + 1
    BY <1>1, <1>3, WindowIsPositive
  <2>2. Unbroken(f, last)
    BY DEF f
  <2>3. Written(more) = Newest(f)
    BY <1>2, <1>3
  <2> QED
    BY <1>1, <2>1, <2>2, <2>3, EvictionKeeps, WindowIsPositive
<1>4. CASE ~(Len(f) > Window)
  BY <1>1, <1>2, <1>4, WindowIsPositive DEF f
<1> QED
  BY <1>3, <1>4
-------------------------------------------------------------------------------
LEMMA NoText ==
  /\ <<>> \in Entries /\ Len(<<>>) = 0 /\ <<>> \o <<>> = <<>>
  /\ Unbroken(<<>>, 0)
<1>1. <<>> \in Entries /\ Len(<<>>) = 0 /\ <<>> \o <<>> = <<>> /\ DOMAIN <<>> = {}
  BY EmptySeq, ConcatEmptySeq, LenProperties DEF Entries
<1>2. {<<>>[i] : i \in DOMAIN <<>>} \ {Notice} = 0 + 1 .. 0
  BY <1>1
<1>3. 0 \in 0 .. 0 /\ ~(0 > 0)
  OBVIOUS
<1> QED
  BY <1>1, <1>2, <1>3 DEF Unbroken

\* A client may have received one chunk more and have one less on its way.
LEMMA DeliveryKeeps ==
  ASSUME NEW seen \in Entries, NEW coming \in Entries, coming # <<>>
  PROVE  /\ Append(seen, Head(coming)) \in Entries /\ Tail(coming) \in Entries
         /\ Append(seen, Head(coming)) \o Tail(coming) = seen \o coming
<1>1. Head(coming) \in Nat /\ Tail(coming) \in Entries /\ Append(seen, Head(coming)) \in Entries
  BY HeadTailProperties, AppendProperties DEF Entries
<1>2. Append(seen, Head(coming)) = seen \o <<Head(coming)>>
  BY <1>1, AppendIsConcat DEF Entries
<1>3. <<Head(coming)>> \in Entries
  BY <1>1 DEF Entries
<1>4. <<Head(coming)>> \o Tail(coming) = coming
  BY HeadTailProperties, <1>1, <1>3, SeqEqual, ConcatProperties DEF Entries
<1> QED
  BY <1>1, <1>2, <1>3, <1>4, ConcatAssociative DEF Entries

\* What is sent to a client comes after all it was sent before.
LEMMA SendingKeeps ==
  ASSUME NEW seen \in Entries, NEW coming \in Entries, NEW n \in Nat
  PROVE  /\ Append(coming, n) \in Entries
         /\ seen \o Append(coming, n) = Append(seen \o coming, n)
<1>1. Append(coming, n) \in Entries /\ seen \o coming \in Entries /\ <<n>> \in Entries
  BY AppendProperties, ConcatProperties DEF Entries
<1>2. Append(coming, n) = coming \o <<n>> /\ Append(seen \o coming, n) = (seen \o coming) \o <<n>>
  BY <1>1, AppendIsConcat DEF Entries
<1> QED
  BY <1>1, <1>2, ConcatAssociative DEF Entries

\* The session has just started.
LEMMA InitEstablishes == Init => IInv
<1> SUFFICES ASSUME Init PROVE IInv
  OBVIOUS
<1>1. Typed
  BY NoText DEF Init, Typed
<1>2. RingUnbroken /\ RegisteredAttached
  BY NoText, WindowIsPositive DEF Init, RingUnbroken, RegisteredAttached
<1>3. DeathIsShown /\ EndedTranscript
  BY DEF Init, DeathIsShown, EndedTranscript
<1>4. Cardinality({}) = 0
  BY FS_EmptySet
<1>5. SuppressionExact /\ NothingMissed
  BY <1>4 DEF Init, SuppressionExact, NothingMissed
<1> QED
  BY <1>1, <1>2, <1>3, <1>5 DEF IInv

\* The processes of the session, the emulator and the mute.
LEMMA QuietPreserve ==
  ASSUME IInv, ChildExits \/ HangUp \/ Read \/ Interpret \/ SetNotificationsMuted
  PROVE  IInv'
<1>0. Typed /\ RingUnbroken /\ RegisteredAttached /\ DeathIsShown /\
      SuppressionExact /\ NothingMissed /\ EndedTranscript
  BY DEF IInv
<1>r. RenderedTranscript \in Nat /\ (hasTerminal => RenderedTranscript = rendered)
  BY <1>0 DEF RenderedTranscript, Typed
<1>1. ASSUME ChildExits PROVE IInv'
  <2> USE <1>0, <1>r, <1>1 DEF ChildExits, Dies, terminalVars, outputVars, countVars, recordVars, clientVars, endVars
  <2>1. Typed'
    BY DEF Typed
  <2>2. RingUnbroken'
    BY DEF Typed, RingUnbroken
  <2>3. RegisteredAttached'
    BY DEF Typed, RegisteredAttached
  <2>4. DeathIsShown'
    BY DEF Typed, DeathIsShown
  <2>5. SuppressionExact'
    BY DEF Typed, SuppressionExact
  <2>6. NothingMissed'
    BY DEF Typed, NothingMissed
  <2>7. EndedTranscript'
    BY DEF Typed, DeathIsShown, EndedTranscript
  <2> QED
    BY <2>1, <2>2, <2>3, <2>4, <2>5, <2>6, <2>7 DEF IInv
<1>2. ASSUME HangUp PROVE IInv'
  <2> USE <1>0, <1>r, <1>2 DEF HangUp, terminalVars, outputVars, countVars, recordVars, clientVars, endVars
  <2>1. Typed'
    BY DEF Typed
  <2>2. RingUnbroken'
    BY DEF Typed, RingUnbroken
  <2>3. RegisteredAttached'
    BY DEF Typed, RegisteredAttached
  <2>4. DeathIsShown'
    BY DEF Typed, DeathIsShown
  <2>5. SuppressionExact'
    BY DEF Typed, SuppressionExact
  <2>6. NothingMissed'
    BY DEF Typed, NothingMissed
  <2>7. EndedTranscript'
    BY DEF Typed, DeathIsShown, EndedTranscript
  <2> QED
    BY <2>1, <2>2, <2>3, <2>4, <2>5, <2>6, <2>7 DEF IInv
<1>3. ASSUME Read PROVE IInv'
  <2> USE <1>0, <1>r, <1>3 DEF Read, terminalVars, outputVars, countVars, recordVars, clientVars, endVars
  <2>1. Typed'
    BY DEF Typed
  <2>2. RingUnbroken'
    BY DEF Typed, RingUnbroken
  <2>3. RegisteredAttached'
    BY DEF Typed, RegisteredAttached
  <2>4. DeathIsShown'
    BY DEF Typed, DeathIsShown
  <2>5. SuppressionExact'
    BY DEF Typed, SuppressionExact
  <2>6. NothingMissed'
    BY DEF Typed, NothingMissed
  <2>7. EndedTranscript'
    BY DEF Typed, DeathIsShown, EndedTranscript
  <2> QED
    BY <2>1, <2>2, <2>3, <2>4, <2>5, <2>6, <2>7 DEF IInv
<1>4. ASSUME Interpret PROVE IInv'
  <2> USE <1>0, <1>r, <1>4 DEF Interpret, terminalVars, outputVars, countVars, recordVars, clientVars, endVars
  <2>1. Typed'
    BY DEF Typed
  <2>2. RingUnbroken'
    BY DEF Typed, RingUnbroken
  <2>3. RegisteredAttached'
    BY DEF Typed, RegisteredAttached
  <2>4. DeathIsShown'
    BY DEF Typed, DeathIsShown
  <2>5. SuppressionExact'
    BY DEF Typed, SuppressionExact
  <2>6. NothingMissed'
    BY DEF Typed, NothingMissed
  <2>7. EndedTranscript'
    BY DEF Typed, DeathIsShown, EndedTranscript
  <2> QED
    BY <2>1, <2>2, <2>3, <2>4, <2>5, <2>6, <2>7 DEF IInv
<1>5. ASSUME SetNotificationsMuted PROVE IInv'
  <2> USE <1>0, <1>r, <1>5 DEF SetNotificationsMuted, Suppression, SaveAs, terminalVars, outputVars, countVars, recordVars, clientVars, endVars
  <2>1. Typed'
    BY DEF Typed
  <2>2. RingUnbroken'
    BY DEF Typed, RingUnbroken
  <2>3. RegisteredAttached'
    BY DEF Typed, RegisteredAttached
  <2>4. DeathIsShown'
    BY DEF Typed, DeathIsShown
  <2>5. SuppressionExact'
    BY DEF Typed, SuppressionExact
  <2>6. NothingMissed'
    BY DEF Typed, NothingMissed
  <2>7. EndedTranscript'
    BY DEF Typed, DeathIsShown, EndedTranscript
  <2> QED
    BY <2>1, <2>2, <2>3, <2>4, <2>5, <2>6, <2>7 DEF IInv
<1> QED
  BY <1>1, <1>2, <1>3, <1>4, <1>5

\* Stop works on the record and on the process.
LEMMA StopPreserves ==
  ASSUME IInv, Stop \/ StopStep
  PROVE  IInv'
<1>0. Typed /\ RingUnbroken /\ RegisteredAttached /\ DeathIsShown /\
      SuppressionExact /\ NothingMissed /\ EndedTranscript
  BY DEF IInv
<1>r. RenderedTranscript \in Nat /\ (hasTerminal => RenderedTranscript = rendered)
  BY <1>0 DEF RenderedTranscript, Typed
<1>1. ASSUME Stop PROVE IInv'
  <2> USE <1>0, <1>r, <1>1 DEF Stop, terminalVars, outputVars, countVars, recordVars, clientVars, endVars
  <2>1. Typed'
    BY DEF Typed
  <2>2. RingUnbroken'
    BY DEF Typed, RingUnbroken
  <2>3. RegisteredAttached'
    BY DEF Typed, RegisteredAttached
  <2>4. DeathIsShown'
    BY DEF Typed, DeathIsShown
  <2>5. SuppressionExact'
    BY DEF Typed, SuppressionExact
  <2>6. NothingMissed'
    BY DEF Typed, NothingMissed
  <2>7. EndedTranscript'
    BY DEF Typed, DeathIsShown, EndedTranscript
  <2> QED
    BY <2>1, <2>2, <2>3, <2>4, <2>5, <2>6, <2>7 DEF IInv
<1>2. ASSUME StopRenders PROVE IInv'
  <2> USE <1>0, <1>r, <1>2 DEF StopRenders, terminalVars, outputVars, countVars, recordVars, clientVars, endVars
  <2>1. Typed'
    BY DEF Typed
  <2>2. RingUnbroken'
    BY DEF Typed, RingUnbroken
  <2>3. RegisteredAttached'
    BY DEF Typed, RegisteredAttached
  <2>4. DeathIsShown'
    BY DEF Typed, DeathIsShown
  <2>5. SuppressionExact'
    BY DEF Typed, SuppressionExact
  <2>6. NothingMissed'
    BY DEF Typed, NothingMissed
  <2>7. EndedTranscript'
    BY DEF Typed, DeathIsShown, EndedTranscript
  <2> QED
    BY <2>1, <2>2, <2>3, <2>4, <2>5, <2>6, <2>7 DEF IInv
<1>3. ASSUME StopKills PROVE IInv'
  <2> USE <1>0, <1>r, <1>3 DEF StopKills, Dies, terminalVars, outputVars, countVars, recordVars, clientVars, endVars
  <2>1. Typed'
    BY DEF Typed
  <2>2. RingUnbroken'
    BY DEF Typed, RingUnbroken
  <2>3. RegisteredAttached'
    BY DEF Typed, RegisteredAttached
  <2>4. DeathIsShown'
    BY DEF Typed, DeathIsShown
  <2>5. SuppressionExact'
    BY DEF Typed, SuppressionExact
  <2>6. NothingMissed'
    BY DEF Typed, NothingMissed
  <2>7. EndedTranscript'
    BY DEF Typed, DeathIsShown, EndedTranscript
  <2> QED
    BY <2>1, <2>2, <2>3, <2>4, <2>5, <2>6, <2>7 DEF IInv
<1>4. ASSUME StopSets PROVE IInv'
  <2> USE <1>0, <1>r, <1>4 DEF StopSets, terminalVars, outputVars, countVars, recordVars, clientVars, endVars
  <2>1. Typed'
    BY DEF Typed
  <2>2. RingUnbroken'
    BY DEF Typed, RingUnbroken
  <2>3. RegisteredAttached'
    BY DEF Typed, RegisteredAttached
  <2>4. DeathIsShown'
    BY DEF Typed, DeathIsShown
  <2>5. SuppressionExact'
    BY DEF Typed, SuppressionExact
  <2>6. NothingMissed'
    BY DEF Typed, NothingMissed
  <2>7. EndedTranscript'
    BY DEF Typed, DeathIsShown, EndedTranscript
  <2> QED
    BY <2>1, <2>2, <2>3, <2>4, <2>5, <2>6, <2>7 DEF IInv
<1>5. ASSUME StopCloses PROVE IInv'
  <2> USE <1>0, <1>r, <1>5 DEF StopCloses, Save, SaveAs, terminalVars, outputVars, countVars, recordVars, clientVars, endVars
  <2>1. Typed'
    BY DEF Typed
  <2>2. RingUnbroken'
    BY DEF Typed, RingUnbroken
  <2>3. RegisteredAttached'
    BY DEF Typed, RegisteredAttached
  <2>4. DeathIsShown'
    BY DEF Typed, DeathIsShown
  <2>5. SuppressionExact'
    BY DEF Typed, SuppressionExact
  <2>6. NothingMissed'
    BY DEF Typed, NothingMissed
  <2>7. EndedTranscript'
    BY DEF Typed, DeathIsShown, EndedTranscript
  <2> QED
    BY <2>1, <2>2, <2>3, <2>4, <2>5, <2>6, <2>7 DEF IInv
<1> QED
  BY <1>1, <1>2, <1>3, <1>4, <1>5 DEF StopStep

\* Requests that are not registered yet, and clients that leave.
LEMMA RequestPreserves ==
  ASSUME IInv, NEW c \in Clients, Attach(c) \/ Resize(c) \/ StreamEnds(c) \/ ClientLeaves(c)
  PROVE  IInv'
<1>0. Typed /\ RingUnbroken /\ RegisteredAttached /\ DeathIsShown /\
      SuppressionExact /\ NothingMissed /\ EndedTranscript
  BY DEF IInv
<1>r. RenderedTranscript \in Nat /\ (hasTerminal => RenderedTranscript = rendered)
  BY <1>0 DEF RenderedTranscript, Typed
<1>1. ASSUME Attach(c) PROVE IInv'
  <2> USE <1>0, <1>r, <1>1 DEF Attach, terminalVars, outputVars, countVars, recordVars, clientVars, endVars
  <2>1. Typed'
    BY DEF Typed
  <2>2. RingUnbroken'
    BY DEF Typed, RingUnbroken
  <2>3. RegisteredAttached'
    BY DEF Typed, RegisteredAttached
  <2>4. DeathIsShown'
    BY DEF Typed, DeathIsShown
  <2>5. SuppressionExact'
    BY DEF Typed, SuppressionExact
  <2>6. NothingMissed'
    BY DEF Typed, NothingMissed
  <2>7. EndedTranscript'
    BY DEF Typed, DeathIsShown, EndedTranscript
  <2> QED
    BY <2>1, <2>2, <2>3, <2>4, <2>5, <2>6, <2>7 DEF IInv
<1>2. ASSUME Resize(c) PROVE IInv'
  <2> USE <1>0, <1>r, <1>2 DEF Resize, terminalVars, outputVars, countVars, recordVars, clientVars, endVars
  <2>1. Typed'
    BY DEF Typed
  <2>2. RingUnbroken'
    BY DEF Typed, RingUnbroken
  <2>3. RegisteredAttached'
    BY DEF Typed, RegisteredAttached
  <2>4. DeathIsShown'
    BY DEF Typed, DeathIsShown
  <2>5. SuppressionExact'
    BY DEF Typed, SuppressionExact
  <2>6. NothingMissed'
    BY DEF Typed, NothingMissed
  <2>7. EndedTranscript'
    BY DEF Typed, DeathIsShown, EndedTranscript
  <2> QED
    BY <2>1, <2>2, <2>3, <2>4, <2>5, <2>6, <2>7 DEF IInv
<1>3. ASSUME StreamEnds(c) PROVE IInv'
  <2> USE <1>0, <1>r, <1>3 DEF StreamEnds, terminalVars, outputVars, countVars, recordVars, clientVars, endVars
  <2>1. Typed'
    BY DEF Typed
  <2>2. RingUnbroken'
    BY DEF Typed, RingUnbroken
  <2>3. RegisteredAttached'
    BY DEF Typed, RegisteredAttached
  <2>4. DeathIsShown'
    BY DEF Typed, DeathIsShown
  <2>5. SuppressionExact'
    BY DEF Typed, SuppressionExact
  <2>6. NothingMissed'
    BY DEF Typed, NothingMissed
  <2>7. EndedTranscript'
    BY DEF Typed, DeathIsShown, EndedTranscript
  <2> QED
    BY <2>1, <2>2, <2>3, <2>4, <2>5, <2>6, <2>7 DEF IInv
<1>4. ASSUME ClientLeaves(c) PROVE IInv'
  <2> USE <1>0, <1>r, <1>4 DEF ClientLeaves, terminalVars, outputVars, countVars, recordVars, clientVars, endVars
  <2>1. Typed'
    BY DEF Typed
  <2>2. RingUnbroken'
    BY DEF Typed, RingUnbroken
  <2>3. RegisteredAttached'
    BY DEF Typed, RegisteredAttached
  <2>4. DeathIsShown'
    BY DEF Typed, DeathIsShown
  <2>5. SuppressionExact'
    BY DEF Typed, SuppressionExact
  <2>6. NothingMissed'
    BY DEF Typed, NothingMissed
  <2>7. EndedTranscript'
    BY DEF Typed, DeathIsShown, EndedTranscript
  <2> QED
    BY <2>1, <2>2, <2>3, <2>4, <2>5, <2>6, <2>7 DEF IInv
<1> QED
  BY <1>1, <1>2, <1>3, <1>4

\* The reader gives a chunk to the ring and to the subscribers, or ends.
LEMMA ReaderPreserves ==
  ASSUME IInv, Publish \/ ReadEnds
  PROVE  IInv'
<1>0. Typed /\ RingUnbroken /\ RegisteredAttached /\ DeathIsShown /\
      SuppressionExact /\ NothingMissed /\ EndedTranscript
  BY DEF IInv
<1>r. RenderedTranscript \in Nat /\ (hasTerminal => RenderedTranscript = rendered)
  BY <1>0 DEF RenderedTranscript, Typed
<1>1. ASSUME Publish PROVE IInv'
  <2> USE <1>0, <1>r, <1>1 DEF Publish, Suppression, terminalVars, outputVars, countVars, recordVars, clientVars, endVars
  <2>e. /\ transcript' \in Entries /\ Len(transcript') <= Window
        /\ Unbroken(transcript', published + 1)
    BY ChunkContinues, RingKeeps DEF Typed, RingUnbroken
  <2>1. Typed'
    <3>1. \A c \in Clients : queue'[c] \in Entries
      BY SendingKeeps DEF Typed
    <3> QED
      BY <2>e, <3>1 DEF Typed
  <2>2. RingUnbroken'
    BY <2>e DEF RingUnbroken
  <2>3. RegisteredAttached'
    BY DEF Typed, RegisteredAttached
  <2>4. DeathIsShown'
    BY DEF Typed, DeathIsShown
  <2>5. SuppressionExact'
    <3>1. CASE Lagging # {}
      BY <3>1 DEF SuppressionExact, Typed
    <3>2. CASE Lagging = {}
      BY <3>2 DEF SuppressionExact
    <3> QED
      BY <3>1, <3>2
  <2>6. NothingMissed'
    <3>1. ASSUME NEW c \in subscribers \ Lagging
          PROVE  Unbroken(shown[c] \o queue'[c], published + 1)
      <4>1. queue'[c] = Append(queue[c], published + 1)
        BY <3>1 DEF Typed
      <4>2. shown[c] \in Entries /\ queue[c] \in Entries /\ shown[c] \o queue[c] \in Entries
        BY <3>1, ConcatProperties DEF Typed, Entries
      <4>3. published \in Nat /\ published + 1 \in Nat
        BY DEF Typed
      <4>4. shown[c] \o Append(queue[c], published + 1) = Append(shown[c] \o queue[c], published + 1)
        BY <4>2, <4>3, SendingKeeps
      <4>5. Unbroken(shown[c] \o queue[c], published)
        BY <3>1 DEF NothingMissed
      <4>6. Unbroken(Append(shown[c] \o queue[c], published + 1), published + 1)
        BY <4>2, <4>3, <4>5, ChunkContinues
      <4> QED
        BY <4>1, <4>4, <4>6
    <3> QED
      BY <3>1 DEF NothingMissed
  <2>7. EndedTranscript'
    BY DEF Typed, DeathIsShown, EndedTranscript
  <2> QED
    BY <2>1, <2>2, <2>3, <2>4, <2>5, <2>6, <2>7 DEF IInv
<1>2. ASSUME ReadEnds PROVE IInv'
  <2> USE <1>0, <1>r, <1>2 DEF ReadEnds, terminalVars, outputVars, countVars, recordVars, clientVars, endVars
  <2>e. transcript' \in Entries /\ Len(transcript') <= Window /\ Unbroken(transcript', published)
    <3>1. Notice \in Nat
      BY DEF Notice
    <3> QED
      BY <3>1, NoticeContinues, RingKeeps DEF Typed, RingUnbroken
  <2>1. Typed'
    BY <2>e DEF Typed
  <2>2. RingUnbroken'
    BY <2>e DEF RingUnbroken
  <2>3. RegisteredAttached'
    BY DEF Typed, RegisteredAttached
  <2>4. DeathIsShown'
    BY DEF Typed, DeathIsShown
  <2>5. SuppressionExact'
    BY DEF Typed, SuppressionExact
  <2>6. NothingMissed'
    BY DEF Typed, NothingMissed
  <2>7. EndedTranscript'
    BY DEF Typed, DeathIsShown, EndedTranscript
  <2> QED
    BY <2>1, <2>2, <2>3, <2>4, <2>5, <2>6, <2>7 DEF IInv
<1> QED
  BY <1>1, <1>2

\* A client is registered, reads, and is taken out.
LEMMA ClientPreserves ==
  ASSUME IInv, NEW c \in Clients, Register(c) \/ Deliver(c) \/ Detach(c)
  PROVE  IInv'
<1>0. Typed /\ RingUnbroken /\ RegisteredAttached /\ DeathIsShown /\
      SuppressionExact /\ NothingMissed /\ EndedTranscript
  BY DEF IInv
<1>r. RenderedTranscript \in Nat /\ (hasTerminal => RenderedTranscript = rendered)
  BY <1>0 DEF RenderedTranscript, Typed
<1>1. ASSUME Register(c) PROVE IInv'
  <2> USE <1>0, <1>r, <1>1 DEF Register, Suppression, terminalVars, outputVars, countVars, recordVars, clientVars, endVars
  <2>1. Typed'
    BY DEF Typed
  <2>2. RingUnbroken'
    BY DEF Typed, RingUnbroken
  <2>3. RegisteredAttached'
    BY DEF Typed, RegisteredAttached
  <2>4. DeathIsShown'
    BY DEF Typed, DeathIsShown
  <2>5. SuppressionExact'
    BY DEF Typed, SuppressionExact
  <2>6. NothingMissed'
    <3>1. queue[c] = <<>> /\ shown'[c] = transcript
      BY DEF Typed, RegisteredAttached
    <3>2. shown'[c] \o queue'[c] = transcript
      BY <3>1, ConcatEmptySeq DEF Typed, Entries
    <3>3. \A d \in subscribers : d # c => shown'[d] = shown[d]
      BY DEF Typed
    <3> QED
      BY <3>2, <3>3 DEF NothingMissed, RingUnbroken
  <2>7. EndedTranscript'
    BY DEF Typed, DeathIsShown, EndedTranscript
  <2> QED
    BY <2>1, <2>2, <2>3, <2>4, <2>5, <2>6, <2>7 DEF IInv
<1>2. ASSUME Deliver(c) PROVE IInv'
  <2> USE <1>0, <1>r, <1>2 DEF Deliver, terminalVars, outputVars, countVars, recordVars, clientVars, endVars
  <2>e. /\ Append(shown[c], Head(queue[c])) \in Entries /\ Tail(queue[c]) \in Entries
        /\ Append(shown[c], Head(queue[c])) \o Tail(queue[c]) = shown[c] \o queue[c]
    BY DeliveryKeeps DEF Typed
  <2>1. Typed'
    BY <2>e DEF Typed
  <2>2. RingUnbroken'
    BY DEF Typed, RingUnbroken
  <2>3. RegisteredAttached'
    BY DEF Typed, RegisteredAttached
  <2>4. DeathIsShown'
    BY DEF Typed, DeathIsShown
  <2>5. SuppressionExact'
    BY DEF Typed, SuppressionExact
  <2>6. NothingMissed'
    <3>1. \A d \in Clients : shown'[d] \o queue'[d] = shown[d] \o queue[d]
      BY <2>e DEF Typed
    <3> QED
      BY <3>1 DEF Typed, NothingMissed
  <2>7. EndedTranscript'
    BY DEF Typed, DeathIsShown, EndedTranscript
  <2> QED
    BY <2>1, <2>2, <2>3, <2>4, <2>5, <2>6, <2>7 DEF IInv
<1>3. ASSUME Detach(c) PROVE IInv'
  <2> USE <1>0, <1>r, <1>3 DEF Detach, Suppression, terminalVars, outputVars, countVars, recordVars, clientVars, endVars
  <2>1. Typed'
    BY NoText DEF Typed
  <2>2. RingUnbroken'
    BY DEF Typed, RingUnbroken
  <2>3. RegisteredAttached'
    BY DEF Typed, RegisteredAttached
  <2>4. DeathIsShown'
    BY DEF Typed, DeathIsShown
  <2>5. SuppressionExact'
    BY DEF Typed, SuppressionExact
  <2>6. NothingMissed'
    <3>1. \A d \in subscribers \ {c} : shown'[d] = shown[d] /\ queue'[d] = queue[d]
      BY DEF Typed
    <3> QED
      BY <3>1 DEF NothingMissed
  <2>7. EndedTranscript'
    BY DEF Typed, DeathIsShown, EndedTranscript
  <2> QED
    BY <2>1, <2>2, <2>3, <2>4, <2>5, <2>6, <2>7 DEF IInv
<1> QED
  BY <1>1, <1>2, <1>3

\* waitForExit records the death and lets the clients go.
LEMMA WaiterPreserves ==
  ASSUME IInv, WaiterStep
  PROVE  IInv'
<1>0. Typed /\ RingUnbroken /\ RegisteredAttached /\ DeathIsShown /\
      SuppressionExact /\ NothingMissed /\ EndedTranscript
  BY DEF IInv
<1>r. RenderedTranscript \in Nat /\ (hasTerminal => RenderedTranscript = rendered)
  BY <1>0 DEF RenderedTranscript, Typed
<1>1. ASSUME WaitReturns PROVE IInv'
  <2> USE <1>0, <1>r, <1>1 DEF WaitReturns, terminalVars, outputVars, countVars, recordVars, clientVars, endVars
  <2>e. transcript' \in Entries /\ Len(transcript') <= Window /\ Unbroken(transcript', published)
    <3>1. Notice \in Nat
      BY DEF Notice
    <3> QED
      BY <3>1, NoticeContinues, RingKeeps DEF Typed, RingUnbroken
  <2>1. Typed'
    BY <2>e DEF Typed
  <2>2. RingUnbroken'
    BY <2>e DEF RingUnbroken
  <2>3. RegisteredAttached'
    BY DEF Typed, RegisteredAttached
  <2>4. DeathIsShown'
    BY DEF Typed, DeathIsShown
  <2>5. SuppressionExact'
    BY DEF Typed, SuppressionExact
  <2>6. NothingMissed'
    BY DEF Typed, NothingMissed
  <2>7. EndedTranscript'
    BY DEF Typed, DeathIsShown, EndedTranscript
  <2> QED
    BY <2>1, <2>2, <2>3, <2>4, <2>5, <2>6, <2>7 DEF IInv
<1>2. ASSUME WaiterChecks PROVE IInv'
  <2> USE <1>0, <1>r, <1>2 DEF WaiterChecks, terminalVars, outputVars, countVars, recordVars, clientVars, endVars
  <2>1. Typed'
    BY DEF Typed
  <2>2. RingUnbroken'
    BY DEF Typed, RingUnbroken
  <2>3. RegisteredAttached'
    BY DEF Typed, RegisteredAttached
  <2>4. DeathIsShown'
    BY DEF Typed, DeathIsShown
  <2>5. SuppressionExact'
    BY DEF Typed, SuppressionExact
  <2>6. NothingMissed'
    BY DEF Typed, NothingMissed
  <2>7. EndedTranscript'
    BY DEF Typed, DeathIsShown, EndedTranscript
  <2> QED
    BY <2>1, <2>2, <2>3, <2>4, <2>5, <2>6, <2>7 DEF IInv
<1>3. ASSUME WaiterRenders PROVE IInv'
  <2> USE <1>0, <1>r, <1>3 DEF WaiterRenders, terminalVars, outputVars, countVars, recordVars, clientVars, endVars
  <2>1. Typed'
    BY DEF Typed
  <2>2. RingUnbroken'
    BY DEF Typed, RingUnbroken
  <2>3. RegisteredAttached'
    BY DEF Typed, RegisteredAttached
  <2>4. DeathIsShown'
    BY DEF Typed, DeathIsShown
  <2>5. SuppressionExact'
    BY DEF Typed, SuppressionExact
  <2>6. NothingMissed'
    BY DEF Typed, NothingMissed
  <2>7. EndedTranscript'
    BY DEF Typed, DeathIsShown, EndedTranscript
  <2> QED
    BY <2>1, <2>2, <2>3, <2>4, <2>5, <2>6, <2>7 DEF IInv
<1>4. ASSUME WaiterSets PROVE IInv'
  <2> USE <1>0, <1>r, <1>4 DEF WaiterSets, SaveAs, terminalVars, outputVars, countVars, recordVars, clientVars, endVars
  <2>1. Typed'
    BY DEF Typed
  <2>2. RingUnbroken'
    BY DEF Typed, RingUnbroken
  <2>3. RegisteredAttached'
    BY DEF Typed, RegisteredAttached
  <2>4. DeathIsShown'
    BY DEF Typed, DeathIsShown
  <2>5. SuppressionExact'
    BY DEF Typed, SuppressionExact
  <2>6. NothingMissed'
    BY DEF Typed, NothingMissed
  <2>7. EndedTranscript'
    BY DEF Typed, DeathIsShown, EndedTranscript
  <2> QED
    BY <2>1, <2>2, <2>3, <2>4, <2>5, <2>6, <2>7 DEF IInv
<1>5. ASSUME CloseSubscribers PROVE IInv'
  <2> USE <1>0, <1>r, <1>5 DEF CloseSubscribers, Suppression, terminalVars, outputVars, countVars, recordVars, clientVars, endVars
  <2>1. Typed'
    BY DEF Typed
  <2>2. RingUnbroken'
    BY DEF Typed, RingUnbroken
  <2>3. RegisteredAttached'
    BY DEF Typed, RegisteredAttached
  <2>4. DeathIsShown'
    BY DEF Typed, DeathIsShown
  <2>5. SuppressionExact'
    BY DEF Typed, SuppressionExact
  <2>6. NothingMissed'
    BY DEF Typed, NothingMissed
  <2>7. EndedTranscript'
    BY DEF Typed, DeathIsShown, EndedTranscript
  <2> QED
    BY <2>1, <2>2, <2>3, <2>4, <2>5, <2>6, <2>7 DEF IInv
<1> QED
  BY <1>1, <1>2, <1>3, <1>4, <1>5 DEF WaiterStep

\* The next daemon has the session without terminal and clients.
LEMMA RestartPreserves ==
  ASSUME IInv, Restart
  PROVE  IInv'
<1>0. Typed /\ RingUnbroken /\ RegisteredAttached /\ DeathIsShown /\
      SuppressionExact /\ NothingMissed /\ EndedTranscript
  BY DEF IInv
<1>r. RenderedTranscript \in Nat /\ (hasTerminal => RenderedTranscript = rendered)
  BY <1>0 DEF RenderedTranscript, Typed
<1>1. ASSUME Restart PROVE IInv'
  <2> USE <1>0, <1>r, <1>1 DEF Restart, Suppression, terminalVars, outputVars, countVars, recordVars, clientVars, endVars
  <2>1. Typed'
    BY NoText, WindowIsPositive DEF Typed
  <2>2. RingUnbroken'
    BY NoText, WindowIsPositive DEF Typed, RingUnbroken
  <2>3. RegisteredAttached'
    BY NoText, WindowIsPositive DEF Typed, RegisteredAttached
  <2>4. DeathIsShown'
    BY NoText, WindowIsPositive DEF Typed, DeathIsShown
  <2>5. SuppressionExact'
    BY NoText, WindowIsPositive DEF Typed, SuppressionExact
  <2>6. NothingMissed'
    BY NoText, WindowIsPositive DEF Typed, NothingMissed
  <2>7. EndedTranscript'
    BY NoText, WindowIsPositive DEF Typed, DeathIsShown, EndedTranscript
  <2> QED
    BY <2>1, <2>2, <2>3, <2>4, <2>5, <2>6, <2>7 DEF IInv
<1> QED
  BY <1>1

LEMMA NextPreserves == IInv /\ [Next]_vars => IInv'
<1> SUFFICES ASSUME IInv, [Next]_vars PROVE IInv'
  OBVIOUS
<1>1. CASE Next
  BY <1>1, QuietPreserve, StopPreserves, RequestPreserves, ReaderPreserves, ClientPreserves,
     WaiterPreserves, RestartPreserves
     DEF Next, ReaderStep, HandlerStep
<1>2. CASE UNCHANGED vars
  <2>1. UNCHANGED <<child, hasTerminal, status, muted, attachedClients, focusedClients, storedText,
                    published, transcript, rendered, saved, subscribers, clientAt, queue, shown,
                    stopText, waiter, waiterText, seenAtDeath>>
    BY <1>2 DEF vars, terminalVars, outputVars, countVars, recordVars, clientVars, endVars
  <2> QED
    BY <2>1 DEF IInv, Typed, RingUnbroken, RegisteredAttached, DeathIsShown, SuppressionExact,
                NothingMissed, EndedTranscript
<1> QED
  BY <1>1, <1>2

LEMMA Invariance == Spec => []IInv
  BY InitEstablishes, NextPreserves, PTL DEF Spec

-------------------------------------------------------------------------------
\* The counts that silence notifications are those of the subscribers and the
\* mute, after every one of the places that refresh them (shell.go 161-170).
THEOREM CountsAreExact == Spec => []SuppressionExact
<1>1. IInv => SuppressionExact
  BY DEF IInv
<1> QED
  BY <1>1, Invariance, PTL

\* An attached client's history and stream are the session's output without a hole
\* or a repetition, whatever the ring has evicted (Attach 102-115, readOutput 532-540).
THEOREM HistoryMeetsStream == Spec => []NothingMissed
<1>1. IInv => NothingMissed
  BY DEF IInv
<1> QED
  BY <1>1, Invariance, PTL

\* The text kept of an ended session shows at least what its terminal had shown when
\* the process died, even when Stop runs at the same time (waitForExit 624-632).
THEOREM LastTextIsKept == Spec => []EndedTranscript
<1>1. IInv => EndedTranscript
  BY DEF IInv
<1> QED
  BY <1>1, Invariance, PTL
===============================================================================
