----------------------------- MODULE PersistProofs -----------------------------
(***************************************************************************)
(* Proofs that persist() keeps its promise as long as no two of them       *)
(* overlap (`suspect`): the state file is whole whenever the daemon may    *)
(* die, and it holds what every finished operation did.                    *)
(*                                                                         *)
(* A persist that runs alone may still read a session that is being        *)
(* changed: the change waits for its own persist, so the session is not    *)
(* settled.  Rename is the exception, because it takes its change back     *)
(* when it cannot save it; what it may leave behind differs in the title.  *)
(***************************************************************************)
EXTENDS SessionManagerProofs

\* A request handler whose persist is that of a creation.
Creating(t) == pc[t] = "launch" \/ (pc[t] \in Saving /\ onSaved[t] = "launch")

\* Nobody waits for the process of a session that is still being created.
Creations ==
  /\ \A s \in Sessions : pc[s] # "idle" => s \in Started
  /\ \A t \in Callers : Creating(t) => pc[target[t]] = "idle"
  /\ \A t, u \in Callers : Creating(t) /\ Creating(u) /\ t # u => target[t] # target[u]
  /\ \A t \in Callers : pc[t] = "untitle" => onFailed[t] = "untitle"

Alone ==
  ~suspect =>
    \A t, u \in Threads : t # u /\ pc[t] \in Unsettled => pc[u] \notin Unsettled

\* The files while a persist that runs alone works on them.
Files ==
  ~suspect =>
    /\ path.kind \in {"none", "whole"}
    /\ \A t \in Threads :
         /\ pc[t] \in {"open", "write", "rename"} => todo[t] = {}
         /\ pc[t] = "write" => handle[t] = "temporary" /\ temporary = Truncated
         /\ pc[t] = "rename" => temporary = Document(snap[t])

\* All of a record but the title.
AlikeButTitle(r, q) == r.status = q.status /\ r.archived = q.archived /\ r.muted = q.muted
Renames(threads) == \A t \in threads : onFailed[t] = "untitle"
Listing(s) == {t \in Threads : target[t] = s /\ pc[t] = "list"}
Pending(s) == {t \in Threads : target[t] = s /\ pc[t] \in Unsettled \cup {"list"}}

\* What a persist has read is what the daemon holds, of every session without a
\* change that is yet to be saved.
Reads(t) ==
  \A s \in Sessions : Renames(Listing(s)) =>
    /\ s \in sessions <=> s \in todo[t] \cup DOMAIN snap[t]
    /\ s \in DOMAIN snap[t] => AlikeButTitle(snap[t][s], record[s])
    /\ s \in DOMAIN snap[t] /\ Listing(s) = {} => snap[t][s].title = record[s].title
Readings ==
  ~suspect =>
    \A t \in Threads : pc[t] \in {"snapshot", "open", "write", "rename"} => Reads(t)

\* So is what the state file holds.
Agrees(s) ==
  /\ s \in sessions <=> s \in DOMAIN path.data
  /\ s \in sessions => AlikeButTitle(record[s], path.data[s])
  /\ s \in sessions /\ Pending(s) = {} => record[s].title = path.data[s].title
Settled ==
  ~suspect /\ (up \/ pc[Boot] = "up") =>
    \A s \in Sessions : Renames(Pending(s)) => Agrees(s)

SInv == Creations /\ Alone /\ Files /\ Readings /\ Settled

------------------------------------------------------------------------------
\* Two records with equal fields are equal.
LEMMA SameRecord ==
  ASSUME NEW r \in Record, NEW q \in Record, AlikeButTitle(r, q), r.title = q.title
  PROVE  r = q
  BY DEF Record, AlikeButTitle

\* A request handler begins an operation.
LEMMA RequestSaves ==
  ASSUME IInv, SInv, NEW t \in Callers, Request(t)
  PROVE  SInv'
<1>0. Creations /\ Alone /\ Files /\ Readings /\ Settled
  BY DEF SInv
<1>i. TypeOK /\ CallerControl /\ WaiterControl /\ BootControl /\ Known
  BY DEF IInv, Control
<1>t. /\ sessions \subseteq Sessions /\ record \in [Sessions -> Record]
      /\ child \in [Sessions -> {"none", "alive", "dead", "orphan"}]
      /\ pc \in [Threads -> Places] /\ target \in [Threads -> Sessions \cup {NoSession}]
      /\ onSaved \in [Threads -> Places] /\ onFailed \in [Threads -> Places]
      /\ todo \in [Threads -> SUBSET Sessions] /\ snap \in [Threads -> Saves]
      /\ handle \in [Threads -> {"none", "temporary", "path", "unlinked"}]
      /\ suspect \in BOOLEAN
  BY <1>i DEF TypeOK
<1> USE ThreadsAreDistinct DEF ThreadsAssumption, Threads, NoSession, Saving
<1>1. ASSUME NEW s \in Sessions, Create(t, s) PROVE SInv'
  <2> USE <1>0, <1>i, <1>t, <1>1 DEF Create, Call, Persist, memoryVars, threadVars, saveVars, fileVars, boundVars
  <2>1. Creations'
    BY DEF Creations, Creating, Started, Known, CallerControl, WaiterControl, BootControl
  <2>2. Alone'
    BY DEF Alone, Unsettled
  <2>3. Files'
    BY DEF Files
  <2>4. Readings'
    BY DEF Readings, Reads, Listing, Renames, AlikeButTitle, Alone, Unsettled
  <2>5. Settled'
    BY DEF Settled, Agrees, Pending, Renames, Unsettled, AlikeButTitle
  <2> QED BY <2>1, <2>2, <2>3, <2>4, <2>5 DEF SInv
<1>2. ASSUME NEW s \in Sessions, Stop(t, s) PROVE SInv'
  <2> USE <1>0, <1>i, <1>t, <1>2 DEF Stop, Call, Goto, memoryVars, threadVars, saveVars, fileVars, boundVars
  <2>1. Creations'
    BY DEF Creations, Creating, Started, Known, CallerControl, WaiterControl, BootControl
  <2>2. Alone'
    BY DEF Alone, Unsettled
  <2>3. Files'
    BY DEF Files
  <2>4. Readings'
    BY DEF Readings, Reads, Listing, Renames, AlikeButTitle, Alone, Unsettled
  <2>5. Settled'
    BY DEF Settled, Agrees, Pending, Renames, Unsettled, AlikeButTitle
  <2> QED BY <2>1, <2>2, <2>3, <2>4, <2>5 DEF SInv
<1>3. ASSUME NEW s \in Sessions, Delete(t, s) PROVE SInv'
  <2> USE <1>0, <1>i, <1>t, <1>3 DEF Delete, Call, Goto, memoryVars, threadVars, saveVars, fileVars, boundVars
  <2>1. Creations'
    BY DEF Creations, Creating, Started, Known, CallerControl, WaiterControl, BootControl
  <2>2. Alone'
    BY DEF Alone, Unsettled
  <2>3. Files'
    BY DEF Files
  <2>4. Readings'
    BY DEF Readings, Reads, Listing, Renames, AlikeButTitle, Alone, Unsettled
  <2>5. Settled'
    BY DEF Settled, Agrees, Pending, Renames, Unsettled, AlikeButTitle
  <2> QED BY <2>1, <2>2, <2>3, <2>4, <2>5 DEF SInv
<1>4. ASSUME NEW s \in Sessions, Archive(t, s) PROVE SInv'
  <2> USE <1>0, <1>i, <1>t, <1>4 DEF Archive, Call, Goto, memoryVars, threadVars, saveVars, fileVars, boundVars
  <2>1. Creations'
    BY DEF Creations, Creating, Started, Known, CallerControl, WaiterControl, BootControl
  <2>2. Alone'
    BY DEF Alone, Unsettled
  <2>3. Files'
    BY DEF Files
  <2>4. Readings'
    BY DEF Readings, Reads, Listing, Renames, AlikeButTitle, Alone, Unsettled
  <2>5. Settled'
    BY DEF Settled, Agrees, Pending, Renames, Unsettled, AlikeButTitle
  <2> QED BY <2>1, <2>2, <2>3, <2>4, <2>5 DEF SInv
<1>5. ASSUME NEW s \in Sessions, Restore(t, s) PROVE SInv'
  <2> USE <1>0, <1>i, <1>t, <1>5 DEF Restore, Call, Update, Persist, memoryVars, threadVars, saveVars, fileVars, boundVars
  <2>o. \A x \in Sessions : x # s => record'[x] = record[x]
    OBVIOUS
  <2>l. t \in Listing(s)' /\ t \in Pending(s)' /\ onFailed'[t] # "untitle"
    BY DEF Listing, Pending, Renames, Unsettled
  <2>n. ~Renames(Listing(s))' /\ ~Renames(Pending(s))'
    BY <2>l DEF Renames
  <2>m. \A x \in Sessions : x # s =>
          /\ Listing(x)' = Listing(x) /\ (Renames(Listing(x))' <=> Renames(Listing(x)))
          /\ Pending(x)' = Pending(x) /\ (Renames(Pending(x))' <=> Renames(Pending(x)))
    BY DEF Listing, Pending, Renames, Unsettled
  <2>1. Creations'
    BY DEF Creations, Creating, Started, Known, CallerControl, WaiterControl, BootControl
  <2>2. Alone'
    BY DEF Alone, Unsettled
  <2>3. Files'
    BY DEF Files
  <2>4. Readings'
    BY <2>o, <2>n, <2>m DEF Readings, Reads
  <2>5. Settled'
    BY <2>o, <2>n, <2>m DEF Settled, Agrees
  <2> QED BY <2>1, <2>2, <2>3, <2>4, <2>5 DEF SInv
<1>6. ASSUME NEW s \in Sessions, SetNotificationsMuted(t, s) PROVE SInv'
  <2> USE <1>0, <1>i, <1>t, <1>6 DEF SetNotificationsMuted, Call, Update, Persist, memoryVars, threadVars, saveVars, fileVars, boundVars
  <2>1. Creations'
    BY DEF Creations, Creating, Started, Known, CallerControl, WaiterControl, BootControl
  <2>2. Alone'
    BY DEF Alone, Unsettled
  <2>3. Files'
    BY DEF Files
  <2>4. Readings'
    BY DEF Readings, Reads, Listing, Renames, AlikeButTitle, Alone, Unsettled
  <2>5. Settled'
    BY DEF Settled, Agrees, Pending, Renames, Unsettled, AlikeButTitle
  <2> QED BY <2>1, <2>2, <2>3, <2>4, <2>5 DEF SInv
<1>7. ASSUME NEW s \in Sessions, NEW title \in Titles, Rename(t, s, title) PROVE SInv'
  <2> USE <1>0, <1>i, <1>t, <1>7 DEF Rename, Call, Update, Persist, memoryVars, threadVars, saveVars, fileVars, boundVars
  <2>o. \A x \in Sessions : record'[x] = IF x = s THEN [record[x] EXCEPT !["title"] = title] ELSE record[x]
    OBVIOUS
  <2>b. \A x \in Sessions : AlikeButTitle(record'[x], record[x]) /\ (x # s => record'[x] = record[x])
    BY <2>o DEF AlikeButTitle, Record
  <2>m. \A x \in Sessions :
          /\ Renames(Listing(x))' <=> Renames(Listing(x))
          /\ IF x = s THEN Listing(x)' # {} ELSE Listing(x)' = Listing(x)
    BY DEF Listing, Renames
  <2>1. Creations'
    BY DEF Creations, Creating, Started, Known, CallerControl, WaiterControl, BootControl
  <2>2. Alone'
    BY DEF Alone, Unsettled
  <2>3. Files'
    BY DEF Files
  <2>4. Readings'
    BY <2>b, <2>m DEF Readings, Reads, AlikeButTitle
  <2>5. Settled'
    BY DEF Settled, Agrees, Pending, Renames, Unsettled, AlikeButTitle
  <2> QED BY <2>1, <2>2, <2>3, <2>4, <2>5 DEF SInv
<1> QED BY <1>1, <1>2, <1>3, <1>4, <1>5, <1>6, <1>7 DEF Request

\* A request handler goes on.
LEMMA CallerSaves ==
  ASSUME IInv, SInv, NEW t \in Callers, CallerStep(t)
  PROVE  SInv'
<1>0. Creations /\ Alone /\ Files /\ Readings /\ Settled
  BY DEF SInv
<1>i. TypeOK /\ CallerControl /\ WaiterControl /\ BootControl /\ Known
  BY DEF IInv, Control
<1>t. /\ sessions \subseteq Sessions /\ record \in [Sessions -> Record]
      /\ child \in [Sessions -> {"none", "alive", "dead", "orphan"}]
      /\ pc \in [Threads -> Places] /\ target \in [Threads -> Sessions \cup {NoSession}]
      /\ onSaved \in [Threads -> Places] /\ onFailed \in [Threads -> Places]
      /\ todo \in [Threads -> SUBSET Sessions] /\ snap \in [Threads -> Saves]
      /\ handle \in [Threads -> {"none", "temporary", "path", "unlinked"}]
      /\ suspect \in BOOLEAN
  BY <1>i DEF TypeOK
<1> USE ThreadsAreDistinct DEF ThreadsAssumption, Threads, NoSession, Saving
<1>1. ASSUME Launch(t) PROVE SInv'
  <2> USE <1>0, <1>i, <1>t, <1>1 DEF Launch, Goto, memoryVars, threadVars, saveVars, fileVars, boundVars
  <2>c. target[t] \in Sessions /\ pc[target[t]] = "idle"
    BY DEF CallerControl, Creations, Creating
  <2>m. \A x \in Sessions :
          /\ Listing(x)' = Listing(x) /\ Pending(x)' = Pending(x)
          /\ Renames(Listing(x))' <=> Renames(Listing(x))
          /\ Renames(Pending(x))' <=> Renames(Pending(x))
    BY <2>c DEF Listing, Pending, Renames, Unsettled
  <2>1. Creations'
    BY DEF Creations, Creating, Started, Known, CallerControl, WaiterControl, BootControl
  <2>2. Alone'
    BY DEF Alone, Unsettled
  <2>3. Files'
    BY DEF Files
  <2>4. Readings'
    BY <2>c, <2>m DEF Readings, Reads
  <2>5. Settled'
    BY <2>c, <2>m DEF Settled, Agrees
  <2> QED BY <2>1, <2>2, <2>3, <2>4, <2>5 DEF SInv
<1>2. ASSUME Unlink(t) PROVE SInv'
  <2> USE <1>0, <1>i, <1>t, <1>2 DEF Unlink, Goto, memoryVars, threadVars, saveVars, fileVars, boundVars
  <2>c. target[t] \in Sessions
    BY DEF CallerControl
  <2>m. \A x \in Sessions : x # target[t] =>
          Pending(x)' = Pending(x) /\ (Renames(Pending(x))' <=> Renames(Pending(x)))
    BY <2>c DEF Listing, Pending, Renames, Unsettled
  <2>a. ~(suspect') => target[t] \notin sessions' /\ target[t] \notin DOMAIN path.data
    BY <2>c
  <2>1. Creations'
    BY DEF Creations, Creating, Started, Known, CallerControl, WaiterControl, BootControl
  <2>2. Alone'
    BY DEF Alone, Unsettled
  <2>3. Files'
    BY DEF Files
  <2>4. Readings'
    BY DEF Readings, Reads, Listing, Renames, AlikeButTitle, Alone, Unsettled
  <2>5. Settled'
    BY <2>c, <2>m, <2>a DEF Settled, Agrees
  <2> QED BY <2>1, <2>2, <2>3, <2>4, <2>5 DEF SInv
<1>3. ASSUME Kill(t) PROVE SInv'
  <2> USE <1>0, <1>i, <1>t, <1>3 DEF Kill, Dies, Goto, memoryVars, threadVars, saveVars, fileVars, boundVars
  <2>k. target[t] \in Sessions /\ child[target[t]] # "none"
    BY DEF CallerControl, Known, Started
  <2>d. \A s \in Sessions : child[s] # "none" => child'[s] # "none"
    BY <2>k
  <2>1. Creations'
    BY SMTT(60), <2>k, <2>d DEF Creations, Creating, Started, Known, CallerControl, WaiterControl, BootControl
  <2>2. Alone'
    BY DEF Alone, Unsettled
  <2>3. Files'
    BY DEF Files
  <2>4. Readings'
    BY DEF Readings, Reads, Listing, Renames, AlikeButTitle, Alone, Unsettled
  <2>5. Settled'
    BY DEF Settled, Agrees, Pending, Renames, Unsettled, AlikeButTitle
  <2> QED BY <2>1, <2>2, <2>3, <2>4, <2>5 DEF SInv
<1>4. ASSUME SetStopped(t) PROVE SInv'
  <2> USE <1>0, <1>i, <1>t, <1>4 DEF SetStopped, Update, Goto, memoryVars, threadVars, saveVars, fileVars, boundVars
  <2>o. \A x \in Sessions : x # target[t] => record'[x] = record[x]
    OBVIOUS
  <2>l. t \in Listing(target[t])' /\ t \in Pending(target[t])' /\ onFailed'[t] # "untitle"
    BY DEF Listing, Pending, Renames, Unsettled, CallerControl
  <2>n. ~Renames(Listing(target[t]))' /\ ~Renames(Pending(target[t]))'
    BY <2>l DEF Renames
  <2>m. \A x \in Sessions : x # target[t] =>
          /\ Listing(x)' = Listing(x) /\ (Renames(Listing(x))' <=> Renames(Listing(x)))
          /\ Pending(x)' = Pending(x) /\ (Renames(Pending(x))' <=> Renames(Pending(x)))
    BY DEF Listing, Pending, Renames, Unsettled
  <2>1. Creations'
    BY DEF Creations, Creating, Started, Known, CallerControl, WaiterControl, BootControl
  <2>2. Alone'
    BY DEF Alone, Unsettled
  <2>3. Files'
    BY DEF Files
  <2>4. Readings'
    BY <2>o, <2>n, <2>m DEF Readings, Reads, CallerControl
  <2>5. Settled'
    BY <2>o, <2>n, <2>m DEF Settled, Agrees, CallerControl
  <2> QED BY <2>1, <2>2, <2>3, <2>4, <2>5 DEF SInv
<1>5. ASSUME NestedStop(t) PROVE SInv'
  <2> USE <1>0, <1>i, <1>t, <1>5 DEF NestedStop, Goto, memoryVars, threadVars, saveVars, fileVars, boundVars
  <2>1. Creations'
    BY DEF Creations, Creating, Started, Known, CallerControl, WaiterControl, BootControl
  <2>2. Alone'
    BY DEF Alone, Unsettled
  <2>3. Files'
    BY DEF Files
  <2>4. Readings'
    BY DEF Readings, Reads, Listing, Renames, AlikeButTitle, Alone, Unsettled
  <2>5. Settled'
    BY DEF Settled, Agrees, Pending, Renames, Unsettled, AlikeButTitle
  <2> QED BY <2>1, <2>2, <2>3, <2>4, <2>5 DEF SInv
<1>6. ASSUME Remove(t) PROVE SInv'
  <2> USE <1>0, <1>i, <1>t, <1>6 DEF Remove, Persist, memoryVars, threadVars, saveVars, fileVars, boundVars
  <2>1. Creations'
    BY DEF Creations, Creating, Started, Known, CallerControl, WaiterControl, BootControl
  <2>2. Alone'
    BY DEF Alone, Unsettled
  <2>3. Files'
    BY DEF Files
  <2>4. Readings'
    BY DEF Readings, Reads, Listing, Renames, AlikeButTitle, Alone, Unsettled
  <2>5. Settled'
    BY DEF Settled, Agrees, Pending, Renames, Unsettled, AlikeButTitle
  <2> QED BY <2>1, <2>2, <2>3, <2>4, <2>5 DEF SInv
<1>7. ASSUME SetArchived(t) PROVE SInv'
  <2> USE <1>0, <1>i, <1>t, <1>7 DEF SetArchived, Update, Persist, memoryVars, threadVars, saveVars, fileVars, boundVars
  <2>o. \A x \in Sessions : x # target[t] => record'[x] = record[x]
    OBVIOUS
  <2>l. t \in Listing(target[t])' /\ t \in Pending(target[t])' /\ onFailed'[t] # "untitle"
    BY DEF Listing, Pending, Renames, Unsettled, CallerControl
  <2>n. ~Renames(Listing(target[t]))' /\ ~Renames(Pending(target[t]))'
    BY <2>l DEF Renames
  <2>m. \A x \in Sessions : x # target[t] =>
          /\ Listing(x)' = Listing(x) /\ (Renames(Listing(x))' <=> Renames(Listing(x)))
          /\ Pending(x)' = Pending(x) /\ (Renames(Pending(x))' <=> Renames(Pending(x)))
    BY DEF Listing, Pending, Renames, Unsettled
  <2>1. Creations'
    BY DEF Creations, Creating, Started, Known, CallerControl, WaiterControl, BootControl
  <2>2. Alone'
    BY DEF Alone, Unsettled
  <2>3. Files'
    BY DEF Files
  <2>4. Readings'
    BY <2>o, <2>n, <2>m DEF Readings, Reads, CallerControl
  <2>5. Settled'
    BY <2>o, <2>n, <2>m DEF Settled, Agrees, CallerControl
  <2> QED BY <2>1, <2>2, <2>3, <2>4, <2>5 DEF SInv
<1>8. ASSUME Untitle(t) PROVE SInv'
  <2> USE <1>0, <1>i, <1>t, <1>8 DEF Untitle, Update, Goto, memoryVars, threadVars, saveVars, fileVars, boundVars
  <2>c. target[t] \in Sessions /\ onFailed[t] = "untitle"
    BY DEF CallerControl, Creations
  <2>o. \A x \in Sessions : record'[x] = IF x = target[t] THEN [record[x] EXCEPT !["title"] = previous[t]] ELSE record[x]
    BY <2>c
  <2>b. /\ \A x \in Sessions : AlikeButTitle(record'[x], record[x])
        /\ \A x \in Sessions : x # target[t] => record'[x] = record[x]
        /\ record'[target[t]].title = previous[t]
    BY <2>c, <2>o DEF AlikeButTitle, Record
  <2>m. \A x \in Sessions :
          /\ Renames(Pending(x))' <=> Renames(Pending(x))
          /\ x # target[t] => Pending(x)' = Pending(x)
    BY <2>c DEF Listing, Pending, Renames, Unsettled
  <2>a. ~(suspect') => (target[t] \in DOMAIN path.data => path.data[target[t]].title = previous[t])
    OBVIOUS
  <2>1. Creations'
    BY DEF Creations, Creating, Started, Known, CallerControl, WaiterControl, BootControl
  <2>2. Alone'
    BY DEF Alone, Unsettled
  <2>3. Files'
    BY DEF Files
  <2>4. Readings'
    BY DEF Readings, Reads, Listing, Renames, AlikeButTitle, Alone, Unsettled
  <2>5. Settled'
    BY <2>c, <2>b, <2>m, <2>a DEF Settled, Agrees, AlikeButTitle
  <2> QED BY <2>1, <2>2, <2>3, <2>4, <2>5 DEF SInv
<1> QED BY <1>1, <1>2, <1>3, <1>4, <1>5, <1>6, <1>7, <1>8 DEF CallerStep

\* The waitForExit goroutine of a session.
LEMMA WaiterSaves ==
  ASSUME IInv, SInv, NEW s \in Sessions, WaiterStep(s)
  PROVE  SInv'
<1>0. Creations /\ Alone /\ Files /\ Readings /\ Settled
  BY DEF SInv
<1>i. TypeOK /\ CallerControl /\ WaiterControl /\ BootControl /\ Known
  BY DEF IInv, Control
<1>t. /\ sessions \subseteq Sessions /\ record \in [Sessions -> Record]
      /\ child \in [Sessions -> {"none", "alive", "dead", "orphan"}]
      /\ pc \in [Threads -> Places] /\ target \in [Threads -> Sessions \cup {NoSession}]
      /\ onSaved \in [Threads -> Places] /\ onFailed \in [Threads -> Places]
      /\ todo \in [Threads -> SUBSET Sessions] /\ snap \in [Threads -> Saves]
      /\ handle \in [Threads -> {"none", "temporary", "path", "unlinked"}]
      /\ suspect \in BOOLEAN
  BY <1>i DEF TypeOK
<1> USE ThreadsAreDistinct DEF ThreadsAssumption, Threads, NoSession, Saving
<1>1. ASSUME WaitReturns(s) PROVE SInv'
  <2> USE <1>0, <1>i, <1>t, <1>1 DEF WaitReturns, Goto, memoryVars, threadVars, saveVars, fileVars, boundVars
  <2>1. Creations'
    BY DEF Creations, Creating, Started, Known, CallerControl, WaiterControl, BootControl
  <2>2. Alone'
    BY DEF Alone, Unsettled
  <2>3. Files'
    BY DEF Files
  <2>4. Readings'
    BY DEF Readings, Reads, Listing, Renames, AlikeButTitle, Alone, Unsettled
  <2>5. Settled'
    BY DEF Settled, Agrees, Pending, Renames, Unsettled, AlikeButTitle
  <2> QED BY <2>1, <2>2, <2>3, <2>4, <2>5 DEF SInv
<1>2. ASSUME WaiterChecks(s) PROVE SInv'
  <2> USE <1>0, <1>i, <1>t, <1>2 DEF WaiterChecks, Goto, memoryVars, threadVars, saveVars, fileVars, boundVars
  <2>1. Creations'
    BY DEF Creations, Creating, Started, Known, CallerControl, WaiterControl, BootControl
  <2>2. Alone'
    BY DEF Alone, Unsettled
  <2>3. Files'
    BY DEF Files
  <2>4. Readings'
    BY DEF Readings, Reads, Listing, Renames, AlikeButTitle, Alone, Unsettled
  <2>5. Settled'
    BY DEF Settled, Agrees, Pending, Renames, Unsettled, AlikeButTitle
  <2> QED BY <2>1, <2>2, <2>3, <2>4, <2>5 DEF SInv
<1>3. ASSUME SetEnded(s) PROVE SInv'
  <2> USE <1>0, <1>i, <1>t, <1>3 DEF SetEnded, Update, Persist, memoryVars, threadVars, saveVars, fileVars, boundVars
  <2>1. Creations'
    BY DEF Creations, Creating, Started, Known, CallerControl, WaiterControl, BootControl
  <2>2. Alone'
    BY DEF Alone, Unsettled
  <2>3. Files'
    BY DEF Files
  <2>4. Readings'
    BY DEF Readings, Reads, Listing, Renames, AlikeButTitle, Alone, Unsettled
  <2>5. Settled'
    BY DEF Settled, Agrees, Pending, Renames, Unsettled, AlikeButTitle
  <2> QED BY <2>1, <2>2, <2>3, <2>4, <2>5 DEF SInv
<1> QED BY <1>1, <1>2, <1>3 DEF WaiterStep

\* One step of persist, in any thread.
LEMMA SaveSaves ==
  ASSUME IInv, SInv, NEW t \in Threads, SaveStep(t) \/ WriteFails(t)
  PROVE  SInv'
<1>0. Creations /\ Alone /\ Files /\ Readings /\ Settled
  BY DEF SInv
<1>i. TypeOK /\ CallerControl /\ WaiterControl /\ BootControl /\ Known
  BY DEF IInv, Control
<1>t. /\ sessions \subseteq Sessions /\ record \in [Sessions -> Record]
      /\ child \in [Sessions -> {"none", "alive", "dead", "orphan"}]
      /\ pc \in [Threads -> Places] /\ target \in [Threads -> Sessions \cup {NoSession}]
      /\ onSaved \in [Threads -> Places] /\ onFailed \in [Threads -> Places]
      /\ todo \in [Threads -> SUBSET Sessions] /\ snap \in [Threads -> Saves]
      /\ handle \in [Threads -> {"none", "temporary", "path", "unlinked"}]
      /\ suspect \in BOOLEAN
  BY <1>i DEF TypeOK
<1> USE ThreadsAreDistinct DEF ThreadsAssumption, Threads, NoSession, Saving
<1>1. ASSUME List(t) PROVE SInv'
  <2> USE <1>0, <1>i, <1>t, <1>1 DEF List, Goto, memoryVars, threadVars, saveVars, fileVars, boundVars
  <2>1. Creations'
    BY DEF Creations, Creating, Started, Known, CallerControl, WaiterControl, BootControl
  <2>2. Alone'
    BY DEF Alone, Unsettled
  <2>3. Files'
    BY DEF Files
  <2>4. Readings'
    BY EmptySaves DEF Readings, Reads, Listing, Renames, AlikeButTitle, Alone, Unsettled
  <2>5. Settled'
    BY DEF Settled, Agrees, Pending, Renames, Unsettled, AlikeButTitle
  <2> QED BY <2>1, <2>2, <2>3, <2>4, <2>5 DEF SInv
<1>2. ASSUME Snapshot(t) PROVE SInv'
  <2> USE <1>0, <1>i, <1>t, <1>2 DEF Snapshot, Goto, memoryVars, threadVars, saveVars, fileVars, boundVars
  <2>1. Creations'
    BY DEF Creations, Creating, Started, Known, CallerControl, WaiterControl, BootControl
  <2>2. Alone'
    BY DEF Alone, Unsettled
  <2>3. Files'
    BY DEF Files
  <2>4. Readings'
    BY DEF Readings, Reads, Listing, Renames, AlikeButTitle, Alone, Unsettled
  <2>5. Settled'
    BY DEF Settled, Agrees, Pending, Renames, Unsettled, AlikeButTitle
  <2> QED BY <2>1, <2>2, <2>3, <2>4, <2>5 DEF SInv
<1>3. ASSUME SnapshotNothing(t) PROVE SInv'
  <2> USE <1>0, <1>i, <1>t, <1>3 DEF SnapshotNothing, Goto, memoryVars, threadVars, saveVars, fileVars, boundVars
  <2>1. Creations'
    BY DEF Creations, Creating, Started, Known, CallerControl, WaiterControl, BootControl
  <2>2. Alone'
    BY DEF Alone, Unsettled
  <2>3. Files'
    BY DEF Files
  <2>4. Readings'
    BY DEF Readings, Reads, Listing, Renames, AlikeButTitle, Alone, Unsettled
  <2>5. Settled'
    BY DEF Settled, Agrees, Pending, Renames, Unsettled, AlikeButTitle
  <2> QED BY <2>1, <2>2, <2>3, <2>4, <2>5 DEF SInv
<1>4. ASSUME Open(t) PROVE SInv'
  <2> USE <1>0, <1>i, <1>t, <1>4 DEF Open, Goto, memoryVars, threadVars, saveVars, fileVars, boundVars
  <2>a. ~suspect => \A u \in Threads \ {t} : pc[u] \notin Unsettled
    BY DEF Alone, Unsettled
  <2>1. Creations'
    BY DEF Creations, Creating, Started, Known, CallerControl, WaiterControl, BootControl
  <2>2. Alone'
    BY DEF Alone, Unsettled
  <2>3. Files'
    BY <2>a DEF Files, Unsettled
  <2>4. Readings'
    BY DEF Readings, Reads, Listing, Renames, AlikeButTitle, Alone, Unsettled
  <2>5. Settled'
    BY DEF Settled, Agrees, Pending, Renames, Unsettled, AlikeButTitle
  <2> QED BY <2>1, <2>2, <2>3, <2>4, <2>5 DEF SInv
<1>5. ASSUME Write(t) PROVE SInv'
  <2> USE <1>0, <1>i, <1>t, <1>5 DEF Write, Goto, memoryVars, threadVars, saveVars, fileVars, boundVars
  <2>a. ~suspect => \A u \in Threads \ {t} : pc[u] \notin Unsettled
    BY DEF Alone, Unsettled
  <2>f. ~suspect => temporary' = Document(snap[t]) /\ path' = path
    BY DEF Files, Overlaid, Truncated, Document
  <2>m. \A x \in Sessions : Pending(x)' = Pending(x) /\ (Renames(Pending(x))' <=> Renames(Pending(x)))
    BY DEF Listing, Pending, Renames, Unsettled
  <2>1. Creations'
    BY DEF Creations, Creating, Started, Known, CallerControl, WaiterControl, BootControl
  <2>2. Alone'
    BY DEF Alone, Unsettled
  <2>3. Files'
    BY <2>a, <2>f DEF Files, Unsettled
  <2>4. Readings'
    BY DEF Readings, Reads, Listing, Renames, AlikeButTitle, Alone, Unsettled
  <2>5. Settled'
    BY <2>f, <2>m DEF Settled, Agrees
  <2> QED BY <2>1, <2>2, <2>3, <2>4, <2>5 DEF SInv
<1>6. ASSUME Replace(t) PROVE SInv'
  <2> USE <1>0, <1>i, <1>t, <1>6 DEF Replace, Return, Goto, Moved, Nowhere, memoryVars, threadVars, saveVars, fileVars, boundVars
  <2>a. ~suspect => \A u \in Threads \ {t} : pc[u] \notin Unsettled
    BY DEF Alone, Unsettled
  <2>n. onSaved[t] \in {"idle", "launch", "remove", "up"}
    BY DEF CallerControl, WaiterControl, BootControl
  <2>f. ~suspect => path' = Document(snap[t]) /\ todo[t] = {}
    BY DEF Files
  <2>p. ~suspect => \A u \in Threads : pc'[u] \notin Unsettled
    BY <2>a, <2>n DEF Unsettled
  <2>m. ~suspect => \A x \in Sessions : Pending(x)' = Listing(x) /\ (Renames(Pending(x))' <=> Renames(Listing(x)))
    BY <2>a, <2>n DEF Listing, Pending, Renames, Unsettled
  <2>r. ~suspect => Reads(t)
    BY DEF Readings
  <2>1. Creations'
    BY DEF Creations, Creating, Started, Known, CallerControl, WaiterControl, BootControl
  <2>2. Alone'
    BY DEF Alone, Unsettled
  <2>3. Files'
    BY <2>p, <2>f DEF Files, Unsettled, Document
  <2>4. Readings'
    BY <2>p DEF Readings, Unsettled
  <2>5. Settled'
    BY <2>f, <2>m, <2>r DEF Settled, Agrees, Reads, AlikeButTitle, Document
  <2> QED BY <2>1, <2>2, <2>3, <2>4, <2>5 DEF SInv
<1>7. ASSUME ReplaceFails(t) PROVE SInv'
  <2> USE <1>0, <1>i, <1>t, <1>7 DEF ReplaceFails, Return, Goto, memoryVars, threadVars, saveVars, fileVars, boundVars
  <2>f. suspect'
    BY DEF Files, Document, Nowhere
  <2>1. Creations'
    BY DEF Creations, Creating, Started, Known, CallerControl, WaiterControl, BootControl
  <2>2. Alone'
    BY DEF Alone, Unsettled
  <2>3. Files'
    BY <2>f DEF Files
  <2>4. Readings'
    BY <2>f DEF Readings
  <2>5. Settled'
    BY <2>f DEF Settled
  <2> QED BY <2>1, <2>2, <2>3, <2>4, <2>5 DEF SInv
<1>8. ASSUME WriteFails(t) PROVE SInv'
  <2> USE <1>0, <1>i, <1>t, <1>8 DEF WriteFails, Return, Goto, memoryVars, threadVars, saveVars, fileVars, boundVars
  <2>f. ~(suspect') => onFailed[t] \in {"unlink", "untitle"}
    OBVIOUS
  <2>m. ~(suspect') => \A x \in Sessions : Pending(x)' = Pending(x) /\ (Renames(Pending(x))' <=> Renames(Pending(x)))
    BY <2>f DEF Listing, Pending, Renames, Unsettled
  <2>1. Creations'
    BY DEF Creations, Creating, Started, Known, CallerControl, WaiterControl, BootControl
  <2>2. Alone'
    BY DEF Alone, Unsettled
  <2>3. Files'
    BY DEF Files
  <2>4. Readings'
    BY ZenonT(60) DEF Readings, Reads, Listing, Renames, AlikeButTitle, Alone, Unsettled
  <2>5. Settled'
    BY <2>f, <2>m DEF Settled, Agrees
  <2> QED BY <2>1, <2>2, <2>3, <2>4, <2>5 DEF SInv
<1> QED BY <1>1, <1>2, <1>3, <1>4, <1>5, <1>6, <1>7, <1>8 DEF SaveStep

\* The daemon dies and starts.
LEMMA DaemonSaves ==
  ASSUME IInv, SInv, Crash \/ EnablePersistence \/ Serve \/ ExitAtBoot
  PROVE  SInv'
<1>0. Creations /\ Alone /\ Files /\ Readings /\ Settled
  BY DEF SInv
<1>i. TypeOK /\ CallerControl /\ WaiterControl /\ BootControl /\ Known
  BY DEF IInv, Control
<1>t. /\ sessions \subseteq Sessions /\ record \in [Sessions -> Record]
      /\ child \in [Sessions -> {"none", "alive", "dead", "orphan"}]
      /\ pc \in [Threads -> Places] /\ target \in [Threads -> Sessions \cup {NoSession}]
      /\ onSaved \in [Threads -> Places] /\ onFailed \in [Threads -> Places]
      /\ todo \in [Threads -> SUBSET Sessions] /\ snap \in [Threads -> Saves]
      /\ handle \in [Threads -> {"none", "temporary", "path", "unlinked"}]
      /\ suspect \in BOOLEAN
  BY <1>i DEF TypeOK
<1> USE ThreadsAreDistinct DEF ThreadsAssumption, Threads, NoSession, Saving
<1>1. ASSUME Crash PROVE SInv'
  <2> USE <1>0, <1>i, <1>t, <1>1 DEF Crash, Forget, memoryVars, threadVars, saveVars, fileVars, boundVars
  <2>1. Creations'
    BY DEF Creations, Creating, Started, Known, CallerControl, WaiterControl, BootControl
  <2>2. Alone'
    BY DEF Alone, Unsettled
  <2>3. Files'
    BY DEF Files
  <2>4. Readings'
    BY DEF Readings, Reads, Listing, Renames, AlikeButTitle, Alone, Unsettled
  <2>5. Settled'
    BY DEF Settled, Agrees, Pending, Renames, Unsettled, AlikeButTitle
  <2> QED BY <2>1, <2>2, <2>3, <2>4, <2>5 DEF SInv
<1>2. ASSUME EnablePersistence PROVE SInv'
  <2> USE <1>0, <1>i, <1>t, <1>2 DEF EnablePersistence, Persist, memoryVars, threadVars, saveVars, fileVars, boundVars
  <2>q. \A u \in Threads : pc'[u] \in {"idle", "list"}
    BY DEF BootControl
  <2>1. Creations'
    BY DEF Creations, Creating, Started, Known, CallerControl, WaiterControl, BootControl
  <2>2. Alone'
    BY DEF Alone, Unsettled
  <2>3. Files'
    BY DEF Files
  <2>4. Readings'
    BY <2>q DEF Readings
  <2>5. Settled'
    BY DEF Settled, Agrees, Pending, Renames, Unsettled, AlikeButTitle
  <2> QED BY <2>1, <2>2, <2>3, <2>4, <2>5 DEF SInv
<1>3. ASSUME Serve PROVE SInv'
  <2> USE <1>0, <1>i, <1>t, <1>3 DEF Serve, Goto, memoryVars, threadVars, saveVars, fileVars, boundVars
  <2>1. Creations'
    BY DEF Creations, Creating, Started, Known, CallerControl, WaiterControl, BootControl
  <2>2. Alone'
    BY DEF Alone, Unsettled
  <2>3. Files'
    BY DEF Files
  <2>4. Readings'
    BY DEF Readings, Reads, Listing, Renames, AlikeButTitle, Alone, Unsettled
  <2>5. Settled'
    BY DEF Settled, Agrees, Pending, Renames, Unsettled, AlikeButTitle
  <2> QED BY <2>1, <2>2, <2>3, <2>4, <2>5 DEF SInv
<1>4. ASSUME ExitAtBoot PROVE SInv'
  <2> USE <1>0, <1>i, <1>t, <1>4 DEF ExitAtBoot, Forget, memoryVars, threadVars, saveVars, fileVars, boundVars
  <2>1. Creations'
    BY DEF Creations, Creating, Started, Known, CallerControl, WaiterControl, BootControl
  <2>2. Alone'
    BY DEF Alone, Unsettled
  <2>3. Files'
    BY DEF Files
  <2>4. Readings'
    BY DEF Readings, Reads, Listing, Renames, AlikeButTitle, Alone, Unsettled
  <2>5. Settled'
    BY DEF Settled, Agrees, Pending, Renames, Unsettled, AlikeButTitle
  <2> QED BY <2>1, <2>2, <2>3, <2>4, <2>5 DEF SInv
<1> QED BY <1>1, <1>2, <1>3, <1>4 DEF Next

\* The process of a session ends by itself.
LEMMA ExitSaves ==
  ASSUME IInv, SInv, NEW s \in Sessions, ChildExits(s)
  PROVE  SInv'
<1>0. Creations /\ Alone /\ Files /\ Readings /\ Settled
  BY DEF SInv
<1>i. TypeOK /\ CallerControl /\ WaiterControl /\ BootControl /\ Known
  BY DEF IInv, Control
<1>t. /\ sessions \subseteq Sessions /\ record \in [Sessions -> Record]
      /\ child \in [Sessions -> {"none", "alive", "dead", "orphan"}]
      /\ pc \in [Threads -> Places] /\ target \in [Threads -> Sessions \cup {NoSession}]
      /\ onSaved \in [Threads -> Places] /\ onFailed \in [Threads -> Places]
      /\ todo \in [Threads -> SUBSET Sessions] /\ snap \in [Threads -> Saves]
      /\ handle \in [Threads -> {"none", "temporary", "path", "unlinked"}]
      /\ suspect \in BOOLEAN
  BY <1>i DEF TypeOK
<1> USE ThreadsAreDistinct DEF ThreadsAssumption, Threads, NoSession, Saving
<1>1. ASSUME ChildExits(s) PROVE SInv'
  <2> USE <1>0, <1>i, <1>t, <1>1 DEF ChildExits, Dies, memoryVars, threadVars, saveVars, fileVars, boundVars
  <2>1. Creations'
    BY DEF Creations, Creating, Started, Known, CallerControl, WaiterControl, BootControl
  <2>2. Alone'
    BY DEF Alone, Unsettled
  <2>3. Files'
    BY DEF Files
  <2>4. Readings'
    BY DEF Readings, Reads, Listing, Renames, AlikeButTitle, Alone, Unsettled
  <2>5. Settled'
    BY DEF Settled, Agrees, Pending, Renames, Unsettled, AlikeButTitle
  <2> QED BY <2>1, <2>2, <2>3, <2>4, <2>5 DEF SInv
<1> QED BY <1>1 DEF Next

\* Before the daemon has ever started there is nothing to save.
LEMMA InitSettles == Init => SInv
<1> SUFFICES ASSUME Init PROVE SInv
  OBVIOUS
<1> USE ThreadsAreDistinct DEF ThreadsAssumption, Init, Threads, Saving
<1>1. Creations /\ Alone
  BY DEF Creations, Creating, Alone, Unsettled
<1>2. Files /\ Readings /\ Settled
  BY DEF Files, Readings, Settled, Nowhere
<1> QED
  BY <1>1, <1>2 DEF SInv

\* Nothing the invariant speaks of is outside vars.
LEMMA StutterSettles == ASSUME SInv, UNCHANGED vars PROVE SInv'
<1> USE DEF vars
<1>1. Creations' /\ Alone' /\ Files'
  BY DEF SInv, Creations, Creating, Started, Alone, Files
<1>2. Readings'
  BY DEF SInv, Readings, Reads, Renames, Listing
<1>3. Settled'
  BY DEF SInv, Settled, Agrees, Renames, Pending
<1> QED
  BY <1>1, <1>2, <1>3 DEF SInv

\* Every step keeps the invariant of the saves.
LEMMA NextSettles == ASSUME IInv, SInv, [Next]_vars PROVE SInv'
<1>1. ASSUME NEW t \in Callers, Request(t) \/ CallerStep(t) PROVE SInv'
  BY <1>1, RequestSaves, CallerSaves
<1>2. ASSUME NEW s \in Sessions, ChildExits(s) \/ WaiterStep(s) PROVE SInv'
  BY <1>2, ExitSaves, WaiterSaves
<1>3. ASSUME NEW t \in Threads, SaveStep(t) \/ WriteFails(t) PROVE SInv'
  BY <1>3, SaveSaves
<1>4. ASSUME Crash \/ EnablePersistence \/ Serve \/ ExitAtBoot PROVE SInv'
  BY <1>4, DaemonSaves
<1>5. CASE UNCHANGED vars
  BY <1>5, StutterSettles
<1> QED
  BY <1>1, <1>2, <1>3, <1>4, <1>5 DEF Next

\* It holds in every reachable state.
LEMMA SavesInvariance == Spec => []SInv
  BY InitSettles, NextSettles, Invariance, PTL DEF Spec

\* The state file is a whole document at every moment the daemon may die, unless
\* two persists overlapped (persist 666-672).
THEOREM StateFileIsWhole == Spec => []StateFileWhole
<1>1. SInv => StateFileWhole
  BY DEF SInv, Files, StateFileWhole
<1> QED
  BY <1>1, SavesInvariance, PTL

\* What the last finished operation on a session did is what a restart would load,
\* unless two persists overlapped or one failed with nothing to take back
\* (manager.go 294-503, 638-675).
THEOREM AcknowledgedIsKept == Spec => []AcknowledgedIsSaved
<1>1. ASSUME IInv, SInv PROVE AcknowledgedIsSaved
  <2> SUFFICES ASSUME up, ~suspect, NEW s \in Sessions, Untouched(s)
               PROVE  /\ s \in sessions <=> s \in DOMAIN path.data
                      /\ s \in sessions => record[s] = path.data[s]
    BY DEF AcknowledgedIsSaved, OnDisk
  <2>1. Pending(s) = {} /\ Renames(Pending(s))
    BY DEF Untouched, Pending, Renames, Unsettled, Saving
  <2>2. Agrees(s)
    BY <1>1, <2>1 DEF SInv, Settled
  <2>3. s \in sessions => record[s] \in Record /\ path.data[s] \in Record
    BY <1>1, <2>2, SavesFacts DEF IInv, TypeOK, Agrees
  <2>4. s \in sessions => record[s] = path.data[s]
    BY <2>1, <2>2, <2>3, SameRecord DEF Agrees
  <2> QED
    BY <2>2, <2>4 DEF Agrees
<1> QED
  BY <1>1, Invariance, SavesInvariance, PTL
==============================================================================
