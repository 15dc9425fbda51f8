---------------------------- MODULE TorrentProofs -----------------------------
(***************************************************************************)
(* Proofs about TorrentSession for any torrents, copies of torrents, calls *)
(* and timers: who is responsible for a managed torrent is never in doubt. *)
(***************************************************************************)
EXTENDS TorrentSession, TLAPS

\* The id call c has taken for itself: just given out and not in the map yet,
\* or taken out of the map to be deleted.
Holds(c, i) == hand[c] = i /\ phase[c] \in {"insert", "delete"}

\* What is managed was given out, and each content is managed once.
Library ==
    /\ \A i \in session : i <= last
    /\ \A i, j \in session : Info[of[i]] = Info[of[j]] => i = j

\* What a timer or a call has taken is managed, and nobody else has it.
Taken ==
    /\ closing \subseteq session
    /\ \A c \in Calls, i \in Ids : Holds(c, i) => i \in session \ closing
    /\ \A c, d \in Calls, i \in Ids : Holds(c, i) /\ Holds(d, i) => c = d
    /\ \A c \in Calls : phase[c] = "insert" =>
          hand[c] \in Ids /\ of[hand[c]] = on[c]

Inv == TypeOK /\ Library /\ Taken /\ NothingOrphaned /\ NothingDangling

-------------------------------------------------------------------------------
\* The value a call's variable has before it names a torrent is a torrent.
LEMMA UnsetTorrent == Unset \in Torrents
BY TorrentAssumption DEF Unset

\* Ids are positive numbers up to the last one.
LEMMA IdFacts ==
    /\ NoId \notin Ids
    /\ {MaxViews, MaxTimers, MaxIds} \subseteq Nat
    /\ \A n \in Nat : n < MaxIds => n + 1 \in Ids
BY TorrentAssumption DEF Ids, NoId

\* The initial states satisfy the invariant.
LEMMA InitInv == Init => Inv
<1> SUFFICES ASSUME Init PROVE Inv
  OBVIOUS
<1> USE TorrentAssumption, UnsetTorrent, IdFacts DEF Init
<1>1. TypeOK
  <2>1. 0 \in 0..MaxViews /\ 0 \in 0..MaxTimers /\ last \in 0..MaxIds
    OBVIOUS
  <2>2. /\ torrents \in [Torrents -> Ids \union {NoId}]
        /\ hand \in [Calls -> Ids \union {NoId}]
        /\ on \in [Calls -> Torrents]
        /\ of \in [Ids -> Torrents]
    OBVIOUS
  <2> QED BY <2>1, <2>2 DEF TypeOK
<1>2. Library
  BY DEF Library
<1>3. Taken
  BY DEF Taken, Holds
<1>4. NothingOrphaned /\ NothingDangling
  BY DEF NothingOrphaned, NothingDangling
<1> QED
  BY <1>1, <1>2, <1>3, <1>4 DEF Inv

\* Types are preserved by every step.
LEMMA TypeStep == TypeOK /\ [Next]_vars => TypeOK'
<1> SUFFICES ASSUME TypeOK, [Next]_vars PROVE TypeOK'
  OBVIOUS
<1> USE TorrentAssumption, UnsetTorrent, IdFacts
    DEF TypeOK, engine, timing, calls, library, Begin, Return, Clicked
<1>1. ASSUME NEW t \in Torrents, Acquire(t) PROVE TypeOK'
  BY <1>1 DEF Acquire
<1>2. ASSUME NEW t \in Torrents, Release(t) PROVE TypeOK'
  BY <1>2 DEF Release
<1>3. ASSUME NEW t \in Torrents, Fire(t) PROVE TypeOK'
  BY <1>3 DEF Fire
<1>4. CASE DeleteClosed
  BY <1>4 DEF DeleteClosed
<1>5. ASSUME NEW c \in Calls, NEW t \in Torrents, Start(c, t) PROVE TypeOK'
  BY <1>5 DEF Start
<1>6. ASSUME NEW c \in Calls, NEW t \in Torrents, Resume(c, t) PROVE TypeOK'
  BY <1>6 DEF Resume
<1>7. ASSUME NEW c \in Calls, NEW t \in Torrents, Stop(c, t) PROVE TypeOK'
  BY <1>7 DEF Stop
<1>8. ASSUME NEW c \in Calls, NEW t \in Torrents, Cleanup(c, t) PROVE TypeOK'
  BY <1>8 DEF Cleanup
<1>9. ASSUME NEW c \in Calls, EnsureSession(c) PROVE TypeOK'
  BY <1>9 DEF EnsureSession
<1>10. ASSUME NEW c \in Calls, AddTorrent(c) PROVE TypeOK'
  BY <1>10 DEF AddTorrent
<1>11. ASSUME NEW c \in Calls, StartFails(c) PROVE TypeOK'
  BY <1>11 DEF StartFails
<1>12. ASSUME NEW c \in Calls, Insert(c) PROVE TypeOK'
  BY <1>12 DEF Insert
<1>13. ASSUME NEW c \in Calls, Pause(c) PROVE TypeOK'
  BY <1>13 DEF Pause
<1>14. ASSUME NEW c \in Calls, DeleteCleaned(c) PROVE TypeOK'
  BY <1>14 DEF DeleteCleaned
<1>15. ASSUME NEW c \in Calls, Wipe(c) PROVE TypeOK'
  BY <1>15 DEF Wipe
<1>16. CASE Quit
  <2>1. 0 \in 0..MaxViews /\ 0 \in 0..MaxTimers
    OBVIOUS
  <2>2. /\ refs' \in [Torrents -> 0..MaxViews]
        /\ timers' \in [Torrents -> 0..MaxTimers]
        /\ torrents' \in [Torrents -> Ids \union {NoId}]
        /\ hand' \in [Calls -> Ids \union {NoId}]
        /\ on' \in [Calls -> Torrents]
    BY <1>16, <2>1 DEF Quit
  <2> QED BY <1>16, <2>2 DEF Quit
<1>17. CASE UNCHANGED vars
  BY <1>17 DEF vars
<1> QED
  BY <1>1, <1>2, <1>3, <1>4, <1>5, <1>6, <1>7, <1>8, <1>9, <1>10, <1>11,
     <1>12, <1>13, <1>14, <1>15, <1>16, <1>17
     DEF Next, View, Click, Continue, Timer

-------------------------------------------------------------------------------
\* A step that moves no id between the map, the timers and the calls.
Apart ==
    /\ UNCHANGED <<torrents, closing, session, of, last>>
    /\ \A c \in Calls, i \in Ids : Holds(c, i)' <=> Holds(c, i)
    /\ \A c \in Calls : phase'[c] = "insert" =>
          phase[c] = "insert" /\ hand'[c] = hand[c] /\ on'[c] = on[c]

\* Such a step changes nothing the ownership of ids depends on.
LEMMA ApartStep == Inv /\ TypeOK' /\ Apart => Inv'
<1> SUFFICES ASSUME Inv, TypeOK', Apart PROVE Inv'
  OBVIOUS
<1> USE DEF Apart
<1>1. \A i \in Ids : InHand(i)' <=> InHand(i)
  BY DEF InHand, Holds
<1>2. Library'
  BY DEF Inv, Library
<1>3. Taken'
  BY DEF Inv, Taken
<1>4. NothingOrphaned'
  BY <1>1 DEF Inv, TypeOK, NothingOrphaned, Mapped
<1>5. NothingDangling'
  BY <1>1 DEF Inv, TypeOK, NothingDangling
<1> QED
  BY <1>2, <1>3, <1>4, <1>5 DEF Inv

\* The steps around the engine, and those of calls that hold no id.
LEMMA OutsideStep ==
    ASSUME TypeOK,
           \/ \E t \in Torrents : Acquire(t) \/ Release(t)
           \/ \E c \in Calls, t \in Torrents :
                 Start(c, t) \/ Resume(c, t) \/ Stop(c, t)
           \/ \E c \in Calls :
                 EnsureSession(c) \/ StartFails(c) \/ Pause(c) \/ Wipe(c)
           \/ UNCHANGED vars
    PROVE  Apart
<1> USE DEF TypeOK, Apart, Holds, engine, timing, calls, library, Begin, Return,
            Clicked
<1>1. ASSUME NEW t \in Torrents, Acquire(t) \/ Release(t) PROVE Apart
  BY <1>1 DEF Acquire, Release
<1>2. ASSUME NEW c \in Calls, NEW t \in Torrents,
             Start(c, t) \/ Resume(c, t) \/ Stop(c, t)
      PROVE  Apart
  BY <1>2 DEF Start, Resume, Stop
<1>3. ASSUME NEW c \in Calls, EnsureSession(c) \/ StartFails(c) PROVE Apart
  BY <1>3 DEF EnsureSession, StartFails
<1>4. ASSUME NEW c \in Calls, Pause(c) \/ Wipe(c) PROVE Apart
  BY <1>4 DEF Pause, Wipe
<1>5. CASE UNCHANGED vars
  BY <1>5 DEF vars
<1> QED
  BY <1>1, <1>2, <1>3, <1>4, <1>5

-------------------------------------------------------------------------------
\* A timer takes a torrent out of the map.
LEMMA FireStep ==
    ASSUME Inv, TypeOK', NEW t \in Torrents, Fire(t)
    PROVE  Inv'
<1> DEFINE i == torrents[t]
<1> USE DEF Fire, TypeOK, Inv, calls, library
<1>1. CASE refs[t] = 0 /\ i # NoId
  <2>1. i \in Ids /\ i \in session /\ of[i] = t /\ i \notin closing /\ ~InHand(i)
    BY <1>1 DEF NothingDangling
  <2>2. \A j \in Ids : InHand(j)' <=> InHand(j)
    BY DEF InHand
  <2>3. Library'
    BY DEF Library
  <2>4. Taken'
    <3>1. \A c \in Calls : ~Holds(c, i)
      BY <2>1 DEF InHand, Holds
    <3> QED BY <1>1, <2>1, <3>1 DEF Taken, Holds
  <2>5. NothingOrphaned'
    <3> SUFFICES ASSUME NEW j \in session
                 PROVE  Mapped(j)' \/ j \in closing' \/ InHand(j)'
      BY DEF NothingOrphaned
    <3>1. CASE Mapped(j)
      <4>1. PICK u \in Torrents : torrents[u] = j
        BY <3>1 DEF Mapped
      <4>2. CASE u = t
        BY <1>1, <4>1, <4>2
      <4>3. CASE u # t
        BY <1>1, <4>1, <4>3 DEF Mapped
      <4> QED BY <4>2, <4>3
    <3>2. CASE j \in closing \/ InHand(j)
      BY <1>1, <2>2, <3>2
    <3> QED BY <3>1, <3>2 DEF NothingOrphaned
  <2>6. NothingDangling'
    <3>1. \A u \in Torrents : torrents'[u] = IF u = t THEN NoId ELSE torrents[u]
      BY <1>1
    <3>2. \A u \in Torrents \ {t} : torrents[u] # NoId =>
             torrents[u] # i /\ torrents[u] \in Ids
      BY <2>1 DEF NothingDangling
    <3> QED BY <1>1, <2>2, <3>1, <3>2 DEF NothingDangling
  <2> QED BY <2>3, <2>4, <2>5, <2>6
<1>2. CASE ~(refs[t] = 0 /\ i # NoId)
  <2>1. Apart
    BY <1>2 DEF Apart, Holds
  <2> QED BY <2>1, ApartStep
<1> QED BY <1>1, <1>2

\* The session forgets what a timer has closed.
LEMMA DeleteClosedStep ==
    ASSUME Inv, TypeOK', DeleteClosed
    PROVE  Inv'
<1> USE DEF TypeOK, Inv, engine, calls
<1>1. PICK i \in closing :
         /\ closing' = closing \ {i}
         /\ session' = session \ {i}
         /\ UNCHANGED <<engine, calls, of, last>>
  BY DEF DeleteClosed
<1>2. i \in Ids /\ \A c \in Calls : ~Holds(c, i)
  BY DEF Taken
<1>3. \A j \in Ids : (InHand(j)' <=> InHand(j)) /\ (Mapped(j)' <=> Mapped(j))
  BY <1>1 DEF InHand, Mapped
<1>4. Library'
  BY <1>1 DEF Library
<1>5. Taken'
  BY <1>1, <1>2 DEF Taken, Holds
<1>6. NothingOrphaned'
  BY <1>1, <1>3 DEF NothingOrphaned
<1>7. NothingDangling'
  BY <1>1, <1>3 DEF NothingDangling
<1> QED BY <1>4, <1>5, <1>6, <1>7

\* A new torrent is in the hands of the call that added it.
LEMMA AddStep ==
    ASSUME Inv, TypeOK', NEW c \in Calls, AddTorrent(c)
    PROVE  Inv'
<1> DEFINE i == last'
<1> USE DEF TypeOK, Inv, engine, timing
<1>1. i \in Ids /\ i = last + 1 /\ i \notin session
  BY IdFacts, TorrentAssumption DEF AddTorrent, Library
<1>2. /\ session' = session \union {i}
      /\ of' = [of EXCEPT ![i] = on[c]]
      /\ hand' = [hand EXCEPT ![c] = i]
      /\ phase' = [phase EXCEPT ![c] = "insert"]
      /\ UNCHANGED <<engine, timing, on>>
      /\ phase[c] = "add"
      /\ ~Managed(Info[on[c]])
  BY DEF AddTorrent
<1>3. /\ \A j \in Ids : ~Holds(c, j)
      /\ \A j \in Ids : Holds(c, j)' <=> j = i
      /\ \A d \in Calls \ {c}, j \in Ids : Holds(d, j)' <=> Holds(d, j)
  BY <1>1, <1>2 DEF Holds
<1>4. \A j \in Ids : InHand(j)' <=> InHand(j) \/ j = i
  BY <1>3 DEF InHand, Holds
<1>5. Library'
  <2>1. \A j \in session' : j <= last'
    BY <1>1, <1>2 DEF Library, Ids
  <2>2. \A j \in session : of'[j] = of[j] /\ Info[of[j]] # Info[on[c]]
    BY <1>1, <1>2 DEF Managed
  <2>3. of'[i] = on[c]
    BY <1>1, <1>2
  <2> QED BY <1>2, <2>1, <2>2, <2>3 DEF Library
<1>6. Taken'
  <2>1. closing' \subseteq session' /\ i \notin closing'
    BY <1>1, <1>2 DEF Taken
  <2>2. \A d \in Calls, j \in Ids : Holds(d, j)' => j \in session' \ closing'
    BY <1>2, <1>3, <2>1 DEF Taken
  <2>3. \A d, e \in Calls, j \in Ids : Holds(d, j)' /\ Holds(e, j)' => d = e
    <3>1. \A d \in Calls : ~Holds(d, i)
      BY <1>1 DEF Taken
    <3>2. \A d, e \in Calls, j \in Ids : Holds(d, j) /\ Holds(e, j) => d = e
      BY DEF Taken
    <3> HIDE DEF Inv, TypeOK, engine, timing
    <3> QED BY <1>1, <1>3, <3>1, <3>2
  <2>4. \A d \in Calls : phase'[d] = "insert" =>
           hand'[d] \in Ids /\ of'[hand'[d]] = on'[d]
    <3> SUFFICES ASSUME NEW d \in Calls, phase'[d] = "insert"
                 PROVE  hand'[d] \in Ids /\ of'[hand'[d]] = on'[d]
      OBVIOUS
    <3>1. CASE d = c
      BY <1>1, <1>2, <3>1
    <3>2. CASE d # c
      <4>1. phase[d] = "insert" /\ hand'[d] = hand[d]
        BY <1>2, <3>2
      <4>2. hand[d] \in session /\ of[hand[d]] = on[d]
        BY <4>1 DEF Taken, Holds
      <4> QED BY <1>1, <1>2, <4>1, <4>2
    <3> QED BY <3>1, <3>2
  <2> QED BY <2>1, <2>2, <2>3, <2>4 DEF Taken
<1>7. NothingOrphaned'
  BY <1>1, <1>2, <1>4 DEF NothingOrphaned, Mapped
<1>8. NothingDangling'
  <2>1. \A t \in Torrents : torrents[t] # i
    BY <1>1, IdFacts DEF NothingDangling
  <2> QED BY <1>1, <1>2, <1>4, <2>1 DEF NothingDangling
<1> QED BY <1>5, <1>6, <1>7, <1>8

\* A call puts what it added into the map, where nothing was.
LEMMA InsertStep ==
    ASSUME Inv, TypeOK', NEW c \in Calls, Insert(c)
    PROVE  Inv'
<1> DEFINE i == hand[c]
           t == on[c]
<1> USE DEF TypeOK, Inv, timing, library
<1>1. /\ torrents' = [torrents EXCEPT ![t] = i]
      /\ phase' = [phase EXCEPT ![c] = "idle"]
      /\ hand' = [hand EXCEPT ![c] = NoId]
      /\ on' = [on EXCEPT ![c] = Unset]
      /\ phase[c] = "insert"
      /\ UNCHANGED <<timing, library>>
  BY DEF Insert, Return, Begin
<1>2. Holds(c, i) /\ i \in session \ closing /\ of[i] = t /\ t \in Torrents
  BY <1>1 DEF Taken, Holds
<1>3. torrents[t] = NoId
  <2> SUFFICES ASSUME torrents[t] # NoId PROVE FALSE
    OBVIOUS
  <2>1. torrents[t] \in session /\ of[torrents[t]] = t /\ ~InHand(torrents[t])
    BY <1>2 DEF NothingDangling
  <2>2. torrents[t] = i
    BY <1>2, <2>1 DEF Library
  <2> QED BY <1>2, <2>1, <2>2 DEF InHand, Holds
<1>4. \A d \in Calls, j \in Ids : Holds(d, j)' <=> d # c /\ Holds(d, j)
  BY <1>1, IdFacts DEF Holds
<1>5. \A j \in Ids : InHand(j)' <=> InHand(j) /\ j # i
  <2>1. \A d \in Calls : Holds(d, i) => d = c
    BY <1>2 DEF Taken
  <2>2. \A j \in Ids : Holds(c, j) => j = i
    BY DEF Holds
  <2>3. \A j \in Ids : InHand(j) <=> \E d \in Calls : Holds(d, j)
    BY DEF InHand, Holds
  <2>4. \A j \in Ids : InHand(j)' <=> \E d \in Calls : Holds(d, j)'
    BY DEF InHand, Holds
  <2> QED BY <1>4, <2>1, <2>2, <2>3, <2>4
<1>6. Library'
  BY <1>1 DEF Library
<1>7. Taken'
  BY <1>1, <1>4 DEF Taken
<1>8. NothingOrphaned'
  <2>1. \A j \in Ids : Mapped(j) => Mapped(j)'
    BY <1>1, <1>3, IdFacts DEF Mapped
  <2>2. \A j \in Ids : j = i => Mapped(j)'
    BY <1>1, <1>2 DEF Mapped
  <2> QED BY <1>1, <1>5, <2>1, <2>2 DEF NothingOrphaned
<1>9. NothingDangling'
  <2>1. \A u \in Torrents : torrents'[u] = IF u = t THEN i ELSE torrents[u]
    BY <1>1, <1>2
  <2> QED BY <1>1, <1>2, <1>5, <2>1 DEF NothingDangling
<1> QED BY <1>6, <1>7, <1>8, <1>9

\* A clean-up takes the torrent out of the map.
LEMMA CleanupStep ==
    ASSUME Inv, TypeOK', NEW c \in Calls, NEW t \in Torrents, Cleanup(c, t)
    PROVE  Inv'
<1> DEFINE i == torrents[t]
<1> USE DEF TypeOK, Inv, timing, library
<1>1. /\ torrents' = [torrents EXCEPT ![t] = NoId]
      /\ phase[c] = "idle"
      /\ UNCHANGED <<timing, library>>
  BY DEF Cleanup, Clicked
<1>2. CASE i = NoId
  <2>1. torrents' = torrents /\ phase'[c] = "wipe"
    BY <1>1, <1>2 DEF Cleanup, Begin
  <2>2. Apart
    BY <1>1, <1>2, <2>1 DEF Cleanup, Begin, Apart, Holds
  <2> QED BY <2>2, ApartStep
<1>3. CASE i # NoId
  <2>1. /\ phase' = [phase EXCEPT ![c] = "delete"]
        /\ hand' = [hand EXCEPT ![c] = i]
        /\ on' = [on EXCEPT ![c] = t]
    BY <1>3 DEF Cleanup, Begin
  <2>2. i \in Ids /\ i \in session \ closing /\ of[i] = t /\ ~InHand(i)
    BY <1>3 DEF NothingDangling
  <2>3. /\ \A j \in Ids : ~Holds(c, j) /\ (Holds(c, j)' <=> j = i)
        /\ \A d \in Calls \ {c}, j \in Ids : Holds(d, j)' <=> Holds(d, j)
    BY <1>1, <2>1, <2>2 DEF Holds
  <2>4. \A d \in Calls : ~Holds(d, i)
    BY <2>2 DEF InHand, Holds
  <2>5. \A j \in Ids : InHand(j)' <=> InHand(j) \/ j = i
    BY <2>3 DEF InHand, Holds
  <2>6. \A u \in Torrents : torrents'[u] = IF u = t THEN NoId ELSE torrents[u]
    BY <1>1
  <2>7. Library'
    BY <1>1 DEF Library
  <2>8. Taken'
    <3>1. \A d \in Calls, j \in Ids : Holds(d, j)' => j \in session' \ closing'
      BY <1>1, <2>2, <2>3 DEF Taken
    <3>2. \A d, e \in Calls, j \in Ids : Holds(d, j)' /\ Holds(e, j)' => d = e
      BY <2>3, <2>4 DEF Taken
    <3>3. \A d \in Calls : phase'[d] = "insert" =>
             hand'[d] \in Ids /\ of'[hand'[d]] = on'[d]
      BY <1>1, <2>1 DEF Taken
    <3> QED BY <1>1, <3>1, <3>2, <3>3 DEF Taken
  <2>9. NothingOrphaned'
    <3>1. \A j \in Ids : Mapped(j) => Mapped(j)' \/ j = i
      BY <2>6 DEF Mapped
    <3> QED BY <1>1, <2>5, <3>1 DEF NothingOrphaned
  <2>10. NothingDangling'
    <3>1. \A u \in Torrents \ {t} : torrents[u] # NoId =>
             torrents[u] # i /\ torrents[u] \in Ids
      BY <2>2 DEF NothingDangling
    <3> QED BY <1>1, <2>5, <2>6, <3>1 DEF NothingDangling
  <2> QED BY <2>7, <2>8, <2>9, <2>10
<1> QED BY <1>2, <1>3

\* The session forgets what a clean-up has taken out of the map.
LEMMA DeleteCleanedStep ==
    ASSUME Inv, TypeOK', NEW c \in Calls, DeleteCleaned(c)
    PROVE  Inv'
<1> DEFINE i == hand[c]
<1> USE DEF TypeOK, Inv, engine, timing
<1>1. /\ session' = session \ {i}
      /\ phase' = [phase EXCEPT ![c] = "wipe"]
      /\ hand' = [hand EXCEPT ![c] = NoId]
      /\ phase[c] = "delete"
      /\ UNCHANGED <<engine, timing, on, of, last>>
  BY DEF DeleteCleaned
<1>2. \A d \in Calls, j \in Ids : Holds(d, j)' <=> d # c /\ Holds(d, j)
  BY <1>1, IdFacts DEF Holds
<1>3. \A d \in Calls \ {c}, j \in Ids : Holds(d, j) => j # i
  BY <1>1 DEF Taken, Holds
<1>4. \A j \in Ids : InHand(j)' <=> InHand(j) /\ j # i
  <2>1. \A j \in Ids : InHand(j) <=> \E d \in Calls : Holds(d, j)
    BY DEF InHand, Holds
  <2>2. \A j \in Ids : InHand(j)' <=> \E d \in Calls : Holds(d, j)'
    BY DEF InHand, Holds
  <2>3. \A j \in Ids : Holds(c, j) => j = i
    BY DEF Holds
  <2>4. \A j \in Ids, d \in Calls : d # c /\ Holds(d, j) => j # i
    BY <1>3
  <2> QED BY <1>2, <2>1, <2>2, <2>3, <2>4
<1>5. Library'
  BY <1>1 DEF Library
<1>6. Taken'
  <2>1. i \in Ids => i \notin closing
    BY <1>1 DEF Taken, Holds
  <2>2. \A d \in Calls, j \in Ids : Holds(d, j)' => j # i
    BY <1>2, <1>3
  <2> QED BY <1>1, <1>2, <2>1, <2>2 DEF Taken
<1>7. NothingOrphaned'
  BY <1>1, <1>4 DEF NothingOrphaned, Mapped
<1>8. NothingDangling'
  <2>1. \A t \in Torrents : torrents[t] # NoId => torrents[t] # i
    BY <1>1 DEF NothingDangling, InHand
  <2> QED BY <1>1, <1>4, <2>1 DEF NothingDangling
<1> QED BY <1>5, <1>6, <1>7, <1>8

\* The next process manages nothing yet.
LEMMA QuitStep ==
    ASSUME Inv, TypeOK', Quit
    PROVE  Inv'
<1> USE IdFacts DEF Quit, TypeOK, Inv
<1>1. \A c \in Calls, i \in Ids : ~Holds(c, i)'
  BY DEF Holds
<1>2. Library'
  BY DEF Library
<1>3. Taken'
  BY <1>1 DEF Taken
<1>4. NothingOrphaned' /\ NothingDangling'
  BY DEF NothingOrphaned, NothingDangling
<1> QED BY <1>2, <1>3, <1>4

\* Every step preserves the invariant.
LEMMA StepInv == Inv /\ [Next]_vars => Inv'
<1> SUFFICES ASSUME Inv, [Next]_vars PROVE Inv'
  OBVIOUS
<1>1. TypeOK /\ TypeOK'
  BY TypeStep DEF Inv
<1>2. ASSUME NEW t \in Torrents, Acquire(t) \/ Release(t) PROVE Inv'
  BY <1>1, <1>2, OutsideStep, ApartStep
<1>3. ASSUME NEW t \in Torrents, Fire(t) PROVE Inv'
  BY <1>1, <1>3, FireStep
<1>4. CASE DeleteClosed
  BY <1>1, <1>4, DeleteClosedStep
<1>5. ASSUME NEW c \in Calls, NEW t \in Torrents,
             Start(c, t) \/ Resume(c, t) \/ Stop(c, t)
      PROVE  Inv'
  BY <1>1, <1>5, OutsideStep, ApartStep
<1>6. ASSUME NEW c \in Calls, NEW t \in Torrents, Cleanup(c, t) PROVE Inv'
  BY <1>1, <1>6, CleanupStep
<1>7. ASSUME NEW c \in Calls,
             EnsureSession(c) \/ StartFails(c) \/ Pause(c) \/ Wipe(c)
      PROVE  Inv'
  BY <1>1, <1>7, OutsideStep, ApartStep
<1>8. ASSUME NEW c \in Calls, AddTorrent(c) PROVE Inv'
  BY <1>1, <1>8, AddStep
<1>9. ASSUME NEW c \in Calls, Insert(c) PROVE Inv'
  BY <1>1, <1>9, InsertStep
<1>10. ASSUME NEW c \in Calls, DeleteCleaned(c) PROVE Inv'
  BY <1>1, <1>10, DeleteCleanedStep
<1>11. CASE Quit
  BY <1>1, <1>11, QuitStep
<1>12. CASE UNCHANGED vars
  BY <1>1, <1>12, OutsideStep, ApartStep
<1> QED
  BY <1>2, <1>3, <1>4, <1>5, <1>6, <1>7, <1>8, <1>9, <1>10, <1>11, <1>12
     DEF Next, View, Click, Continue, Timer

\* The invariant holds in every state.
LEMMA Invariant == Spec => []Inv
BY InitInv, StepInv, PTL DEF Spec

-------------------------------------------------------------------------------
\* Every variable of the engine keeps its type: counts of views stay within
\* their bound and what runs in the session is managed there.
THEOREM TorrentTypes == Spec => []TypeOK
<1>1. Inv => TypeOK
  BY DEF Inv
<1> QED BY <1>1, Invariant, PTL

\* However starting, cleaning up and closing interleave, every torrent the
\* session manages is in the map or with the call or timer that works on it.
THEOREM NoOrphans == Spec => []NothingOrphaned
<1>1. Inv => NothingOrphaned
  BY DEF Inv
<1> QED BY <1>1, Invariant, PTL

\* The map names managed torrents only, each under its own path, and none that
\* a timer or a clean-up is about to delete.
THEOREM NoDangling == Spec => []NothingDangling
<1>1. Inv => NothingDangling
  BY DEF Inv
<1> QED BY <1>1, Invariant, PTL

\* Both at once.
THEOREM AllAccounted == Spec => []Accounted
<1>1. NothingOrphaned /\ NothingDangling => Accounted
  BY DEF Accounted
<1> QED BY <1>1, NoOrphans, NoDangling, PTL

\* Only a clean-up of that torrent removes downloaded data.
THEOREM DataStays == Spec => DataKept
<1> DEFINE Kept == \A t \in data \ data' :
              \E c \in Calls : on[c] = t /\ phase[c] \in {"delete", "wipe"}
<1>1. [Next]_vars => Kept
  <2> SUFFICES ASSUME Next, NEW t \in data \ data'
               PROVE  \E c \in Calls : on[c] = t /\ phase[c] \in {"delete", "wipe"}
    BY DEF vars
  <2> USE DEF library
  <2>1. ASSUME NEW u \in Torrents, View(u) \/ Fire(u) PROVE FALSE
    BY <2>1 DEF View, Acquire, Release, Fire
  <2>2. CASE DeleteClosed
    BY <2>2 DEF DeleteClosed
  <2>3. ASSUME NEW c \in Calls, NEW u \in Torrents, Click(c, u) PROVE FALSE
    BY <2>3 DEF Click, Start, Resume, Stop, Cleanup
  <2>4. ASSUME NEW c \in Calls, EnsureSession(c) \/ AddTorrent(c) PROVE FALSE
    BY <2>4 DEF EnsureSession, AddTorrent
  <2>5. ASSUME NEW c \in Calls, StartFails(c) \/ Insert(c) \/ Pause(c) PROVE FALSE
    BY <2>5 DEF StartFails, Insert, Pause
  <2>6. ASSUME NEW c \in Calls, DeleteCleaned(c) \/ Wipe(c)
        PROVE  on[c] = t /\ phase[c] \in {"delete", "wipe"}
    BY <2>6 DEF DeleteCleaned, Wipe
  <2>7. CASE Quit
    BY <2>7 DEF Quit
  <2> QED
    BY <2>1, <2>2, <2>3, <2>4, <2>5, <2>6, <2>7 DEF Next, Continue, Timer
<1> QED BY <1>1, PTL DEF Spec, DataKept

===============================================================================
