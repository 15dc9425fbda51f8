--------------------------- MODULE WebTerminalProofs ---------------------------
(***************************************************************************)
(* Proofs about WebTerminal for any number of clients and any capacities:  *)
(* what a client of the terminal has seen is never garbled, and what a     *)
(* client of the events shows is how the panel stands.                     *)
(***************************************************************************)
EXTENDS WebTerminal, SequenceTheorems, TLAPS

-------------------------------------------------------------------------------
(* The mirror and its clients.                                               *)

Attachment ==
    [phase : {"off", "replay", "live"}, replay : Seq(Nat), from : Nat, next : Nat,
     got : Seq(Nat), lagged : BOOLEAN]

TerminalTypes ==
    /\ shell \in BOOLEAN
    /\ printed \in Nat /\ taken \in Nat /\ dropped \in Nat /\ tapped \in Nat
    /\ mirrored \in Seq(Nat)
    /\ watch \in [Watchers -> Attachment]

\* The mirror holds what it took, in the order in which it was printed, and its
\* scrollback is never empty once something was printed.
Ordered ==
    /\ taken <= printed
    /\ Len(mirrored) <= taken
    /\ tapped \in {Len(mirrored), Len(mirrored) - 1}
    /\ dropped = IF Len(mirrored) > Scrollback THEN Len(mirrored) - Scrollback ELSE 0
    /\ \A i \in 1..Len(mirrored) : mirrored[i] <= taken
    /\ \A i, j \in 1..Len(mirrored) : i < j => mirrored[i] < mirrored[j]

\* s is what the mirror holds up to e, from some place on.
Piece(s, e) ==
    \E i \in 0..e :
        /\ Len(s) = e - i
        /\ e > 0 => i < e
        /\ \A k \in 1..Len(s) : s[k] = mirrored[i + k]

\* Where a client's next new chunk stands: behind the replay, and behind what it read.
End(w) == IF watch[w].next > watch[w].from THEN watch[w].next ELSE watch[w].from

Placed(w) ==
    /\ watch[w].next <= tapped
    /\ watch[w].from <= Len(mirrored)
    /\ watch[w].phase = "replay" =>
          /\ watch[w].next <= watch[w].from
          /\ ~watch[w].lagged
          /\ Piece(watch[w].replay, watch[w].from)
    /\ watch[w].phase = "live" /\ ~watch[w].lagged => Piece(watch[w].got, End(w))
    /\ watch[w].phase = "live" =>
          /\ Rising(watch[w].got)
          /\ \A k \in 1..Len(watch[w].got) :
                /\ watch[w].got[k] <= taken
                /\ \A j \in (End(w) + 1)..Len(mirrored) : watch[w].got[k] < mirrored[j]

TerminalInv == TerminalTypes /\ Ordered /\ \A w \in Watchers : Placed(w)

\* The capacities are numbers.
LEMMA Bounds == RawCapacity \in Nat /\ TapCapacity \in Nat /\ Scrollback \in Nat /\ Scrollback > 0
BY TerminalAssumption

\* The initial states have nothing out of place.
LEMMA InitTerminal == Init => TerminalInv
<1> SUFFICES ASSUME Init PROVE TerminalInv
  OBVIOUS
<1>1. NotAttached \in Attachment
  BY DEF NotAttached, Attachment
<1>2. TerminalTypes
  <2>1. watch \in [Watchers -> Attachment]
    BY <1>1 DEF Init
  <2>2. mirrored \in Seq(Nat)
    BY EmptySeq DEF Init
  <2> QED
    BY <2>1, <2>2 DEF Init, TerminalTypes
<1>3. Ordered
  BY Bounds DEF Init, Ordered
<1>4. ASSUME NEW w \in Watchers PROVE Placed(w)
  BY DEF Init, Placed, NotAttached
<1> QED
  BY <1>2, <1>3, <1>4 DEF TerminalInv

\* What the shell and the events do to the mirror and its clients: nothing.
LEMMA ElsewhereTerminal ==
    ASSUME TerminalInv, shell' \in BOOLEAN, printed' \in Nat, printed' >= printed,
           UNCHANGED <<taken, mirrored, dropped, tapped, watch>>
    PROVE  TerminalInv'
<1>1. TerminalTypes'
  BY DEF TerminalInv, TerminalTypes
<1>2. Ordered'
  BY DEF TerminalInv, TerminalTypes, Ordered
<1>3. ASSUME NEW w \in Watchers PROVE Placed(w)'
  BY DEF TerminalInv, Placed, Piece, End, Rising
<1> QED
  BY <1>1, <1>2, <1>3 DEF TerminalInv

\* A chunk taken is newer than all that the mirror and its clients have.
LEMMA TakeTerminal == TerminalInv /\ Take => TerminalInv'
<1> SUFFICES ASSUME TerminalInv, Take PROVE TerminalInv'
  OBVIOUS
<1> USE Bounds DEF TerminalInv, TerminalTypes
<1>1. /\ mirrored' \in Seq(Nat)
      /\ Len(mirrored') = Len(mirrored) + 1
      /\ \A i \in 1..Len(mirrored) : mirrored'[i] = mirrored[i]
      /\ mirrored'[Len(mirrored) + 1] = taken + 1
  BY AppendProperties DEF Take
<1>2. /\ taken' = taken + 1 /\ taken' \in Nat
      /\ UNCHANGED <<shell, printed, tapped, watch>>
      /\ Len(mirrored) \in Nat
  BY DEF Take, shellVars, watchVars
<1>3. TerminalTypes'
  BY <1>1, <1>2 DEF Take
<1>4. Ordered'
  <2>1. tapped = Len(mirrored) /\ taken < printed /\ Ordered /\ printed \in Nat /\ taken \in Nat
    BY DEF Take
  <2>2. dropped' = IF Len(mirrored) + 1 - dropped > Scrollback THEN dropped + 1 ELSE dropped
    BY DEF Take
  <2>3. dropped' = IF Len(mirrored') > Scrollback THEN Len(mirrored') - Scrollback ELSE 0
    <3> HIDE DEF TerminalInv, TerminalTypes
    <3>1. dropped = IF Len(mirrored) > Scrollback THEN Len(mirrored) - Scrollback ELSE 0
      BY <2>1 DEF Ordered
    <3>2. CASE Len(mirrored) > Scrollback
      BY <1>1, <1>2, <2>2, <3>1, <3>2
    <3>3. CASE ~(Len(mirrored) > Scrollback)
      BY <1>1, <1>2, <2>2, <3>1, <3>3
    <3> QED
      BY <3>2, <3>3
  <2>4. \A i \in 1..Len(mirrored) : mirrored[i] \in Nat
    BY ElementOfSeq
  <2>5. \A i \in 1..Len(mirrored') : mirrored'[i] <= taken'
    <3> HIDE DEF TerminalInv, TerminalTypes
    <3> SUFFICES ASSUME NEW i \in 1..Len(mirrored') PROVE mirrored'[i] <= taken'
      OBVIOUS
    <3>1. CASE i = Len(mirrored) + 1
      BY <1>1, <1>2, <2>1, <3>1
    <3>2. CASE i # Len(mirrored) + 1
      <4>1. i \in 1..Len(mirrored)
        BY <1>1, <1>2, <3>2
      <4>2. mirrored[i] <= taken /\ mirrored[i] \in Nat
        BY <2>1, <2>4, <4>1 DEF Ordered
      <4> QED
        BY <1>1, <1>2, <2>1, <4>1, <4>2
    <3> QED
      BY <3>1, <3>2
  <2>6. \A i, j \in 1..Len(mirrored') : i < j => mirrored'[i] < mirrored'[j]
    <3> SUFFICES ASSUME NEW i \in 1..Len(mirrored'), NEW j \in 1..Len(mirrored'), i < j
                 PROVE  mirrored'[i] < mirrored'[j]
      OBVIOUS
    <3> HIDE DEF TerminalInv, TerminalTypes
    <3>1. i \in 1..Len(mirrored) /\ mirrored'[i] = mirrored[i] /\ mirrored[i] <= taken
      <4>1. i \in 1..Len(mirrored)
        BY <1>1, <1>2
      <4> QED
        BY <1>1, <2>1, <4>1 DEF Ordered
    <3>2. CASE j = Len(mirrored) + 1
      BY <1>1, <2>1, <2>4, <3>1, <3>2
    <3>3. CASE j # Len(mirrored) + 1
      <4>1. j \in 1..Len(mirrored) /\ mirrored'[j] = mirrored[j]
        BY <1>1, <1>2, <3>3
      <4> QED
        BY <2>1, <3>1, <4>1 DEF Ordered
    <3> QED
      BY <3>2, <3>3
  <2>7. taken' <= printed' /\ Len(mirrored') <= taken' /\ tapped' = Len(mirrored') - 1
    BY <1>1, <1>2, <2>1 DEF Ordered
  <2> QED
    BY <2>3, <2>5, <2>6, <2>7 DEF Ordered
<1>5. ASSUME NEW w \in Watchers PROVE Placed(w)'
  <2>1. watch[w] \in Attachment
    OBVIOUS
  <2>2. watch[w].from \in Nat /\ watch[w].next \in Nat
    BY <2>1 DEF Attachment
  <2>3. Placed(w) /\ Ordered
    OBVIOUS
  <2>4. End(w) \in 0..Len(mirrored) /\ End(w)' = End(w)
    BY <1>2, <2>2, <2>3 DEF End, Placed, Ordered
  <2>5. ASSUME NEW s, NEW e \in 0..Len(mirrored), Len(s) \in Nat, Piece(s, e)
        PROVE  Piece(s, e)'
    <3>1. PICK i \in 0..e : Len(s) = e - i /\ (e > 0 => i < e)
                            /\ \A k \in 1..Len(s) : s[k] = mirrored[i + k]
      BY <2>5 DEF Piece
    <3>2. ASSUME NEW k \in 1..Len(s) PROVE s[k] = mirrored'[i + k]
      <4>1. i + k \in 1..Len(mirrored)
        BY <3>1, <1>2, <2>5
      <4> QED
        BY <3>1, <4>1, <1>1
    <3> QED
      BY <3>1, <3>2 DEF Piece
  <2>6. watch[w].replay \in Seq(Nat) /\ watch[w].got \in Seq(Nat)
    BY <2>1 DEF Attachment
  <2>7. Len(watch[w].replay) \in Nat /\ Len(watch[w].got) \in Nat
    BY <2>6, LenProperties
  <2>8. \A k \in 1..Len(watch[w].got) : watch[w].got[k] \in Nat
    BY <2>6, ElementOfSeq
  <2>9. watch[w].phase = "replay" => Piece(watch[w].replay, watch[w].from)'
    BY <2>2, <2>3, <2>5, <2>7, <1>2 DEF Placed
  <2>10. watch[w].phase = "live" /\ ~watch[w].lagged => Piece(watch[w].got, End(w))'
    BY <2>2, <2>3, <2>4, <2>5, <2>7, <1>2 DEF Placed
  <2>11. watch[w].phase = "live" =>
           /\ Rising(watch[w].got)
           /\ \A k \in 1..Len(watch[w].got) :
                /\ watch[w].got[k] <= taken'
                /\ \A j \in (End(w) + 1)..Len(mirrored') : watch[w].got[k] < mirrored'[j]
    <3> SUFFICES ASSUME watch[w].phase = "live", NEW k \in 1..Len(watch[w].got)
                 PROVE  /\ watch[w].got[k] <= taken'
                        /\ \A j \in (End(w) + 1)..Len(mirrored') : watch[w].got[k] < mirrored'[j]
      BY <2>3 DEF Placed
    <3>1. /\ watch[w].got[k] \in Nat /\ watch[w].got[k] <= taken
          /\ \A j \in (End(w) + 1)..Len(mirrored) : watch[w].got[k] < mirrored[j]
      BY <2>3, <2>8 DEF Placed
    <3>2. ASSUME NEW j \in (End(w) + 1)..Len(mirrored') PROVE watch[w].got[k] < mirrored'[j]
      <4>1. CASE j = Len(mirrored) + 1
        BY <1>1, <3>1, <4>1
      <4>2. CASE j # Len(mirrored) + 1
        <5>1. j \in (End(w) + 1)..Len(mirrored) /\ j \in 1..Len(mirrored)
          BY <1>1, <1>2, <2>4, <4>2
        <5> QED
          BY <1>1, <3>1, <5>1
      <4> QED
        BY <4>1, <4>2
    <3> QED
      BY <1>2, <3>1, <3>2
  <2> QED
    BY <1>1, <1>2, <2>2, <2>3, <2>4, <2>9, <2>10, <2>11 DEF Placed, Rising
<1> QED
  BY <1>3, <1>4, <1>5
\* The mirror is too slow for the shell: it goes on further down the channel.
LEMMA FallBehindTerminal == TerminalInv /\ FallBehind => TerminalInv'
<1> SUFFICES ASSUME TerminalInv, FallBehind PROVE TerminalInv'
  OBVIOUS
<1>1. /\ taken' = printed - RawCapacity /\ taken' \in Nat /\ taken' > taken /\ taken' <= printed
      /\ taken \in Nat /\ printed' = printed
  BY Bounds DEF FallBehind, TerminalInv, TerminalTypes, shellVars
<1>2. UNCHANGED <<shell, printed, mirrored, dropped, tapped, watch>>
  BY DEF FallBehind, shellVars, watchVars
<1>3. TerminalTypes'
  BY <1>1, <1>2 DEF TerminalInv, TerminalTypes
<1>4. Ordered'
  <2>1. \A i \in 1..Len(mirrored) : mirrored[i] \in Nat
    BY ElementOfSeq DEF TerminalInv, TerminalTypes
  <2>2. Len(mirrored) \in Nat /\ Ordered
    BY LenProperties DEF TerminalInv, TerminalTypes
  <2> QED
    BY <1>1, <1>2, <2>1, <2>2 DEF Ordered
<1>5. ASSUME NEW w \in Watchers PROVE Placed(w)'
  <2>1. Placed(w) /\ watch[w].got \in Seq(Nat)
    BY DEF TerminalInv, TerminalTypes, Attachment
  <2>2. \A k \in 1..Len(watch[w].got) : watch[w].got[k] \in Nat
    BY <2>1, ElementOfSeq
  <2>3. watch[w].phase = "live" => \A k \in 1..Len(watch[w].got) : watch[w].got[k] <= taken'
    BY <1>1, <2>1, <2>2 DEF Placed
  <2> QED
    BY <1>2, <2>1, <2>3 DEF Placed, Piece, End, Rising
<1> QED
  BY <1>3, <1>4, <1>5 DEF TerminalInv

\* The mirror passes a chunk on to those who are attached.
LEMMA TapTerminal == TerminalInv /\ Tap => TerminalInv'
<1> SUFFICES ASSUME TerminalInv, Tap PROVE TerminalInv'
  OBVIOUS
<1>1. /\ UNCHANGED <<shell, printed, taken, mirrored, dropped, watch>>
      /\ tapped < Len(mirrored) /\ tapped' = tapped + 1 /\ tapped \in Nat /\ Len(mirrored) \in Nat
  BY LenProperties DEF Tap, TerminalInv, TerminalTypes, shellVars, watchVars
<1>2. TerminalTypes'
  BY <1>1 DEF TerminalInv, TerminalTypes
<1>3. Ordered'
  BY <1>1 DEF TerminalInv, Ordered
<1>4. ASSUME NEW w \in Watchers PROVE Placed(w)'
  <2>1. watch[w].next \in Nat /\ watch[w].next <= tapped /\ Placed(w)
    BY DEF TerminalInv, TerminalTypes, Attachment, Placed
  <2>2. watch[w].next <= tapped'
    BY <1>1, <2>1
  <2> QED
    BY <1>1, <2>1, <2>2 DEF Placed, Piece, End, Rising
<1> QED
  BY <1>2, <1>3, <1>4 DEF TerminalInv

\* A step of one client leaves the mirror and the other clients alone.
LEMMA ClientTerminal ==
    ASSUME TerminalInv, NEW w \in Watchers, watch' = [watch EXCEPT ![w] = watch'[w]],
           UNCHANGED <<shell, printed, taken, mirrored, dropped, tapped>>,
           watch'[w] \in Attachment, Placed(w)'
    PROVE  TerminalInv'
<1>1. TerminalTypes'
  BY DEF TerminalInv, TerminalTypes
<1>2. Ordered'
  BY DEF TerminalInv, Ordered
<1>3. ASSUME NEW v \in Watchers PROVE Placed(v)'
  <2>1. CASE v = w
    BY <2>1
  <2>2. CASE v # w
    <3>1. watch'[v] = watch[v] /\ Placed(v)
      BY <2>2 DEF TerminalInv, TerminalTypes
    <3> QED
      BY <3>1 DEF Placed, Piece, End, Rising
  <2> QED
    BY <2>1, <2>2
<1> QED
  BY <1>1, <1>2, <1>3 DEF TerminalInv

\* What a client has before a step.
LEMMA ClientFacts ==
    ASSUME TerminalInv, NEW w \in Watchers
    PROVE  /\ watch[w] \in Attachment
           /\ watch[w].next \in Nat /\ watch[w].from \in Nat /\ watch[w].lagged \in BOOLEAN
           /\ watch[w].got \in Seq(Nat) /\ watch[w].replay \in Seq(Nat)
           /\ Len(mirrored) \in Nat /\ tapped \in Nat /\ tapped <= Len(mirrored)
           /\ watch[w].next <= tapped /\ watch[w].from <= Len(mirrored)
           /\ Placed(w)
<1>1. watch[w] \in Attachment /\ Placed(w)
  BY DEF TerminalInv, TerminalTypes
<1>2. mirrored \in Seq(Nat) /\ tapped \in Nat /\ Len(mirrored) \in Nat
  BY LenProperties DEF TerminalInv, TerminalTypes
<1>3. tapped <= Len(mirrored)
  BY <1>2 DEF TerminalInv, Ordered
<1> QED
  BY <1>1, <1>2, <1>3 DEF Attachment, Placed

\* The scrollback is a piece of what the mirror holds, up to its end.
LEMMA AttachTerminal == \A w \in Watchers : TerminalInv /\ Attach(w) => TerminalInv'
<1> SUFFICES ASSUME NEW w \in Watchers, TerminalInv, Attach(w) PROVE TerminalInv'
  OBVIOUS
<1> DEFINE len == Len(mirrored)
           kept == SubSeq(mirrored, dropped + 1, len)
<1>1. /\ watch' = [watch EXCEPT ![w] =
             [NotAttached EXCEPT !.phase = "replay", !.replay = kept, !.from = len,
                                 !.next = tapped]]
      /\ UNCHANGED <<shell, printed, taken, mirrored, dropped, tapped>>
  BY DEF Attach, mirrorVars
<1>2. /\ len \in Nat /\ tapped \in Nat /\ tapped <= len /\ dropped \in Nat
      /\ mirrored \in Seq(Nat)
  BY ClientFacts DEF TerminalInv, TerminalTypes
<1>3. dropped \in 0..len /\ (len > 0 => dropped < len)
  BY <1>2, Bounds DEF TerminalInv, Ordered
<1>4. \A i \in (dropped + 1)..len : mirrored[i] \in Nat
  BY <1>2, <1>3, ElementOfSeq
<1>5. /\ kept \in Seq(Nat)
      /\ Len(kept) = len - dropped
      /\ \A i \in 1..(len - dropped) : kept[i] = mirrored[dropped + i]
  <2> HIDE DEF len
  <2>1. dropped + 1 \in Int /\ len \in Int
    BY <1>2
  <2>2. /\ kept \in Seq(Nat)
        /\ Len(kept) = IF dropped + 1 <= len THEN len - (dropped + 1) + 1 ELSE 0
        /\ \A i \in 1..(len - (dropped + 1) + 1) : kept[i] = mirrored[(dropped + 1) + i - 1]
    BY <1>4, <2>1, SubSeqProperties
  <2> HIDE DEF kept
  <2> QED
    BY <1>2, <1>3, <2>2
<1>6. Piece(kept, len)
  <2> HIDE DEF kept, len
  <2> QED
    BY <1>2, <1>3, <1>5 DEF Piece
<1>7. watch'[w] = [phase |-> "replay", replay |-> kept, from |-> len, next |-> tapped,
                   got |-> <<>>, lagged |-> FALSE]
  BY <1>1 DEF TerminalInv, TerminalTypes, NotAttached
<1>8. watch'[w] \in Attachment
  BY <1>2, <1>5, <1>7, EmptySeq DEF Attachment
<1>9. Placed(w)'
  <2> HIDE DEF kept, len
  <2>1. /\ watch'[w].phase = "replay" /\ watch'[w].next = tapped /\ watch'[w].from = len
        /\ watch'[w].lagged = FALSE /\ watch'[w].replay = kept
    BY <1>7
  <2>2. Piece(watch[w].replay, watch[w].from)'
    BY <1>1, <1>6, <2>1 DEF Piece
  <2> QED
    BY <1>1, <1>2, <2>1, <2>2 DEF Placed, len
<1>10. watch' = [watch EXCEPT ![w] = watch'[w]]
  BY <1>1, <1>7 DEF TerminalInv, TerminalTypes
<1> QED
  BY <1>1, <1>8, <1>9, <1>10, ClientTerminal

\* The replay is what the client sees first.
LEMMA ReplayTerminal == \A w \in Watchers : TerminalInv /\ Replay(w) => TerminalInv'
<1> SUFFICES ASSUME NEW w \in Watchers, TerminalInv, Replay(w) PROVE TerminalInv'
  OBVIOUS
<1> DEFINE a == watch[w]
<1>1. /\ a.phase = "replay"
      /\ watch' = [watch EXCEPT ![w] = [a EXCEPT !.phase = "live", !.got = a.replay]]
      /\ UNCHANGED <<shell, printed, taken, mirrored, dropped, tapped>>
  BY DEF Replay, mirrorVars, shellVars, TerminalInv, TerminalTypes, Attachment
<1>2. a \in Attachment /\ Placed(w)
  BY ClientFacts
<1>3. watch'[w] = [a EXCEPT !.phase = "live", !.got = a.replay]
  BY <1>1 DEF TerminalInv, TerminalTypes
<1>4. watch'[w] \in Attachment
  BY <1>2, <1>3 DEF Attachment
<1>5. /\ watch'[w].phase = "live" /\ watch'[w].got = a.replay /\ watch'[w].next = a.next
      /\ watch'[w].from = a.from /\ watch'[w].lagged = a.lagged
  BY <1>2, <1>3 DEF Attachment
<1>6. a.next <= a.from /\ a.next \in Nat /\ a.from \in Nat /\ Piece(a.replay, a.from)
  BY <1>1, <1>2, ClientFacts DEF Placed
<1>7. End(w)' = a.from
  BY <1>5, <1>6 DEF End
<1>8. PICK i \in 0..a.from : /\ Len(a.replay) = a.from - i
                             /\ \A k \in 1..Len(a.replay) : a.replay[k] = mirrored[i + k]
  BY <1>6 DEF Piece
<1>9. ASSUME NEW k \in 1..Len(a.replay)
      PROVE  /\ a.replay[k] = mirrored[i + k] /\ i + k \in 1..a.from
             /\ i + k \in 1..Len(mirrored)
  <2>1. a.from <= Len(mirrored) /\ Len(mirrored) \in Nat
    BY ClientFacts
  <2> HIDE DEF a
  <2>2. i + k \in 1..a.from
    BY <1>6, <1>8
  <2> QED
    BY <1>6, <1>8, <2>1, <2>2
<1>10. \A j, k \in 1..Len(mirrored) : mirrored[j] <= taken /\ (j < k => mirrored[j] < mirrored[k])
  BY DEF TerminalInv, Ordered
<1>11. Rising(a.replay)
  <2> SUFFICES ASSUME NEW k \in 1..Len(a.replay) - 1 PROVE a.replay[k] < a.replay[k + 1]
    BY DEF Rising
  <2>1. k \in 1..Len(a.replay) /\ k + 1 \in 1..Len(a.replay) /\ i + k < i + (k + 1)
    BY <1>6, <1>8
  <2> QED
    BY <2>1, <1>9, <1>10
<1>12. ASSUME NEW k \in 1..Len(a.replay)
       PROVE  /\ a.replay[k] <= taken
              /\ \A j \in (a.from + 1)..Len(mirrored) : a.replay[k] < mirrored[j]
  <2>1. i + k \in 1..a.from /\ i + k \in 1..Len(mirrored) /\ a.replay[k] = mirrored[i + k]
    BY <1>9
  <2>2. ASSUME NEW j \in (a.from + 1)..Len(mirrored)
        PROVE  j \in 1..Len(mirrored) /\ i + k < j
    <3>1. Len(mirrored) \in Nat
      BY ClientFacts
    <3> HIDE DEF a
    <3> QED
      BY <1>6, <2>1, <3>1
  <2> QED
    BY <1>10, <2>1, <2>2
<1>13. Piece(watch[w].got, End(w))'
  BY <1>1, <1>5, <1>6, <1>7 DEF Piece
<1>14. Placed(w)'
  <2>1. a.next <= tapped /\ a.from <= Len(mirrored)
    BY ClientFacts
  <2> HIDE DEF a
  <2> QED
    BY <1>1, <1>5, <1>7, <1>11, <1>12, <1>13, <2>1 DEF Placed, Rising
<1>15. watch' = [watch EXCEPT ![w] = watch'[w]]
  BY <1>1, <1>3 DEF TerminalInv, TerminalTypes
<1> QED
  BY <1>1, <1>4, <1>14, <1>15, ClientTerminal

\* What the replay held is not shown again.
LEMMA SkipTerminal == \A w \in Watchers : TerminalInv /\ Skip(w) => TerminalInv'
<1> SUFFICES ASSUME NEW w \in Watchers, TerminalInv, Skip(w) PROVE TerminalInv'
  OBVIOUS
<1> DEFINE a == watch[w]
<1>1. /\ a.phase = "live" /\ Behind(w) \in 1..TapCapacity /\ a.next < a.from
      /\ watch' = [watch EXCEPT ![w] = [a EXCEPT !.next = a.next + 1]]
      /\ UNCHANGED <<shell, printed, taken, mirrored, dropped, tapped>>
  BY DEF Skip, mirrorVars, shellVars, TerminalInv, TerminalTypes, Attachment
<1>2. a \in Attachment /\ Placed(w) /\ a.next \in Nat /\ a.from \in Nat /\ tapped \in Nat
  BY ClientFacts
<1>3. watch'[w] = [a EXCEPT !.next = a.next + 1]
  BY <1>1 DEF TerminalInv, TerminalTypes
<1>4. watch'[w] \in Attachment
  <2>1. a.next + 1 \in Nat
    BY <1>2
  <2> QED
    BY <1>2, <1>3, <2>1 DEF Attachment
<1>5. /\ watch'[w].phase = "live" /\ watch'[w].got = a.got /\ watch'[w].next = a.next + 1
      /\ watch'[w].from = a.from /\ watch'[w].lagged = a.lagged
  BY <1>1, <1>2, <1>3 DEF Attachment
<1>6. End(w)' = a.from /\ End(w) = a.from /\ a.next + 1 <= tapped
  BY <1>1, <1>2, <1>5, Bounds DEF End, Behind
<1>7. Placed(w)'
  <2> HIDE DEF a
  <2>1. /\ a.phase = "live" /\ ~a.lagged => Piece(a.got, a.from)
        /\ Rising(a.got)
        /\ a.from <= Len(mirrored)
        /\ \A k \in 1..Len(a.got) :
              /\ a.got[k] <= taken
              /\ \A j \in (a.from + 1)..Len(mirrored) : a.got[k] < mirrored[j]
    BY <1>1, <1>2, <1>6 DEF Placed, a
  <2>2. a.phase = "live" /\ ~a.lagged => Piece(watch[w].got, End(w))'
    BY <1>1, <1>5, <1>6, <2>1 DEF Piece
  <2> QED
    BY <1>1, <1>5, <1>6, <2>1, <2>2 DEF Placed, Rising
<1>8. watch' = [watch EXCEPT ![w] = watch'[w]]
  BY <1>1, <1>3 DEF TerminalInv, TerminalTypes
<1> QED
  BY <1>1, <1>4, <1>7, <1>8, ClientTerminal

\* A client that lagged goes on further down the channel.
LEMMA LagTerminal == \A w \in Watchers : TerminalInv /\ Lag(w) => TerminalInv'
<1> SUFFICES ASSUME NEW w \in Watchers, TerminalInv, Lag(w) PROVE TerminalInv'
  OBVIOUS
<1> DEFINE a == watch[w]
<1>1. /\ a.phase = "live" /\ Behind(w) > TapCapacity
      /\ watch' = [watch EXCEPT ![w] = [a EXCEPT !.next = tapped - TapCapacity, !.lagged = TRUE]]
      /\ UNCHANGED <<shell, printed, taken, mirrored, dropped, tapped>>
  BY DEF Lag, mirrorVars, shellVars, TerminalInv, TerminalTypes, Attachment
<1>2. a \in Attachment /\ Placed(w) /\ a.next \in Nat /\ a.from \in Nat /\ tapped \in Nat
      /\ Len(mirrored) \in Nat /\ a.from <= Len(mirrored)
  BY ClientFacts
<1>3. watch'[w] = [a EXCEPT !.next = tapped - TapCapacity, !.lagged = TRUE]
  BY <1>1 DEF TerminalInv, TerminalTypes
<1>4. tapped - TapCapacity \in Nat /\ tapped - TapCapacity > a.next /\ tapped - TapCapacity <= tapped
  BY <1>1, <1>2, Bounds DEF Behind
<1>5. watch'[w] \in Attachment
  BY <1>2, <1>3, <1>4 DEF Attachment
<1>6. /\ watch'[w].phase = "live" /\ watch'[w].got = a.got /\ watch'[w].next = tapped - TapCapacity
      /\ watch'[w].from = a.from
  <2>1. DOMAIN a = {"phase", "replay", "from", "next", "got", "lagged"}
    BY <1>2 DEF Attachment
  <2>2. watch'[w].next = tapped - TapCapacity
    BY <1>3, <2>1
  <2>3. watch'[w].phase = a.phase
    BY <1>3, <2>1
  <2>4. watch'[w].got = a.got
    BY <1>3, <2>1
  <2>5. watch'[w].from = a.from
    BY <1>3, <2>1
  <2> QED
    BY <1>1, <2>2, <2>3, <2>4, <2>5
<1>7. watch'[w].lagged
  <2>1. DOMAIN a = {"phase", "replay", "from", "next", "got", "lagged"}
    BY <1>2 DEF Attachment
  <2> QED
    BY <1>3, <2>1
<1>8. End(w)' \in Nat /\ End(w) \in Nat /\ End(w)' >= End(w)
  BY <1>2, <1>4, <1>6 DEF End
<1>9. Placed(w)'
  <2> HIDE DEF a
  <2>1. /\ Rising(a.got)
        /\ \A k \in 1..Len(a.got) :
              /\ a.got[k] <= taken
              /\ \A j \in (End(w) + 1)..Len(mirrored) : a.got[k] < mirrored[j]
    BY <1>1, <1>2 DEF Placed, a
  <2>2. ASSUME NEW k \in 1..Len(a.got), NEW j \in (End(w)' + 1)..Len(mirrored)
        PROVE  a.got[k] < mirrored[j]
    <3>1. j \in (End(w) + 1)..Len(mirrored)
      BY <1>2, <1>8
    <3> QED
      BY <2>1, <3>1
  <2> QED
    BY <1>1, <1>2, <1>4, <1>6, <1>7, <2>1, <2>2 DEF Placed, Rising
<1>10. watch' = [watch EXCEPT ![w] = watch'[w]]
  BY <1>1, <1>3 DEF TerminalInv, TerminalTypes
<1> QED
  BY <1>1, <1>5, <1>9, <1>10, ClientTerminal

\* A client that leaves starts over.
LEMMA DetachTerminal == \A w \in Watchers : TerminalInv /\ Detach(w) => TerminalInv'
<1> SUFFICES ASSUME NEW w \in Watchers, TerminalInv, Detach(w) PROVE TerminalInv'
  OBVIOUS
<1>1. /\ watch' = [watch EXCEPT ![w] = NotAttached]
      /\ UNCHANGED <<shell, printed, taken, mirrored, dropped, tapped>>
  BY DEF Detach, mirrorVars, shellVars
<1>2. watch'[w] = NotAttached /\ NotAttached \in Attachment
  BY <1>1, EmptySeq DEF TerminalInv, TerminalTypes, NotAttached, Attachment
<1>3. Placed(w)'
  BY <1>1, <1>2, ClientFacts DEF NotAttached, Placed
<1>4. watch' = [watch EXCEPT ![w] = watch'[w]]
  BY <1>1, <1>2 DEF TerminalInv, TerminalTypes
<1> QED
  BY <1>1, <1>2, <1>3, <1>4, ClientTerminal

\* A chunk forwarded is the one behind what the client has, and newer.
LEMMA ForwardTerminal == \A w \in Watchers : TerminalInv /\ Forward(w) => TerminalInv'
<1> SUFFICES ASSUME NEW w \in Watchers, TerminalInv, Forward(w) PROVE TerminalInv'
  OBVIOUS
<1> DEFINE a == watch[w]
           x == mirrored[a.next + 1]
           got == Append(a.got, x)
<1>1. /\ a.phase = "live" /\ Behind(w) \in 1..TapCapacity /\ a.next >= a.from
      /\ watch' = [watch EXCEPT ![w] = [a EXCEPT !.next = a.next + 1, !.got = got]]
      /\ UNCHANGED <<shell, printed, taken, mirrored, dropped, tapped>>
  BY DEF Forward, mirrorVars, shellVars, TerminalInv, TerminalTypes, Attachment
<1>2. a \in Attachment /\ Placed(w) /\ a.next \in Nat /\ a.from \in Nat /\ tapped \in Nat
      /\ a.got \in Seq(Nat) /\ Len(mirrored) \in Nat /\ tapped <= Len(mirrored)
  BY ClientFacts
<1>3. a.next + 1 \in 1..Len(mirrored) /\ a.next + 1 <= tapped /\ End(w) = a.next
  <2>1. tapped - a.next \in 1..TapCapacity
    BY <1>1 DEF Behind
  <2>2. a.next + 1 <= tapped
    BY <1>2, <2>1, Bounds
  <2>3. End(w) = a.next
    BY <1>1, <1>2 DEF End
  <2> QED
    BY <1>2, <2>2, <2>3
<1>4. x \in Nat /\ x <= taken
      /\ \A j \in (a.next + 2)..Len(mirrored) : x < mirrored[j]
  <2>1. /\ \A i \in 1..Len(mirrored) : mirrored[i] <= taken
        /\ \A i, j \in 1..Len(mirrored) : i < j => mirrored[i] < mirrored[j]
        /\ mirrored \in Seq(Nat)
    BY DEF TerminalInv, TerminalTypes, Ordered
  <2>2. x \in Nat
    BY <1>3, <2>1, ElementOfSeq
  <2>3. ASSUME NEW j \in (a.next + 2)..Len(mirrored)
        PROVE  j \in 1..Len(mirrored) /\ a.next + 1 < j
    BY <1>2, <2>1
  <2> QED
    BY <1>3, <2>1, <2>2, <2>3
<1>5. /\ got \in Seq(Nat)
      /\ Len(got) = Len(a.got) + 1 /\ Len(a.got) \in Nat
      /\ \A k \in 1..Len(a.got) : got[k] = a.got[k]
      /\ got[Len(a.got) + 1] = x
  <2> HIDE DEF x, a
  <2> QED
    BY <1>2, <1>4, AppendProperties, LenProperties
<1>6. \A k \in 1..Len(a.got) : a.got[k] \in Nat
  BY <1>2, ElementOfSeq
<1>7. watch'[w] = [a EXCEPT !.next = a.next + 1, !.got = got]
  BY <1>1 DEF TerminalInv, TerminalTypes
<1> HIDE DEF x, got, a
<1>8. watch'[w] \in Attachment
  <2>1. a.next + 1 \in Nat
    BY <1>2
  <2> QED
    BY <1>2, <1>5, <1>7, <2>1 DEF Attachment
<1>9. /\ watch'[w].phase = "live" /\ watch'[w].got = got /\ watch'[w].next = a.next + 1
      /\ watch'[w].from = a.from /\ watch'[w].lagged = a.lagged
  <2>1. DOMAIN a = {"phase", "replay", "from", "next", "got", "lagged"}
    BY <1>2 DEF Attachment
  <2>2. watch'[w] = [x1 \in DOMAIN a |-> IF x1 = "got" THEN got
                                         ELSE IF x1 = "next" THEN a.next + 1 ELSE a[x1]]
    BY <1>7, <2>1
  <2>3. a.phase = "live"
    BY <1>1
  <2> QED
    BY <2>1, <2>2, <2>3
<1>10. End(w)' = a.next + 1
  BY <1>1, <1>2, <1>9 DEF End
<1>11. /\ a.next <= tapped /\ a.from <= Len(mirrored)
       /\ ~a.lagged => Piece(a.got, a.next)
       /\ Rising(a.got)
       /\ \A k \in 1..Len(a.got) :
             /\ a.got[k] <= taken
             /\ \A j \in (a.next + 1)..Len(mirrored) : a.got[k] < mirrored[j]
  BY <1>1, <1>2, <1>3 DEF Placed, a
<1>12. ~a.lagged => Piece(got, a.next + 1)
  <2> SUFFICES ASSUME ~a.lagged PROVE Piece(got, a.next + 1)
    OBVIOUS
  <2>1. PICK i \in 0..a.next : /\ Len(a.got) = a.next - i
                               /\ \A k \in 1..Len(a.got) : a.got[k] = mirrored[i + k]
    BY <1>11 DEF Piece
  <2>2. Len(got) = a.next + 1 - i /\ i < a.next + 1 /\ i \in 0..(a.next + 1)
    BY <1>2, <1>5, <2>1
  <2>3. ASSUME NEW k \in 1..Len(got) PROVE got[k] = mirrored[i + k]
    <3>1. CASE k = Len(a.got) + 1
      <4>1. a.next \in Nat
        BY <1>2
      <4>2. i + k = a.next + 1
        BY <2>1, <3>1, <4>1
      <4>3. got[k] = x
        BY <1>5, <3>1
      <4> QED
        BY <4>2, <4>3 DEF x
    <3>2. CASE k # Len(a.got) + 1
      BY <1>5, <2>1, <3>2
    <3> QED
      BY <3>1, <3>2
  <2> QED
    <3> DEFINE e == a.next + 1
    <3>1. i \in 0..e /\ i < e /\ Len(got) = e - i
      BY <1>2, <2>2
    <3> HIDE DEF e
    <3>2. Piece(got, e)
      BY <2>3, <3>1 DEF Piece
    <3> QED
      BY <3>2 DEF e
<1>13. ASSUME NEW k \in 1..Len(a.got) PROVE a.got[k] < x
  <2>1. a.next + 1 \in (a.next + 1)..Len(mirrored)
    BY <1>2, <1>3
  <2> QED
    BY <1>11, <2>1 DEF x
<1>14. Rising(got)
  <2> SUFFICES ASSUME NEW k \in 1..Len(got) - 1 PROVE got[k] < got[k + 1]
    BY DEF Rising
  <2>1. CASE k = Len(a.got)
    <3>1. k \in 1..Len(a.got)
      BY <1>5, <2>1
    <3> QED
      BY <1>5, <1>13, <2>1, <3>1
  <2>2. CASE k # Len(a.got)
    <3>1. k \in 1..Len(a.got) - 1 /\ k \in 1..Len(a.got) /\ k + 1 \in 1..Len(a.got)
      BY <1>5, <2>2
    <3> QED
      BY <1>5, <1>11, <3>1 DEF Rising
  <2> QED
    BY <2>1, <2>2
<1>15. ASSUME NEW k \in 1..Len(got)
       PROVE  /\ got[k] <= taken
              /\ \A j \in (a.next + 2)..Len(mirrored) : got[k] < mirrored[j]
  <2>1. CASE k = Len(a.got) + 1
    BY <1>4, <1>5, <2>1
  <2>2. CASE k # Len(a.got) + 1
    <3>1. k \in 1..Len(a.got) /\ got[k] = a.got[k]
      BY <1>5, <2>2
    <3>2. ASSUME NEW j \in (a.next + 2)..Len(mirrored) PROVE j \in (a.next + 1)..Len(mirrored)
      BY <1>2
    <3> QED
      BY <1>11, <3>1, <3>2
  <2> QED
    BY <2>1, <2>2
<1>16. Placed(w)'
  <2>1. (a.next + 1) + 1 = a.next + 2
    BY <1>2
  <2>2. ~a.lagged => Piece(watch[w].got, End(w))'
    BY <1>1, <1>9, <1>10, <1>12 DEF Piece
  <2> QED
    BY <1>1, <1>3, <1>9, <1>10, <1>11, <1>14, <1>15, <2>1, <2>2 DEF Placed, Rising
<1>17. watch' = [watch EXCEPT ![w] = watch'[w]]
  BY <1>1, <1>7 DEF TerminalInv, TerminalTypes
<1> QED
  BY <1>1, <1>8, <1>16, <1>17, ClientTerminal

-------------------------------------------------------------------------------
(* The events.                                                               *)

Item == [no : Nat, flag : Flags, value : BOOLEAN, started : BOOLEAN,
         to : SUBSET Listeners, dead : SUBSET Listeners]
Greetings == UNION {[fs -> BOOLEAN] : fs \in SUBSET Flags}

EventTypes ==
    /\ flags \in States
    /\ registry \subseteq Listeners
    /\ news \subseteq Item
    /\ announced \in Nat
    /\ greeting \in [Listeners -> Greetings]
    /\ shown \in [Listeners -> States]

\* A task about f has yet to tell l.
Coming(l, f) == \E n \in news : n.flag = f /\ Awaits(n, l)

\* Unless changes of f raced on their way to l, all that is on its way to l tells how f
\* stands, and nothing need be on its way only when l shows it already.
Current(l, f) ==
    <<l, f>> \notin raced =>
        /\ \A n \in news : n.flag = f /\ Awaits(n, l) => n.value = flags[f]
        /\ f \in DOMAIN greeting[l] => greeting[l][f] = flags[f]
        /\ l \in registry =>
              shown[l][f] = flags[f] \/ f \in DOMAIN greeting[l] \/ Coming(l, f)

EventInv ==
    /\ EventTypes
    /\ \A l \in Listeners \ gone, f \in Flags : Current(l, f)

\* Nobody is registered and nothing is announced at first.
LEMMA InitEvents == Init => EventInv
<1> SUFFICES ASSUME Init PROVE EventInv
  OBVIOUS
<1>1. Nothing \in Greetings
  BY DEF Nothing, Greetings
<1>2. greeting \in [Listeners -> Greetings]
  BY <1>1 DEF Init
<1>3. EventTypes
  BY <1>2 DEF Init, EventTypes, States
<1>4. ASSUME NEW l \in Listeners, NEW f \in Flags PROVE Current(l, f)
  BY DEF Init, Current, Nothing
<1> QED
  BY <1>3, <1>4 DEF EventInv

\* What the mirror and the clients of the terminal do to the events: nothing.
LEMMA ElsewhereEvents == EventInv /\ UNCHANGED eventVars => EventInv'
BY DEF EventInv, EventTypes, Current, Coming, Awaits, eventVars

\* A client for whom nothing has happened but that tasks have moved on.
LEMMA StaysCurrent ==
    ASSUME NEW l \in Listeners, NEW f \in Flags, Current(l, f),
           UNCHANGED <<flags[f], greeting[l], shown[l][f]>>,
           <<l, f>> \notin raced' => <<l, f>> \notin raced,
           l \in registry' => l \in registry,
           \A m \in news' : m.flag = f /\ Awaits(m, l) =>
               \E n \in news : n.flag = f /\ Awaits(n, l) /\ n.value = m.value,
           l \in registry' /\ Coming(l, f) => Coming(l, f)'
    PROVE  Current(l, f)'
BY DEF Current, Awaits

\* An announcement: everybody is to be told.
LEMMA AnnounceEvents ==
    ASSUME EventInv, NEW f \in Flags, NEW v \in BOOLEAN, Announce(f, v),
           UNCHANGED <<registry, gone, greeting, shown>>
    PROVE  EventInv'
<1> DEFINE n == News(f, v)
<1>1. n \in Item /\ n.flag = f /\ n.value = v /\ ~n.started
  BY DEF News, Item, EventInv, EventTypes
<1>2. news' = news \union {n} /\ flags' = [flags EXCEPT ![f] = v] /\ announced' = announced + 1
  BY DEF Announce
<1> HIDE DEF n
<1>3. flags' \in States /\ flags'[f] = v /\ \A g \in Flags \ {f} : flags'[g] = flags[g]
  BY <1>2 DEF EventInv, EventTypes, States
<1>4. EventTypes'
  BY <1>1, <1>2, <1>3 DEF EventInv, EventTypes
<1>5. ASSUME NEW l \in Listeners \ gone', NEW g \in Flags PROVE Current(l, g)'
  <2>1. l \in Listeners \ gone /\ Current(l, g)
    BY DEF EventInv
  <2>2. CASE g = f
    <3>1. Coming(l, g)'
      BY <1>1, <1>2, <2>2 DEF Coming, Awaits
    <3>2. <<l, f>> \notin raced' => ~UnderWay(l, f)
      BY <2>1 DEF Announce, Race
    <3> QED
      BY <1>1, <1>2, <1>3, <2>2, <3>1, <3>2 DEF Current, UnderWay, Awaits
  <2>3. CASE g # f
    <3>1. <<l, g>> \notin raced' => <<l, g>> \notin raced
      BY <2>3 DEF Announce, Race
    <3>2. Coming(l, g) => Coming(l, g)'
      BY <1>2 DEF Coming, Awaits
    <3>3. \A m \in news' : m.flag = g => m \in news
      BY <1>1, <1>2, <2>3
    <3> QED
      BY <1>3, <2>1, <2>3, <3>1, <3>2, <3>3, StaysCurrent
  <2> QED
    BY <2>2, <2>3
<1> QED
  BY <1>4, <1>5 DEF EventInv

\* A new listener is greeted with how the flags stand.
LEMMA ListenEvents == \A l \in Listeners : EventInv /\ Listen(l) => EventInv'
<1> SUFFICES ASSUME NEW l \in Listeners, EventInv, Listen(l) PROVE EventInv'
  OBVIOUS
<1>1. /\ registry' = registry \union {l}
      /\ greeting' = [greeting EXCEPT ![l] = flags]
      /\ UNCHANGED <<flags, gone, news, announced, shown, raced>>
  BY DEF Listen
<1>2. flags \in Greetings
  BY DEF EventInv, EventTypes, States, Greetings
<1>3. EventTypes'
  BY <1>1, <1>2 DEF EventInv, EventTypes
<1>4. ASSUME NEW k \in Listeners \ gone', NEW f \in Flags PROVE Current(k, f)'
  <2>1. Current(k, f)
    BY <1>1 DEF EventInv
  <2>2. CASE k = l
    <3>1. greeting'[k] = flags /\ f \in DOMAIN greeting'[k]
      BY <1>1, <2>2 DEF EventInv, EventTypes, States
    <3> QED
      BY <1>1, <2>1, <3>1 DEF Current, Awaits
  <2>3. CASE k # l
    <3>1. greeting'[k] = greeting[k]
      BY <1>1, <2>3 DEF EventInv, EventTypes
    <3> QED
      BY <1>1, <2>1, <2>3, <3>1 DEF Current, Coming, Awaits
  <2> QED
    BY <2>2, <2>3
<1> QED
  BY <1>3, <1>4 DEF EventInv

\* A listener that leaves is of no account any more.
LEMMA StopEvents == \A l \in Listeners : EventInv /\ StopListening(l) => EventInv'
<1> SUFFICES ASSUME NEW l \in Listeners, EventInv, StopListening(l) PROVE EventInv'
  OBVIOUS
<1>1. /\ gone' = gone \union {l}
      /\ greeting' = [greeting EXCEPT ![l] = Nothing]
      /\ shown' = [shown EXCEPT ![l] = [f \in Flags |-> FALSE]]
      /\ raced' = {r \in raced : r[1] # l}
      /\ UNCHANGED <<flags, registry, news, announced>>
  BY DEF StopListening
<1>2. Nothing \in Greetings /\ [f \in Flags |-> FALSE] \in States
  BY DEF Nothing, Greetings, States
<1>3. EventTypes'
  BY <1>1, <1>2 DEF EventInv, EventTypes
<1>4. ASSUME NEW k \in Listeners \ gone', NEW f \in Flags PROVE Current(k, f)'
  <2>1. k # l /\ Current(k, f)
    BY <1>1 DEF EventInv
  <2>2. greeting'[k] = greeting[k] /\ shown'[k] = shown[k]
    BY <1>1, <2>1 DEF EventInv, EventTypes
  <2>3. <<k, f>> \notin raced' => <<k, f>> \notin raced
    BY <1>1, <2>1
  <2> QED
    BY <1>1, <2>1, <2>2, <2>3 DEF Current, Coming, Awaits
<1> QED
  BY <1>3, <1>4 DEF EventInv

\* A flag told by the greeting: what is shown then is how it stands.
LEMMA GreetEvents ==
    \A l \in Listeners, f \in Flags : EventInv /\ Greet(l, f) => EventInv'
<1> SUFFICES ASSUME NEW l \in Listeners, NEW f \in Flags, EventInv, Greet(l, f)
             PROVE  EventInv'
  OBVIOUS
<1> DEFINE left == [g \in DOMAIN greeting[l] \ {f} |-> greeting[l][g]]
<1>1. /\ f \in DOMAIN greeting[l]
      /\ shown' = [shown EXCEPT ![l][f] = greeting[l][f]]
      /\ greeting' = [greeting EXCEPT ![l] = left]
      /\ UNCHANGED <<flags, registry, gone, news, announced, raced>>
  BY DEF Greet, EventInv, EventTypes
<1>2. PICK fs \in SUBSET Flags : greeting[l] \in [fs -> BOOLEAN]
  BY DEF EventInv, EventTypes, Greetings
<1>3. left \in [fs \ {f} -> BOOLEAN] /\ fs \ {f} \in SUBSET Flags
  BY <1>2
<1>4. left \in Greetings
  BY <1>3 DEF Greetings
<1>5. DOMAIN left = DOMAIN greeting[l] \ {f} /\ \A g \in DOMAIN left : left[g] = greeting[l][g]
  OBVIOUS
<1> HIDE DEF left
<1>6. greeting[l][f] \in BOOLEAN
  BY <1>1, <1>2
<1>7. /\ shown' \in [Listeners -> States]
      /\ shown'[l][f] = greeting[l][f]
      /\ \A k \in Listeners, g \in Flags : k # l \/ g # f => shown'[k][g] = shown[k][g]
  BY <1>1, <1>6 DEF EventInv, EventTypes, States
<1>8. /\ greeting' \in [Listeners -> Greetings]
      /\ greeting'[l] = left
      /\ \A k \in Listeners : k # l => greeting'[k] = greeting[k]
  BY <1>1, <1>4 DEF EventInv, EventTypes
<1>9. EventTypes'
  BY <1>1, <1>7, <1>8 DEF EventInv, EventTypes
<1>10. ASSUME NEW k \in Listeners \ gone', NEW g \in Flags PROVE Current(k, g)'
  <2>1. Current(k, g)
    BY <1>1 DEF EventInv
  <2>2. CASE k = l /\ g = f
    <3>1. f \notin DOMAIN greeting'[l]
      BY <1>5, <1>8
    <3> QED
      BY <1>1, <1>7, <2>1, <2>2, <3>1 DEF Current, Awaits
  <2>3. CASE k = l /\ g # f
    <3>1. /\ shown'[l][g] = shown[l][g]
          /\ g \in DOMAIN greeting'[l] <=> g \in DOMAIN greeting[l]
          /\ g \in DOMAIN greeting'[l] => greeting'[l][g] = greeting[l][g]
      BY <1>5, <1>7, <1>8, <2>3
    <3> QED
      BY <1>1, <2>1, <2>3, <3>1 DEF Current, Coming, Awaits
  <2>4. CASE k # l
    <3>1. greeting'[k] = greeting[k] /\ shown'[k][g] = shown[k][g]
      BY <1>7, <1>8, <2>4
    <3> QED
      BY <1>1, <2>1, <3>1 DEF Current, Coming, Awaits
  <2> QED
    BY <2>2, <2>3, <2>4
<1> QED
  BY <1>9, <1>10 DEF EventInv

\* A task that has moved on still is about what it was about, and is for nobody it was
\* not for; whoever it has to tell as before is as before.
LEMMA TaskGoesOn ==
    ASSUME EventTypes, NEW n \in news, NEW m \in Item, Becomes(n, m),
           m.flag = n.flag, m.value = n.value,
           NEW l \in Listeners, NEW f \in Flags, Current(l, f),
           UNCHANGED <<flags, registry, greeting, raced>>, shown'[l][f] = shown[l][f],
           Awaits(m, l) => Awaits(n, l),
           l \in registry /\ Awaits(n, l) => Awaits(m, l)
    PROVE  Current(l, f)'
<1>1. news' = (news \ {n}) \union {m}
  BY DEF Becomes
<1>2. \A x \in news' : x.flag = f /\ Awaits(x, l) =>
          \E y \in news : y.flag = f /\ Awaits(y, l) /\ y.value = x.value
  BY <1>1
<1>3. l \in registry' /\ Coming(l, f) => Coming(l, f)'
  BY <1>1 DEF Coming, Awaits
<1> QED
  BY <1>2, <1>3, StaysCurrent

\* The broadcast begins: it is for everybody who is registered.
LEMMA SnapshotEvents == \A n \in news : EventInv /\ Snapshot(n) => EventInv'
<1> SUFFICES ASSUME NEW n \in news, EventInv, Snapshot(n) PROVE EventInv'
  OBVIOUS
<1> DEFINE m == [n EXCEPT !.started = TRUE, !.to = registry]
<1>1. n \in Item /\ registry \subseteq Listeners
  BY DEF EventInv, EventTypes
<1>2. /\ m \in Item /\ m.flag = n.flag /\ m.value = n.value /\ m.started /\ m.to = registry
      /\ ~n.started
  BY <1>1 DEF Item, Snapshot
<1>3. Becomes(n, m) /\ UNCHANGED <<flags, registry, gone, announced, greeting, shown, raced>>
  BY DEF Snapshot
<1> HIDE DEF m
<1>4. EventTypes'
  BY <1>2, <1>3 DEF EventInv, EventTypes, Becomes
<1>5. ASSUME NEW l \in Listeners \ gone', NEW f \in Flags PROVE Current(l, f)'
  <2>1. Current(l, f)
    BY <1>3 DEF EventInv
  <2>2. Awaits(n, l) /\ (l \in registry => Awaits(m, l))
    BY <1>2 DEF Awaits
  <2> QED
    BY <1>2, <1>3, <2>1, <2>2, TaskGoesOn DEF EventInv
<1> QED
  BY <1>4, <1>5 DEF EventInv

\* A session is told, or found closed.
LEMMA TellEvents ==
    \A n \in news, k \in Listeners : EventInv /\ Tell(n, k) => EventInv'
<1> SUFFICES ASSUME NEW n \in news, NEW k \in Listeners, EventInv, Tell(n, k) PROVE EventInv'
  OBVIOUS
<1>1. n \in Item /\ k \in n.to /\ n.flag \in Flags /\ n.value \in BOOLEAN
  BY DEF EventInv, EventTypes, Item, Tell
<1>2. UNCHANGED <<flags, registry, gone, announced, greeting, raced>>
  BY DEF Tell
<1>3. PICK m \in Item :
         /\ Becomes(n, m) /\ m.flag = n.flag /\ m.value = n.value
         /\ m.started = n.started /\ m.to = n.to \ {k}
  <2> DEFINE a == [n EXCEPT !.to = @ \ {k}, !.dead = @ \union {k}]
             b == [n EXCEPT !.to = @ \ {k}]
  <2>1. /\ a \in Item /\ a.flag = n.flag /\ a.value = n.value
        /\ a.started = n.started /\ a.to = n.to \ {k}
        /\ b \in Item /\ b.flag = n.flag /\ b.value = n.value
        /\ b.started = n.started /\ b.to = n.to \ {k}
    BY <1>1 DEF Item
  <2>2. Becomes(n, a) \/ Becomes(n, b)
    BY DEF Tell
  <2> QED
    BY <2>1, <2>2
<1>4. \/ k \in gone /\ shown' = shown
      \/ k \notin gone /\ shown' = [shown EXCEPT ![k][n.flag] = n.value]
  BY DEF Tell
<1>5. /\ shown' \in [Listeners -> States]
      /\ \A l \in Listeners, f \in Flags :
            l # k \/ f # n.flag \/ k \in gone => shown'[l][f] = shown[l][f]
      /\ k \notin gone => shown'[k][n.flag] = n.value
  BY <1>1, <1>4 DEF EventInv, EventTypes, States
<1>6. EventTypes'
  BY <1>2, <1>3, <1>5 DEF EventInv, EventTypes, Becomes
<1>7. ASSUME NEW l \in Listeners \ gone', NEW f \in Flags PROVE Current(l, f)'
  <2>1. Current(l, f) /\ l \notin gone
    BY <1>2 DEF EventInv
  <2>2. CASE l # k
    <3>1. Awaits(m, l) <=> Awaits(n, l)
      BY <1>3, <2>2 DEF Awaits
    <3> QED
      BY <1>2, <1>3, <1>5, <2>1, <2>2, <3>1, TaskGoesOn DEF EventInv
  <2>3. CASE l = k
    <3>1. \A x \in news' : x.flag = f /\ Awaits(x, l) =>
              \E y \in news : y.flag = f /\ Awaits(y, l) /\ y.value = x.value
      <4>1. Awaits(n, l)
        BY <1>1, <2>3 DEF Awaits
      <4> QED
        BY <1>3, <4>1 DEF Becomes
    <3>2. CASE f = n.flag
      <4>1. <<l, f>> \notin raced => n.value = flags[f]
        BY <1>1, <2>1, <2>3, <3>2 DEF Current, Awaits
      <4>2. shown'[l][f] = n.value
        BY <1>5, <2>1, <2>3, <3>2
      <4> QED
        BY <1>2, <2>1, <3>1, <4>1, <4>2 DEF Current, Awaits
    <3>3. CASE f # n.flag
      <4>1. Coming(l, f) => Coming(l, f)'
        BY <1>3, <3>3 DEF Coming, Becomes, Awaits
      <4>2. shown'[l][f] = shown[l][f]
        BY <1>5, <3>3
      <4> QED
        BY <1>2, <2>1, <3>1, <4>1, <4>2, StaysCurrent
    <3> QED
      BY <3>2, <3>3
  <2> QED
    BY <2>2, <2>3
<1> QED
  BY <1>6, <1>7 DEF EventInv

\* The broadcast is over: it was for nobody any more.
LEMMA ToldEvents == \A n \in news : EventInv /\ Told(n) => EventInv'
<1> SUFFICES ASSUME NEW n \in news, EventInv, Told(n) PROVE EventInv'
  OBVIOUS
<1>1. /\ n.started /\ n.to = {} /\ news' = news \ {n} /\ registry' = registry \ n.dead
      /\ UNCHANGED <<flags, gone, announced, greeting, shown, raced>>
  BY DEF Told
<1>2. EventTypes'
  BY <1>1 DEF EventInv, EventTypes
<1>3. ASSUME NEW l \in Listeners \ gone', NEW f \in Flags PROVE Current(l, f)'
  <2>1. Current(l, f)
    BY <1>1 DEF EventInv
  <2>2. ~Awaits(n, l)
    BY <1>1 DEF Awaits
  <2>3. Coming(l, f) => Coming(l, f)'
    BY <1>1, <2>2 DEF Coming, Awaits
  <2> QED
    BY <1>1, <2>1, <2>3, StaysCurrent
<1> QED
  BY <1>2, <1>3 DEF EventInv

-------------------------------------------------------------------------------
(* The theorems.                                                             *)

Inv == TerminalInv /\ EventInv

\* Every step preserves the invariant.
LEMMA InvStep == Inv /\ [Next]_vars => Inv'
<1> SUFFICES ASSUME Inv, [Next]_vars PROVE Inv'
  OBVIOUS
<1> USE DEF Inv
<1>1. shell \in BOOLEAN /\ printed \in Nat /\ printed + 1 \in Nat /\ printed + 1 >= printed
  BY DEF TerminalInv, TerminalTypes
<1>2. CASE Shell
  <2>1. CASE OpenAgain
    BY <1>1, <2>1, ElsewhereTerminal, ElsewhereEvents DEF OpenAgain, mirrorVars, watchVars
  <2>2. CASE OpenShell
    <3>1. TerminalInv'
      BY <1>1, <2>2, ElsewhereTerminal DEF OpenShell, mirrorVars, watchVars
    <3>2. "open" \in Flags
      BY DEF Flags
    <3>3. EventInv'
      BY <2>2, <3>2, AnnounceEvents DEF OpenShell
    <3> QED
      BY <3>1, <3>3
  <2>3. CASE OpenFails
    BY <1>1, <2>3, ElsewhereTerminal, ElsewhereEvents DEF OpenFails, mirrorVars, watchVars
  <2>4. CASE Output
    BY <1>1, <2>4, ElsewhereTerminal, ElsewhereEvents DEF Output, mirrorVars, watchVars
  <2>5. CASE Exit
    <3>1. /\ shell' \in BOOLEAN /\ printed' = printed /\ UNCHANGED eventVars
          /\ UNCHANGED <<taken, mirrored, dropped, tapped, watch>>
      BY <2>5 DEF Exit, mirrorVars, watchVars
    <3>2. printed' \in Nat /\ printed' >= printed
      BY <1>1, <3>1
    <3> QED
      BY <3>1, <3>2, ElsewhereTerminal, ElsewhereEvents
  <2> QED
    BY <1>2, <2>1, <2>2, <2>3, <2>4, <2>5 DEF Shell
<1>3. CASE Mirror
  <2>1. UNCHANGED eventVars
    BY <1>3 DEF Mirror, Take, FallBehind, Tap
  <2> QED
    BY <1>3, <2>1, TakeTerminal, FallBehindTerminal, TapTerminal, ElsewhereEvents DEF Mirror
<1>4. ASSUME NEW n \in news, Telling(n) PROVE Inv'
  <2>1. UNCHANGED <<shell, printed, taken, mirrored, dropped, tapped, watch>>
    BY <1>4 DEF Telling, Snapshot, Told, Tell, shellVars, mirrorVars, watchVars
  <2>2. TerminalInv'
    BY <1>1, <2>1, ElsewhereTerminal
  <2> QED
    BY <1>4, <2>2, SnapshotEvents, TellEvents, ToldEvents DEF Telling
<1>5. ASSUME NEW v \in BOOLEAN, Expand(v) PROVE Inv'
  <2>1. TerminalInv'
    BY <1>1, <1>5, ElsewhereTerminal DEF Expand, shellVars, mirrorVars, watchVars
  <2>2. "expanded" \in Flags
    BY DEF Flags
  <2>3. EventInv'
    BY <1>5, <2>2, AnnounceEvents DEF Expand
  <2> QED
    BY <2>1, <2>3
<1>6. ASSUME NEW w \in Watchers, Watching(w) PROVE Inv'
  <2>1. UNCHANGED eventVars
    BY <1>6 DEF Watching, Passes, Attach, Replay, Skip, Forward, Lag, Detach
  <2> QED
    BY <1>6, <2>1, AttachTerminal, ReplayTerminal, SkipTerminal, ForwardTerminal,
       LagTerminal, DetachTerminal, ElsewhereEvents DEF Watching, Passes
<1>7. ASSUME NEW l \in Listeners, Listening(l) PROVE Inv'
  <2>1. UNCHANGED <<shell, printed, taken, mirrored, dropped, tapped, watch>>
    BY <1>7 DEF Listening, Listen, StopListening, Greet, shellVars, mirrorVars, watchVars
  <2>2. TerminalInv'
    BY <1>1, <2>1, ElsewhereTerminal
  <2> QED
    BY <1>7, <2>2, ListenEvents, StopEvents, GreetEvents DEF Listening
<1>8. CASE UNCHANGED vars
  BY <1>1, <1>8, ElsewhereTerminal, ElsewhereEvents DEF vars, shellVars, mirrorVars, watchVars
<1> QED
  BY <1>2, <1>3, <1>4, <1>5, <1>6, <1>7, <1>8 DEF Next

\* The invariant holds in every state.
LEMMA InvHolds == Spec => []Inv
<1>1. Init => Inv
  BY InitTerminal, InitEvents DEF Inv
<1> QED
  BY <1>1, InvStep, PTL DEF Spec

\* Types, and how far the mirror and its clients can be behind the shell.
THEOREM TerminalTypesHold == Spec => []TypeOK
<1>1. Inv => TypeOK
  <2> SUFFICES ASSUME Inv PROVE TypeOK
    OBVIOUS
  <2>1. Len(mirrored) \in Nat /\ Len(mirrored) - dropped <= Scrollback
    <3>1. Len(mirrored) \in Nat
      BY LenProperties DEF Inv, TerminalInv, TerminalTypes
    <3> QED
      BY <3>1, Bounds DEF Inv, TerminalInv, Ordered
  <2>2. \A w \in Watchers : watch[w].next <= tapped /\ watch[w].from <= Len(mirrored)
    BY DEF Inv, TerminalInv, Placed
  <2>3. \A l \in Listeners : shown[l] \in States
    BY DEF Inv, EventInv, EventTypes
  <2> QED
    BY <2>1, <2>2, <2>3
    DEF Inv, TerminalInv, TerminalTypes, Ordered, EventInv, EventTypes, TypeOK
<1> QED
  BY <1>1, InvHolds, PTL

\* What a client of the terminal has seen is a gapless stretch of what the shell's
\* mirror passed on, for any number of clients, chunks and places in the channels.
THEOREM NothingGarbled == Spec => []Unbroken
<1>1. Inv => Unbroken
  <2> SUFFICES ASSUME Inv, NEW w \in Watchers, watch[w].phase = "live"
               PROVE  /\ Rising(watch[w].got)
                      /\ ~watch[w].lagged => Stretch(watch[w].got)
                      /\ watch[w].next > 0 /\ watch[w].next >= watch[w].from /\ ~watch[w].lagged =>
                             /\ watch[w].got # <<>>
                             /\ watch[w].got[Len(watch[w].got)] = mirrored[watch[w].next]
    BY DEF Unbroken
  <2> DEFINE got == watch[w].got
  <2>1. /\ got \in Seq(Nat) /\ Len(got) \in Nat /\ mirrored \in Seq(Nat) /\ Len(mirrored) \in Nat
        /\ watch[w].next \in Nat /\ watch[w].from \in Nat /\ watch[w].next <= Len(mirrored)
        /\ watch[w].from <= Len(mirrored)
    BY ClientFacts, LenProperties DEF Inv, TerminalInv, TerminalTypes
  <2>2. Rising(got) /\ (~watch[w].lagged => Piece(got, End(w)))
    BY DEF Inv, TerminalInv, Placed
  <2>3. End(w) \in 0..Len(mirrored)
    BY <2>1 DEF End
  <2>4. ASSUME ~watch[w].lagged
        PROVE  /\ Stretch(got)
               /\ watch[w].next > 0 /\ watch[w].next >= watch[w].from =>
                      got # <<>> /\ got[Len(got)] = mirrored[watch[w].next]
    <3> HIDE DEF got
    <3>1. PICK i \in 0..End(w) : /\ Len(got) = End(w) - i
                                 /\ End(w) > 0 => i < End(w)
                                 /\ \A k \in 1..Len(got) : got[k] = mirrored[i + k]
      BY <2>2, <2>4 DEF Piece
    <3> DEFINE part == SubSeq(mirrored, i + 1, i + Len(got))
    <3>2. i \in Nat /\ i \in 0..Len(mirrored) /\ i + 1 \in Int /\ i + Len(got) \in Int
          /\ i + Len(got) <= Len(mirrored)
      BY <2>1, <2>3, <3>1
    <3>3. \A k \in (i + 1)..(i + Len(got)) : mirrored[k] \in Nat
      BY <2>1, <3>2, ElementOfSeq
    <3>4. /\ part \in Seq(Nat)
          /\ Len(part) = IF i + 1 <= i + Len(got) THEN i + Len(got) - (i + 1) + 1 ELSE 0
          /\ \A k \in 1..(i + Len(got) - (i + 1) + 1) : part[k] = mirrored[(i + 1) + k - 1]
      BY <3>2, <3>3, SubSeqProperties
    <3> HIDE DEF part
    <3>5. Len(part) = Len(got) /\ \A k \in 1..Len(got) : part[k] = mirrored[i + k]
      <4>1. Len(part) = Len(got)
        BY <2>1, <3>2, <3>4
      <4>2. ASSUME NEW k \in 1..Len(got) PROVE part[k] = mirrored[i + k]
        <5>1. k \in 1..(i + Len(got) - (i + 1) + 1) /\ (i + 1) + k - 1 = i + k
          BY <2>1, <3>2
        <5> QED
          BY <3>4, <5>1
      <4> QED
        BY <4>1, <4>2
    <3>6. got = part
      BY <2>1, <3>1, <3>4, <3>5, SeqEqual
    <3>7. Stretch(got)
      BY <3>2, <3>6 DEF Stretch, part
    <3>8. ASSUME watch[w].next > 0, watch[w].next >= watch[w].from
          PROVE  got # <<>> /\ got[Len(got)] = mirrored[watch[w].next]
      <4>1. End(w) = watch[w].next
        BY <2>1, <3>8 DEF End
      <4>2. Len(got) \in 1..Len(got) /\ i + Len(got) = watch[w].next
        <5>1. End(w) \in Nat /\ End(w) > 0 /\ Len(got) \in Nat
          BY <2>1, <3>8, <4>1
        <5>2. Len(got) = End(w) - i /\ i < End(w) /\ i \in Nat
          BY <3>1, <5>1
        <5> QED
          BY <4>1, <5>1, <5>2
      <4>3. got # <<>>
        BY <4>2, EmptySeq
      <4> QED
        BY <3>1, <4>2, <4>3
    <3> QED
      BY <3>7, <3>8
  <2> QED
    BY <2>2, <2>4
<1> QED
  BY <1>1, InvHolds, PTL

\* Whoever is connected shows a flag as it stands once nothing about it is on its way to
\* them, for any number of listeners, of tasks under way at once and of arrivals between
\* them: unless the flag changed while an older message about it was on its way.
THEOREM ListenersInformed == Spec => []Informed
<1>1. Inv => Informed
  <2> SUFFICES ASSUME Inv, NEW l \in registry \ gone, NEW f \in Flags,
                      ~UnderWay(l, f), <<l, f>> \notin raced
               PROVE  shown[l][f] = flags[f]
    BY DEF Informed
  <2>1. l \in Listeners \ gone
    BY DEF Inv, EventInv, EventTypes
  <2> QED
    BY <2>1 DEF Inv, EventInv, Current, Coming, UnderWay
<1> QED
  BY <1>1, InvHolds, PTL

===============================================================================
