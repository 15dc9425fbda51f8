----------------------------- MODULE PanelNavProofs -----------------------------
(***************************************************************************)
(* Proofs about PanelNav for paths of any depth, any names, archives and   *)
(* file systems, any number of tasks and any number of requests.           *)
(***************************************************************************)
EXTENDS PanelNav, SequenceTheorems, WellFoundedInduction, TLAPS

-------------------------------------------------------------------------------
(* The levels of an address.                                                 *)

\* A set of numbers without a least one is empty.
LEMMA LeastNumber ==
    ASSUME NEW T \in SUBSET Nat, T # {}
    PROVE  \E n \in T : \A m \in T : n <= m
<1>1. PICK n \in T : \A m \in T : ~ (<<m, n>> \in OpToRel(<, Nat))
  BY NatLessThanWellFounded, WFMin
<1>2. ASSUME NEW m \in T PROVE n <= m
  <2>1. ~ (m < n)
    BY <1>1 DEF OpToRel
  <2> QED
    BY <2>1
<1> QED
  BY <1>2

\* What one name adds to where an address has got to.
Start(b) == [fs |-> <<b>>, from |-> 1]
Passed(a, i, q) ==
    IF a[i] \in Archives
    THEN [fs |-> Append(q.fs, SubSeq(a, q.from, i)), from |-> i + 1]
    ELSE q

Pass(f, a, b, n) ==
    f = [i \in 0..n |-> IF i = 0 THEN Start(b) ELSE Passed(a, i, f[i - 1])]

\* There is a pass over every address.
LEMMA PassExists ==
    ASSUME NEW a \in Seq(Names), NEW b
    PROVE  \A n \in Nat : \E f : Pass(f, a, b, n)
<1> DEFINE T == {n \in Nat : ~ \E f : Pass(f, a, b, n)}
<1> SUFFICES ASSUME T # {} PROVE FALSE
  OBVIOUS
<1>1. PICK n \in T : \A m \in T : n <= m
  BY LeastNumber
<1>2. n # 0
  <2>1. Pass([i \in 0..0 |-> Start(b)], a, b, 0)
    BY DEF Pass
  <2> QED
    BY <1>1, <2>1
<1>3. PICK f : Pass(f, a, b, n - 1)
  <2>1. n - 1 \in Nat /\ n - 1 \notin T
    BY <1>1, <1>2
  <2> QED
    BY <2>1
<1> DEFINE g == [i \in 0..n |-> IF i < n THEN f[i] ELSE Passed(a, n, f[n - 1])]
<1>4. ASSUME NEW i \in 0..n
      PROVE  g[i] = IF i = 0 THEN Start(b) ELSE Passed(a, i, g[i - 1])
  <2>1. n \in Nat
    OBVIOUS
  <2>2. CASE i < n
    <3>1. i \in 0..(n - 1) /\ f[i] = IF i = 0 THEN Start(b) ELSE Passed(a, i, f[i - 1])
      BY <1>3, <2>1, <2>2 DEF Pass
    <3>2. i # 0 => g[i - 1] = f[i - 1]
      BY <2>1, <2>2
    <3> QED
      BY <2>2, <3>1, <3>2
  <2>3. CASE i = n
    <3>1. g[n - 1] = f[n - 1]
      BY <1>2, <2>1
    <3> QED
      BY <1>2, <2>3, <3>1
  <2> QED
    BY <2>1, <2>2, <2>3
<1>5. Pass(g, a, b, n)
  <2> HIDE DEF g
  <2>1. DOMAIN g = 0..n
    BY DEF g
  <2>2. g = [i \in 0..n |-> g[i]]
    BY <2>1 DEF g
  <2> QED
    BY <1>4, <2>2 DEF Pass
<1> QED
  BY <1>1, <1>5

\* Rooted is that pass.
LEMMA RootedPass ==
    ASSUME NEW a \in Seq(Names), NEW b
    PROVE  Pass(Rooted(a, b), a, b, Len(a))
<1>1. Len(a) \in Nat
  OBVIOUS
<1>2. \E f : Pass(f, a, b, Len(a))
  BY <1>1, PassExists
<1> QED
  BY <1>2 DEF Rooted, Pass, Start, Passed

\* The types of levels.
FileSystems == Seq(Bases \union Seq(Names))
Places == [fs : FileSystems, rel : Seq(Names)]
Level ==
    [name : Names \union Bases, fs : FileSystems \ {<<>>}, rel : Seq(Names), listed : Places]

\* What holds at every number if it holds at zero and with a number at the next one.
LEMMA EveryNumber ==
    ASSUME NEW n \in Nat, NEW G \in SUBSET (0..n), 0 \in G,
           \A i \in 1..n : i - 1 \in G => i \in G
    PROVE  \A i \in 0..n : i \in G
<1> DEFINE T == {i \in 0..n : i \notin G}
<1> SUFFICES ASSUME T # {} PROVE FALSE
  OBVIOUS
<1>1. PICK k \in T : \A m \in T : k <= m
  <2>1. T \in SUBSET Nat
    OBVIOUS
  <2> QED
    BY <2>1, LeastNumber
<1>2. k # 0 /\ k \in 1..n
  BY <1>1
<1>3. k - 1 \in G
  BY <1>1, <1>2
<1> QED
  BY <1>1, <1>2, <1>3

\* What a pass over an address is after i names.
LEMMA PassFacts ==
    ASSUME NEW a \in Seq(Names), NEW b \in Bases
    PROVE  LET r == Rooted(a, b)
           IN  /\ r[0] = Start(b)
               /\ \A i \in 1..Len(a) : r[i] = Passed(a, i, r[i - 1])
               /\ \A i \in 0..Len(a) :
                     /\ r[i].from \in 1..(i + 1)
                     /\ r[i].fs \in FileSystems
                     /\ r[i].fs # <<>>
<1> DEFINE r == Rooted(a, b)
<1>1. Pass(r, a, b, Len(a)) /\ Len(a) \in Nat
  BY RootedPass
<1> HIDE DEF r
<1>2. r[0] = Start(b)
  BY <1>1 DEF Pass
<1>3. \A i \in 1..Len(a) : r[i] = Passed(a, i, r[i - 1])
  BY <1>1 DEF Pass
<1> DEFINE G == {i \in 0..Len(a) : r[i].from \in 1..(i + 1) /\ r[i].fs \in FileSystems
                                                            /\ r[i].fs # <<>>}
<1>4. 0 \in G
  <2>1. <<b>> \in FileSystems /\ <<b>> # <<>>
    BY DEF FileSystems
  <2>2. r[0].from = 1 /\ r[0].fs = <<b>>
    BY <1>2 DEF Start
  <2>3. 0 \in 0..Len(a) /\ r[0].from \in 1..(0 + 1)
    BY <1>1, <2>2
  <2> QED
    BY <2>1, <2>2, <2>3
<1>5. ASSUME NEW i \in 1..Len(a), i - 1 \in G PROVE i \in G
  <2>1. /\ r[i - 1].from \in 1..i /\ r[i - 1].fs \in FileSystems /\ r[i - 1].fs # <<>>
        /\ i \in Nat
    BY <1>1, <1>5
  <2>2. SubSeq(a, r[i - 1].from, i) \in Seq(Names)
    <3>1. \A j \in r[i - 1].from..i : a[j] \in Names
      BY <2>1
    <3> QED
      BY <2>1, <3>1, SubSeqProperties
  <2>3. LET f == Append(r[i - 1].fs, SubSeq(a, r[i - 1].from, i))
        IN  f \in FileSystems /\ f # <<>>
    <3> DEFINE d == SubSeq(a, r[i - 1].from, i)
               fs == r[i - 1].fs
    <3>1. d \in Bases \union Seq(Names) /\ fs \in Seq(Bases \union Seq(Names))
      BY <2>1, <2>2 DEF FileSystems
    <3> HIDE DEF d, fs
    <3>2. Append(fs, d) \in Seq(Bases \union Seq(Names)) /\ Append(fs, d) # <<>>
      BY <3>1, AppendProperties
    <3> QED
      BY <3>2 DEF d, fs, FileSystems
  <2>4. i + 1 \in 1..(i + 1) /\ r[i - 1].from \in 1..(i + 1)
    BY <2>1
  <2>5. CASE a[i] \in Archives
    <3> DEFINE f == Append(r[i - 1].fs, SubSeq(a, r[i - 1].from, i))
    <3>1. r[i] = [fs |-> f, from |-> i + 1]
      BY <1>3, <2>5 DEF Passed
    <3>2. f \in FileSystems /\ f # <<>>
      BY <2>3
    <3> HIDE DEF f
    <3>3. r[i].fs = f /\ r[i].from = i + 1
      BY <3>1
    <3> QED
      BY <2>4, <3>2, <3>3
  <2>6. CASE a[i] \notin Archives
    <3>1. r[i] = r[i - 1]
      BY <1>3, <2>6 DEF Passed
    <3> QED
      BY <2>1, <2>4, <3>1
  <2> QED
    BY <2>5, <2>6
<1> HIDE DEF G
<1>6. \A i \in 0..Len(a) : i \in G
  <2>1. G \subseteq 0..Len(a)
    BY DEF G
  <2> QED
    BY <1>1, <1>4, <1>5, <2>1, EveryNumber
<1> QED
  BY <1>2, <1>3, <1>6 DEF G, r

\* One more element of a stretch of a sequence.
LEMMA LongerStretch ==
    ASSUME NEW a \in Seq(Names), NEW i \in 1..Len(a), NEW m \in 1..i
    PROVE  /\ SubSeq(a, m, i - 1) \in Seq(Names)
           /\ SubSeq(a, m, i) = Append(SubSeq(a, m, i - 1), a[i])
           /\ SubSeq(a, i + 1, i) = <<>>
<1> DEFINE t == SubSeq(a, m, i - 1)
           u == SubSeq(a, m, i)
<1>1. /\ Len(a) \in Nat /\ i \in Nat /\ m \in Nat /\ i - 1 \in Int
      /\ \A j \in 1..Len(a) : a[j] \in Names
  BY ElementOfSeq, LenProperties
<1>2. /\ t \in Seq(Names) /\ Len(t) = i - m
      /\ \A k \in 1..(i - 1) - m + 1 : t[k] = a[m + k - 1]
  <2>1. \A j \in m..(i - 1) : a[j] \in Names
    BY <1>1
  <2>2. Len(t) = IF m <= i - 1 THEN (i - 1) - m + 1 ELSE 0
    BY <1>1, <2>1, SubSeqProperties
  <2> QED
    BY <1>1, <2>1, <2>2, SubSeqProperties
<1>3. /\ u \in Seq(Names) /\ Len(u) = i - m + 1
      /\ \A k \in 1..i - m + 1 : u[k] = a[m + k - 1]
  <2>1. \A j \in m..i : a[j] \in Names
    BY <1>1
  <2> QED
    BY <1>1, <2>1, SubSeqProperties
<1> HIDE DEF t, u
<1>4. /\ Append(t, a[i]) \in Seq(Names) /\ Len(Append(t, a[i])) = i - m + 1
      /\ \A k \in 1..i - m : Append(t, a[i])[k] = t[k]
      /\ Append(t, a[i])[i - m + 1] = a[i]
  <2>1. t \in Seq(Names) /\ a[i] \in Names /\ Len(t) = i - m
    BY <1>1, <1>2
  <2>2. /\ Append(t, a[i]) \in Seq(Names) /\ Len(Append(t, a[i])) = Len(t) + 1
        /\ \A k \in 1..Len(t) : Append(t, a[i])[k] = t[k]
        /\ Append(t, a[i])[Len(t) + 1] = a[i]
    BY <2>1, AppendProperties
  <2> QED
    BY <2>1, <2>2
<1>5. ASSUME NEW k \in 1..i - m + 1 PROVE u[k] = Append(t, a[i])[k]
  <2>1. CASE k = i - m + 1
    BY <1>1, <1>3, <1>4, <2>1
  <2>2. CASE k # i - m + 1
    <3>1. k \in 1..i - m /\ k \in 1..(i - 1) - m + 1
      BY <1>1, <2>2
    <3> QED
      BY <1>2, <1>3, <1>4, <3>1
  <2> QED
    BY <2>1, <2>2
<1>6. u = Append(t, a[i])
  BY <1>3, <1>4, <1>5, SeqEqual
<1>7. SubSeq(a, i + 1, i) = <<>>
  BY <1>1, SubSeqEmpty
<1> QED
  BY <1>2, <1>6, <1>7 DEF t, u

\* The levels of an address, by the pass over it.
LEMMA BuiltFacts ==
    ASSUME NEW a \in Seq(Names), NEW b \in Bases
    PROVE  LET p == BuildLevels(a, b)
               r == Rooted(a, b)
           IN  /\ p \in Seq(Level) /\ Len(p) = Len(a) + 1
               /\ p[1] = RootLevel(b)
               /\ \A i \in 2..(Len(a) + 1) : p[i].name = a[i - 1]
               /\ \A i \in 1..(Len(a) + 1) :
                     /\ p[i].listed = Nowhere
                     /\ p[i].fs = r[i - 1].fs
                     /\ p[i].rel = SubSeq(a, r[i - 1].from, i - 1)
<1> DEFINE r == Rooted(a, b)
           p == BuildLevels(a, b)
           l(i) == IF i = 1 THEN RootLevel(b)
                   ELSE [name |-> a[i - 1], fs |-> r[i - 1].fs,
                         rel |-> SubSeq(a, r[i - 1].from, i - 1), listed |-> Nowhere]
<1>1. Len(a) \in Nat /\ \A j \in 1..Len(a) : a[j] \in Names
  BY ElementOfSeq, LenProperties
<1>2. p = [i \in 1..(Len(a) + 1) |-> l(i)]
  BY DEF BuildLevels
<1>3. /\ r[0] = Start(b)
      /\ \A i \in 0..Len(a) : /\ r[i].from \in 1..(i + 1)
                              /\ r[i].fs \in FileSystems
                              /\ r[i].fs # <<>>
  BY PassFacts
<1> HIDE DEF r, p
<1>4. Nowhere \in Places
  BY DEF Nowhere, Places, FileSystems
<1>5. /\ RootLevel(b) \in Level /\ RootLevel(b).listed = Nowhere
      /\ RootLevel(b).fs = r[0].fs /\ RootLevel(b).rel = SubSeq(a, r[0].from, 0)
  <2>1. SubSeq(a, 1, 0) = <<>>
    BY SubSeqEmpty
  <2>2. RootLevel(b) \in Level
    BY <1>4 DEF RootLevel, Level, FileSystems
  <2> QED
    BY <1>3, <2>1, <2>2 DEF RootLevel, Start
<1>6. ASSUME NEW i \in 2..(Len(a) + 1) PROVE l(i) \in Level
  <2>1. i - 1 \in 1..Len(a) /\ i - 1 \in 0..Len(a) /\ i # 1
    BY <1>1
  <2>2. r[i - 1].from \in 1..i
    BY <1>3, <2>1
  <2>3. SubSeq(a, r[i - 1].from, i - 1) \in Seq(Names)
    <3>1. \A j \in r[i - 1].from..(i - 1) : a[j] \in Names
      BY <1>1, <2>1, <2>2
    <3> QED
      BY <2>1, <2>2, <3>1, SubSeqProperties
  <2>4. a[i - 1] \in Names /\ r[i - 1].fs \in FileSystems \ {<<>>}
    BY <1>1, <1>3, <2>1
  <2> QED
    BY <1>4, <2>1, <2>3, <2>4 DEF Level
<1>7. \A i \in 1..(Len(a) + 1) : l(i) \in Level
  BY <1>1, <1>5, <1>6
<1>8. p \in Seq(Level) /\ Len(p) = Len(a) + 1
  <2> HIDE DEF l
  <2>1. p \in [1..(Len(a) + 1) -> Level]
    BY <1>2, <1>7
  <2> QED
    BY <1>1, <2>1
<1>9. ASSUME NEW i \in 2..(Len(a) + 1)
      PROVE  /\ p[i].name = a[i - 1] /\ p[i].listed = Nowhere /\ p[i].fs = r[i - 1].fs
             /\ p[i].rel = SubSeq(a, r[i - 1].from, i - 1)
  <2>1. i \in 1..(Len(a) + 1) /\ i # 1
    BY <1>1
  <2>2. p[i] = l(i)
    <3> HIDE DEF l
    <3> QED
      BY <1>2, <2>1
  <2> DEFINE n == a[i - 1]
             f == r[i - 1].fs
             e == SubSeq(a, r[i - 1].from, i - 1)
  <2>3. p[i] = [name |-> n, fs |-> f, rel |-> e, listed |-> Nowhere]
    BY <2>1, <2>2
  <2> HIDE DEF n, f, e
  <2>4. p[i].name = n /\ p[i].listed = Nowhere /\ p[i].fs = f /\ p[i].rel = e
    BY <2>3
  <2> QED
    BY <2>4 DEF n, f, e
<1>10. p[1] = RootLevel(b)
  BY <1>1, <1>2
<1>11. \A i \in 1..(Len(a) + 1) : i = 1 \/ i \in 2..(Len(a) + 1)
  BY <1>1
<1> HIDE DEF l
<1> QED
  BY <1>5, <1>8, <1>9, <1>10, <1>11 DEF p, r

\* A path that starts at the root of a file system and goes on by entering names.
Stepwise(p) ==
    /\ p \in Seq(Level)
    /\ p # <<>>
    /\ p[1].name \in Bases
    /\ Place(p[1]) = Place(RootLevel(p[1].name))
    /\ \A i \in 2..Len(p) :
          /\ p[i].name \in Names
          /\ Place(p[i]) = Place(Entered(p[i - 1], p[i].name))

\* Where entering leads depends on the place it is done from alone.
LEMMA EnteredFacts ==
    \A l, n : Place(Entered(l, n)) =
        IF n \in Archives THEN [fs |-> Append(l.fs, Append(l.rel, n)), rel |-> <<>>]
        ELSE [fs |-> l.fs, rel |-> Append(l.rel, n)]
BY DEF Entered, Place

\* Places are equal if the file systems and the ways in them are.
LEMMA PlaceFacts ==
    /\ \A l, m : Place(l) = Place(m) <=> l.fs = m.fs /\ l.rel = m.rel
    /\ \A l : Place(l).fs = l.fs /\ Place(l).rel = l.rel
BY DEF Place

\* The levels of an address are entered one from the other.
LEMMA BuiltStepwise ==
    ASSUME NEW a \in Seq(Names), NEW b \in Bases
    PROVE  /\ Stepwise(BuildLevels(a, b))
           /\ Len(BuildLevels(a, b)) = Len(a) + 1
           /\ BuildLevels(a, b)[1].name = b
           /\ \A i \in 2..(Len(a) + 1) : BuildLevels(a, b)[i].name = a[i - 1]
           /\ \A i \in 1..(Len(a) + 1) : BuildLevels(a, b)[i].listed = Nowhere
<1> DEFINE p == BuildLevels(a, b)
           r == Rooted(a, b)
<1>1. Len(a) \in Nat /\ \A j \in 1..Len(a) : a[j] \in Names
  BY ElementOfSeq, LenProperties
<1>2. /\ p \in Seq(Level) /\ Len(p) = Len(a) + 1
      /\ p[1] = RootLevel(b)
      /\ \A i \in 2..(Len(a) + 1) : p[i].name = a[i - 1]
      /\ \A i \in 1..(Len(a) + 1) :
            /\ p[i].listed = Nowhere
            /\ p[i].fs = r[i - 1].fs
            /\ p[i].rel = SubSeq(a, r[i - 1].from, i - 1)
  BY BuiltFacts
<1>3. /\ \A i \in 1..Len(a) : r[i] = Passed(a, i, r[i - 1])
      /\ \A i \in 0..Len(a) : r[i].from \in 1..(i + 1)
  BY PassFacts
<1> HIDE DEF p, r
<1>4. p # <<>> /\ p[1].name = b /\ Place(p[1]) = Place(RootLevel(p[1].name))
  BY <1>1, <1>2 DEF RootLevel
<1>5. ASSUME NEW k \in 2..Len(p)
      PROVE  p[k].name \in Names /\ Place(p[k]) = Place(Entered(p[k - 1], p[k].name))
  <2> DEFINE i == k - 1
             q == r[i - 1]
             l == p[i]
  <2>1. i \in 1..Len(a) /\ k = i + 1 /\ k \in 2..(Len(a) + 1) /\ k \in 1..(Len(a) + 1)
        /\ i \in 1..(Len(a) + 1) /\ i - 1 \in 0..Len(a) /\ i \in Nat /\ k - 1 = i
    BY <1>1, <1>2
  <2> HIDE DEF i
  <2>2. p[k].name = a[i] /\ a[i] \in Names
    BY <1>1, <1>2, <2>1
  <2>3. l.fs = q.fs /\ l.rel = SubSeq(a, q.from, i - 1) /\ q.from \in 1..i
    BY <1>2, <1>3, <2>1
  <2>4. p[k].fs = r[i].fs /\ p[k].rel = SubSeq(a, r[i].from, i) /\ r[i] = Passed(a, i, q)
    BY <1>2, <1>3, <2>1
  <2>5. SubSeq(a, q.from, i) = Append(l.rel, a[i]) /\ SubSeq(a, i + 1, i) = <<>>
    BY <2>1, <2>3, LongerStretch
  <2> HIDE DEF q, l
  <2>6. Place(p[k]) = Place(Entered(l, a[i]))
    <3>1. CASE a[i] \in Archives
      <4> DEFINE f == Append(q.fs, SubSeq(a, q.from, i))
      <4>1. r[i] = [fs |-> f, from |-> i + 1]
        BY <2>4, <3>1 DEF Passed
      <4>2. f = Append(l.fs, Append(l.rel, a[i]))
        BY <2>3, <2>5
      <4> HIDE DEF f
      <4>3. r[i].fs = f /\ r[i].from = i + 1
        BY <4>1
      <4>4. p[k].fs = f /\ p[k].rel = <<>>
        BY <2>4, <2>5, <4>3
      <4>5. Place(p[k]) = [fs |-> f, rel |-> <<>>]
        BY <4>4 DEF Place
      <4> QED
        BY <3>1, <4>2, <4>5, EnteredFacts
    <3>2. CASE a[i] \notin Archives
      <4>1. r[i] = q
        BY <2>4, <3>2 DEF Passed
      <4> DEFINE e == Append(l.rel, a[i])
      <4>2. p[k].fs = l.fs /\ p[k].rel = e
        BY <2>3, <2>4, <2>5, <4>1
      <4>3. Place(Entered(l, a[i])) = [fs |-> l.fs, rel |-> e]
        BY <3>2, EnteredFacts
      <4> HIDE DEF e
      <4>4. Place(p[k]) = [fs |-> l.fs, rel |-> e]
        BY <4>2 DEF Place
      <4> QED
        BY <4>3, <4>4
    <3> QED
      BY <3>1, <3>2
  <2> QED
    BY <2>1, <2>2, <2>6 DEF l
<1>6. Stepwise(p)
  BY <1>2, <1>4, <1>5 DEF Stepwise
<1> QED
  BY <1>2, <1>4, <1>6 DEF p

\* What a path reads is an address that leads to the same places, but for the
\* base where the address is looked up from another one.
LEMMA StepwiseAsTyped ==
    ASSUME NEW p, Stepwise(p)
    PROVE  AsTyped(p)
<1> DEFINE a == Display(p)
           b == p[1].name
           w == IF Len(p) = 1 THEN b ELSE WalkBase(b)
           t == BuildLevels(a, w)
<1>1. /\ p \in Seq(Level) /\ Len(p) \in Nat /\ Len(p) > 0 /\ b \in Bases /\ w \in Bases
      /\ b \notin RootFs => w = b
  BY EmptySeq, LenProperties, PanelNavAssumption DEF Stepwise, WalkBase
<1>2. /\ a \in Seq(Names) /\ Len(a) = Len(p) - 1
      /\ \A i \in 1..(Len(p) - 1) : a[i] = p[i + 1].name
  <2>1. \A i \in 1..(Len(p) - 1) : i + 1 \in 2..Len(p)
    BY <1>1
  <2>2. a \in [1..(Len(p) - 1) -> Names]
    BY <2>1 DEF Display, Stepwise
  <2>3. \A i \in 1..(Len(p) - 1) : a[i] = p[i + 1].name
    BY DEF Display
  <2>4. Len(p) - 1 \in Nat
    BY <1>1
  <2> HIDE DEF a
  <2>5. a \in Seq(Names) /\ Len(a) = Len(p) - 1
    BY <2>2, <2>4
  <2> QED
    BY <2>3, <2>5
<1>3. p[1].fs = <<b>> /\ p[1].rel = <<>> /\ p[1].fs[1] = b
  <2>1. p[1].fs = RootLevel(b).fs /\ p[1].rel = RootLevel(b).rel
    BY PlaceFacts DEF Stepwise
  <2> QED
    BY <2>1 DEF RootLevel
<1> HIDE DEF a, b, w
<1>4. /\ Stepwise(t) /\ Len(t) = Len(p) /\ t[1].name = w
      /\ \A i \in 2..Len(p) : t[i].name = p[i].name
  <2>1. /\ Stepwise(t) /\ Len(t) = Len(a) + 1 /\ t[1].name = w
        /\ \A i \in 2..(Len(a) + 1) : t[i].name = a[i - 1]
    BY <1>1, <1>2, BuiltStepwise
  <2> HIDE DEF t
  <2>2. Len(t) = Len(p) /\ Len(a) + 1 = Len(p)
    BY <1>1, <1>2, <2>1
  <2>3. ASSUME NEW i \in 2..Len(p) PROVE t[i].name = p[i].name
    <3>1. i - 1 \in 1..(Len(p) - 1) /\ i \in 2..(Len(a) + 1) /\ (i - 1) + 1 = i
      BY <1>1, <2>2
    <3>2. a[i - 1] = p[(i - 1) + 1].name
      BY <1>2, <3>1
    <3> QED
      BY <2>1, <3>1, <3>2
  <2> QED
    BY <2>1, <2>2, <2>3
<1> HIDE DEF t
<1>5. t[1].fs = <<w>> /\ t[1].rel = <<>>
  <2>1. t[1].fs = RootLevel(w).fs /\ t[1].rel = RootLevel(w).rel
    BY <1>4, PlaceFacts DEF Stepwise
  <2> QED
    BY <2>1 DEF RootLevel
<1> DEFINE n == Len(p) - 1
           Alike(l, m) == /\ l.rel = m.rel /\ Tail(l.fs) = Tail(m.fs)
                          /\ w = b => l.fs = m.fs
           G == {i \in 0..n : Alike(p[i + 1], t[i + 1])}
<1>6. 0 \in G
  <2>1. Tail(<<b>>) = Tail(<<w>>)
    BY <1>1
  <2>2. Alike(p[1], t[1]) /\ 0 \in 0..n /\ 0 + 1 = 1
    BY <1>1, <1>3, <1>5, <2>1
  <2> HIDE DEF Alike
  <2> QED
    BY <2>2
<1>7. ASSUME NEW l, NEW m, NEW name \in Names, Alike(l, m), l \in Level, m \in Level
      PROVE  Alike(Place(Entered(l, name)), Place(Entered(m, name)))
  <2> DEFINE T == Seq(Names) \union Bases
             e == Append(l.rel, name)
  <2>1. l.rel = m.rel /\ Tail(l.fs) = Tail(m.fs) /\ (w = b => l.fs = m.fs) /\ Append(m.rel, name) = e
    BY <1>7
  <2>2. l.fs \in FileSystems /\ l.fs # <<>> /\ m.fs \in FileSystems /\ m.fs # <<>> /\ l.rel \in Seq(Names)
    BY <1>7 DEF Level
  <2>3. e \in Seq(Names)
    BY <2>2
  <2> HIDE DEF e
  <2>4. Tail(Append(l.fs, e)) = Tail(Append(m.fs, e))
    <3>1. l.fs \in Seq(T) /\ m.fs \in Seq(T) /\ e \in T
      BY <2>2, <2>3 DEF FileSystems
    <3> HIDE DEF T
    <3>2. Tail(Append(l.fs, e)) = Append(Tail(l.fs), e) /\ Tail(Append(m.fs, e)) = Append(Tail(m.fs), e)
      BY <2>2, <3>1, HeadTailAppend
    <3> QED
      BY <2>1, <3>2
  <2>5. CASE name \in Archives
    <3>1. /\ Place(Entered(l, name)) = [fs |-> Append(l.fs, e), rel |-> <<>>]
          /\ Place(Entered(m, name)) = [fs |-> Append(m.fs, e), rel |-> <<>>]
      BY <2>1, <2>5, EnteredFacts DEF e
    <3> QED
      BY <2>1, <2>4, <3>1
  <2>6. CASE name \notin Archives
    <3>1. /\ Place(Entered(l, name)) = [fs |-> l.fs, rel |-> e]
          /\ Place(Entered(m, name)) = [fs |-> m.fs, rel |-> e]
      BY <2>1, <2>6, EnteredFacts DEF e
    <3> QED
      BY <2>1, <3>1
  <2> QED
    BY <2>5, <2>6
<1>8. ASSUME NEW i \in 1..n, i - 1 \in G PROVE i \in G
  <2>1. /\ i + 1 \in 2..Len(p) /\ (i + 1) - 1 = i /\ (i - 1) + 1 = i /\ i \in 0..n /\ i \in 1..Len(p)
    BY <1>1
  <2>2. Alike(p[i], t[i])
    BY <1>8, <2>1
  <2>3. /\ Place(p[i + 1]) = Place(Entered(p[i], p[i + 1].name))
        /\ Place(t[i + 1]) = Place(Entered(t[i], p[i + 1].name))
        /\ p[i + 1].name \in Names
    BY <1>4, <2>1 DEF Stepwise
  <2>4. p[i] \in Level /\ t[i] \in Level
    BY <1>1, <1>4, <2>1, ElementOfSeq DEF Stepwise
  <2> HIDE DEF Alike
  <2>5. Alike(Place(p[i + 1]), Place(t[i + 1]))
    BY <1>7, <2>2, <2>3, <2>4
  <2> USE DEF Alike
  <2>6. Alike(p[i + 1], t[i + 1])
    BY <2>5, PlaceFacts
  <2> QED
    BY <2>1, <2>6
<1>9. \A i \in 0..n : i \in G
  <2>1. n \in Nat /\ G \in SUBSET (0..n)
    BY <1>1
  <2> HIDE DEF G, n
  <2> QED
    BY <1>6, <1>8, <2>1, EveryNumber
<1>10. ASSUME NEW i \in 1..Len(p) PROVE Alike(p[i], t[i])
  <2>1. i - 1 \in 0..n /\ (i - 1) + 1 = i
    BY <1>1
  <2> QED
    BY <1>9, <2>1
<1>11. Typing(p) = t
  BY <1>3 DEF Typing, a, b, w, t
<1> QED
  BY <1>1, <1>3, <1>10, <1>11 DEF AsTyped

\* What is below a level of a path is a path.
LEMMA StepwisePrefix ==
    ASSUME NEW p, Stepwise(p), NEW k \in 1..Len(p)
    PROVE  LET q == SubSeq(p, 1, k)
           IN  /\ Stepwise(q) /\ Len(q) = k
               /\ \A i \in 1..k : q[i] = p[i]
<1> DEFINE q == SubSeq(p, 1, k)
<1>1. p \in Seq(Level) /\ Len(p) \in Nat /\ k \in Nat /\ k > 0
  BY LenProperties DEF Stepwise
<1>2. q \in Seq(Level) /\ Len(q) = k /\ \A i \in 1..k : q[i] = p[i]
  <2>1. \A i \in 1..k : p[i] \in Level
    BY <1>1
  <2>2. /\ q \in Seq(Level) /\ Len(q) = IF 1 <= k THEN k - 1 + 1 ELSE 0
        /\ \A i \in 1..k - 1 + 1 : q[i] = p[1 + i - 1]
    BY <1>1, <2>1, SubSeqProperties
  <2> HIDE DEF q
  <2> QED
    BY <1>1, <2>2
<1> HIDE DEF q
<1>3. q # <<>>
  BY <1>1, <1>2
<1>4. 1 \in 1..k /\ q[1] = p[1]
  BY <1>1, <1>2
<1>5. ASSUME NEW i \in 2..Len(q)
      PROVE  q[i].name \in Names /\ Place(q[i]) = Place(Entered(q[i - 1], q[i].name))
  <2>1. i \in 1..k /\ i - 1 \in 1..k /\ i \in 2..Len(p)
    BY <1>1, <1>2
  <2>2. q[i] = p[i] /\ q[i - 1] = p[i - 1]
    BY <1>2, <2>1
  <2> QED
    BY <2>1, <2>2 DEF Stepwise
<1>6. Stepwise(q)
  BY <1>2, <1>3, <1>4, <1>5 DEF Stepwise
<1> QED
  BY <1>2, <1>6 DEF q

\* Entering a name from the last level of a path makes a longer path.
LEMMA StepwiseEntered ==
    ASSUME NEW p, Stepwise(p), NEW n \in Names
    PROVE  LET q == Append(p, Entered(Active(p), n))
           IN  /\ Stepwise(q) /\ Len(q) = Len(p) + 1
               /\ \A i \in 1..Len(p) : q[i] = p[i]
               /\ q[Len(q)].listed = Nowhere
<1> DEFINE l == Active(p)
           e == Entered(l, n)
           q == Append(p, e)
<1>1. p \in Seq(Level) /\ Len(p) \in Nat /\ Len(p) > 0 /\ l \in Level
  BY EmptySeq, LenProperties DEF Stepwise, Active
<1>2. /\ l.fs \in FileSystems /\ l.fs # <<>> /\ l.rel \in Seq(Names)
      /\ l.fs \in Seq(Bases \union Seq(Names))
  <2> HIDE DEF l
  <2> QED
    BY <1>1 DEF Level, FileSystems
<1> HIDE DEF l
<1> DEFINE m == Append(l.rel, n)
           f == Append(l.fs, m)
<1>3. m \in Seq(Names) /\ <<>> \in Seq(Names)
  BY <1>2, AppendProperties
<1>4. f \in FileSystems /\ f # <<>>
  <2>1. m \in Bases \union Seq(Names)
    BY <1>3
  <2> HIDE DEF m
  <2> QED
    BY <1>2, <2>1, AppendProperties DEF FileSystems
<1>5. Nowhere \in Places
  BY DEF Nowhere, Places, FileSystems
<1>6. e \in Level /\ e.name = n /\ e.listed = Nowhere
  <2>1. CASE n \in Archives
    <3>1. e = [name |-> n, fs |-> f, rel |-> <<>>, listed |-> Nowhere]
      BY <2>1 DEF Entered
    <3> HIDE DEF e, f
    <3> QED
      BY <1>3, <1>4, <1>5, <3>1 DEF Level
  <2>2. CASE n \notin Archives
    <3>1. e = [name |-> n, fs |-> l.fs, rel |-> m, listed |-> Nowhere]
      BY <2>2 DEF Entered
    <3> HIDE DEF e, m
    <3> QED
      BY <1>2, <1>3, <1>5, <3>1 DEF Level
  <2> QED
    BY <2>1, <2>2
<1> HIDE DEF e
<1>7. /\ q \in Seq(Level) /\ q # <<>> /\ Len(q) = Len(p) + 1
      /\ \A i \in 1..Len(p) : q[i] = p[i]
      /\ q[Len(p) + 1] = e
  BY <1>1, <1>6, AppendProperties
<1> HIDE DEF q
<1>8. q[1] = p[1]
  BY <1>1, <1>7
<1>9. ASSUME NEW i \in 2..Len(q)
      PROVE  q[i].name \in Names /\ Place(q[i]) = Place(Entered(q[i - 1], q[i].name))
  <2>1. CASE i = Len(q)
    <3>1. i = Len(p) + 1 /\ i - 1 \in 1..Len(p) /\ i - 1 = Len(p)
      BY <1>1, <1>7, <2>1
    <3>2. q[i] = e /\ q[i - 1] = l
      BY <1>7, <3>1 DEF l, Active
    <3> QED
      BY <1>6, <3>2 DEF e
  <2>2. CASE i # Len(q)
    <3>1. i \in 1..Len(p) /\ i - 1 \in 1..Len(p) /\ i \in 2..Len(p)
      BY <1>1, <1>7, <2>2
    <3>2. q[i] = p[i] /\ q[i - 1] = p[i - 1]
      BY <1>7, <3>1
    <3> QED
      BY <3>1, <3>2 DEF Stepwise
  <2> QED
    BY <2>1, <2>2
<1>10. Stepwise(q)
  BY <1>7, <1>8, <1>9 DEF Stepwise
<1> QED
  BY <1>6, <1>7, <1>10 DEF q, e, l

\* What a level shows is no part of the path.
LEMMA StepwiseListed ==
    ASSUME NEW p, Stepwise(p), NEW x \in Places
    PROVE  LET q == [p EXCEPT ![Len(p)].listed = x]
           IN  /\ Stepwise(q) /\ Len(q) = Len(p) /\ Display(q) = Display(p)
               /\ \A i \in 1..Len(p) : Place(q[i]) = Place(p[i])
               /\ \A i \in 1..(Len(p) - 1) : q[i] = p[i]
               /\ q[Len(p)].listed = x
<1> DEFINE n == Len(p)
           l == p[n]
           e == [l EXCEPT !.listed = x]
           q == [p EXCEPT ![n] = e]
<1>1. p \in Seq(Level) /\ n \in Nat /\ n \in 1..n /\ l \in Level
  BY EmptySeq, LenProperties DEF Stepwise
<1> HIDE DEF l
<1>2. /\ e \in Level /\ e.name = l.name /\ e.fs = l.fs /\ e.rel = l.rel /\ e.listed = x
  BY <1>1 DEF Level
<1>3. Place(e) = Place(l)
  BY <1>2 DEF Place
<1> HIDE DEF e
<1>4. /\ q \in Seq(Level) /\ Len(q) = n /\ q[n] = e
      /\ \A i \in 1..n : i # n => q[i] = p[i]
  BY <1>1, <1>2, ExceptSeq
<1> HIDE DEF q
<1>5. ASSUME NEW i \in 1..n PROVE q[i].name = p[i].name /\ Place(q[i]) = Place(p[i])
  <2>1. CASE i = n
    BY <1>2, <1>3, <1>4, <2>1 DEF l
  <2>2. CASE i # n
    BY <1>4, <2>2
  <2> QED
    BY <2>1, <2>2
<1>6. ASSUME NEW k, NEW m, NEW w, Place(k) = Place(m)
      PROVE  Place(Entered(k, w)) = Place(Entered(m, w))
  <2>1. k.fs = m.fs /\ k.rel = m.rel
    BY <1>6, PlaceFacts
  <2> QED
    BY <2>1, EnteredFacts
<1>7. ASSUME NEW i \in 2..n
      PROVE  q[i].name \in Names /\ Place(q[i]) = Place(Entered(q[i - 1], q[i].name))
  <2>1. i \in 1..n /\ i - 1 \in 1..n
    BY <1>1
  <2>2. p[i].name \in Names /\ Place(p[i]) = Place(Entered(p[i - 1], p[i].name))
    BY DEF Stepwise
  <2> QED
    BY <1>5, <1>6, <2>1, <2>2
<1>8. q # <<>> /\ q[1].name = p[1].name /\ Place(q[1]) = Place(p[1])
  BY <1>1, <1>4, <1>5
<1>9. Stepwise(q)
  BY <1>4, <1>7, <1>8 DEF Stepwise
<1>10. Display(q) = Display(p)
  <2>1. \A i \in 1..(n - 1) : i + 1 \in 1..n
    BY <1>1
  <2>2. \A i \in 1..(n - 1) : q[i + 1].name = p[i + 1].name
    BY <1>5, <2>1
  <2> QED
    BY <1>4, <2>2 DEF Display
<1>11. \A i \in 1..(n - 1) : q[i] = p[i]
  BY <1>1, <1>4
<1>12. q = [p EXCEPT ![Len(p)].listed = x]
  BY DEF q, e, l
<1> HIDE DEF n
<1> QED
  BY <1>2, <1>4, <1>5, <1>9, <1>10, <1>11, <1>12 DEF n

-------------------------------------------------------------------------------
(* The history.                                                              *)

Snapshots ==
    /\ snapshots \in Seq(Seq(Level))
    /\ \A i \in 1..Len(snapshots) : Stepwise(snapshots[i])

HistoryShape ==
    /\ index \in 1..(Len(snapshots) + 1)
    /\ snapshots = <<>> => index = 1
    /\ HistoryMoves

\* Recording a path keeps the shape of the history and adds that path alone.
LEMMA RecordFacts ==
    ASSUME Snapshots, HistoryShape, NEW p, Stepwise(p), Record(p)
    PROVE  /\ Snapshots' /\ HistoryShape'
           /\ \A i \in 1..Len(snapshots') :
                 snapshots'[i] = p \/ \E j \in 1..Len(snapshots) : snapshots'[i] = snapshots[j]
<1> DEFINE n == Len(snapshots)
<1>1. /\ snapshots \in Seq(Seq(Level)) /\ n \in Nat /\ p \in Seq(Level)
      /\ index \in 1..(n + 1) /\ (snapshots # <<>> => index \in 1..n)
      /\ (snapshots = <<>> <=> n = 0)
      /\ \A i \in 1..n : snapshots[i] \in Seq(Level) /\ Stepwise(snapshots[i])
  BY EmptySeq, LenProperties, ElementOfSeq
  DEF Snapshots, HistoryShape, HistoryMoves, Stepwise
<1>2. \A i \in 1..(n - 1) : Display(snapshots[i]) # Display(snapshots[i + 1])
  BY DEF HistoryShape, HistoryMoves
<1>3. CASE index <= n /\ Display(snapshots[index]) = Display(p)
  <2>1. snapshots' = [snapshots EXCEPT ![index] = p] /\ index' = index
    BY <1>3 DEF Record
  <2>2. index \in 1..n
    BY <1>1, <1>3
  <2>3. /\ snapshots' \in Seq(Seq(Level)) /\ Len(snapshots') = n
        /\ \A i \in 1..n : snapshots'[i] = IF i = index THEN p ELSE snapshots[i]
    BY <1>1, <2>1, <2>2, ExceptSeq
  <2>4. \A i \in 1..n : Display(snapshots'[i]) = Display(snapshots[i])
    BY <1>3, <2>3
  <2>5. Snapshots'
    BY <1>1, <2>3 DEF Snapshots
  <2>6. HistoryMoves'
    <3>1. \A i \in 1..(n - 1) : i \in 1..n /\ i + 1 \in 1..n
      BY <1>1
    <3>2. \A i \in 1..(n - 1) : Display(snapshots'[i]) # Display(snapshots'[i + 1])
      BY <1>2, <2>4, <3>1
    <3> QED
      BY <2>1, <2>2, <2>3, <3>2 DEF HistoryMoves
  <2>7. HistoryShape'
    <3>1. n # 0 /\ snapshots' # <<>>
      BY <1>1, <2>2, <2>3
    <3> QED
      BY <1>1, <2>1, <2>3, <2>6, <3>1 DEF HistoryShape
  <2> QED
    BY <2>3, <2>5, <2>7
<1>4. CASE ~(index <= n /\ Display(snapshots[index]) = Display(p))
  <2> DEFINE k == Kept
             m == Len(k)
  <2>1. snapshots' = Append(k, p) /\ index' = Len(snapshots')
    BY <1>4 DEF Record
  <2>2. /\ k \in Seq(Seq(Level)) /\ m \in 0..n /\ (n > 0 => m = index)
        /\ \A i \in 1..m : k[i] = snapshots[i]
    <3>1. CASE snapshots = <<>>
      BY <1>1, <3>1 DEF Kept
    <3>2. CASE snapshots # <<>>
      <4>1. k = SubSeq(snapshots, 1, index) /\ index \in 1..n
        BY <1>1, <3>2 DEF Kept
      <4>2. \A i \in 1..index : snapshots[i] \in Seq(Level)
        BY <1>1, <4>1
      <4>3. /\ SubSeq(snapshots, 1, index) \in Seq(Seq(Level))
            /\ Len(SubSeq(snapshots, 1, index)) = IF 1 <= index THEN index - 1 + 1 ELSE 0
            /\ \A i \in 1..index - 1 + 1 :
                  SubSeq(snapshots, 1, index)[i] = snapshots[1 + i - 1]
        BY <1>1, <4>1, <4>2, SubSeqProperties
      <4> QED
        BY <1>1, <4>1, <4>3
    <3> QED
      BY <3>1, <3>2
  <2> HIDE DEF k
  <2>3. /\ snapshots' \in Seq(Seq(Level)) /\ Len(snapshots') = m + 1 /\ snapshots' # <<>>
        /\ \A i \in 1..m : snapshots'[i] = k[i]
        /\ snapshots'[m + 1] = p
    <3>1. k \in Seq(Seq(Level)) /\ p \in Seq(Level)
      BY <1>1, <2>2
    <3>2. /\ Append(k, p) \in Seq(Seq(Level)) /\ Append(k, p) # <<>>
          /\ Len(Append(k, p)) = m + 1
          /\ \A i \in 1..m : Append(k, p)[i] = k[i]
          /\ Append(k, p)[m + 1] = p
      <4> HIDE DEF m
      <4>1. m = Len(k)
        BY DEF m
      <4> QED
        BY <3>1, <4>1, AppendProperties
    <3> QED
      BY <2>1, <3>2
  <2>4. ASSUME NEW i \in 1..m PROVE i \in 1..n /\ snapshots'[i] = snapshots[i]
    BY <1>1, <2>2, <2>3
  <2>5. ASSUME NEW i \in 1..Len(snapshots')
        PROVE  snapshots'[i] = p \/ \E j \in 1..n : snapshots'[i] = snapshots[j]
    <3>1. i \in 1..m \/ i = m + 1
      BY <2>2, <2>3
    <3> QED
      BY <2>3, <2>4, <3>1
  <2>6. Snapshots'
    BY <1>1, <2>3, <2>5 DEF Snapshots
  <2>7. ASSUME NEW i \in 1..(Len(snapshots') - 1)
        PROVE  Display(snapshots'[i]) # Display(snapshots'[i + 1])
    <3>1. i \in 1..m
      BY <2>2, <2>3
    <3>2. CASE i = m
      <4>1. n > 0 /\ m = index /\ m <= n
        <5> HIDE DEF m
        <5>1. n \in Nat
          BY <1>1
        <5> QED
          BY <2>2, <3>1, <5>1
      <4>2. Display(snapshots[m]) # Display(p)
        BY <1>4, <4>1
      <4> QED
        BY <2>3, <2>4, <3>1, <3>2, <4>2
    <3>3. CASE i # m
      <4>1. i + 1 \in 1..m /\ i \in 1..(n - 1)
        BY <2>2, <3>1, <3>3
      <4> QED
        BY <1>2, <2>4, <3>1, <4>1
    <3> QED
      BY <3>2, <3>3
  <2>8. HistoryShape'
    <3>1. index' \in 1..Len(snapshots') /\ index' \in 1..(Len(snapshots') + 1)
      BY <2>1, <2>2, <2>3
    <3> QED
      BY <2>3, <2>7, <3>1 DEF HistoryShape, HistoryMoves
  <2> QED
    BY <2>5, <2>6, <2>8
<1> QED
  BY <1>3, <1>4

-------------------------------------------------------------------------------
(* Types.                                                                    *)

Walk == [names : Addresses, seg : Nat, origin : Bases, walk : Bases]

TaskTypes ==
    /\ phase \in [Tasks -> {"idle", "spawned", "listing", "walk"}]
    /\ at \in [Tasks -> Places]
    /\ want \in [Tasks -> {"show", "record", "type", "finish"}]
    /\ bounded \in [Tasks -> BOOLEAN]
    /\ typed \in [Tasks -> Walk]
    /\ \A t \in Tasks : phase[t] = "walk" => typed[t].seg \in 1..Len(typed[t].names)

Types ==
    /\ Stepwise(path)
    /\ Snapshots
    /\ HistoryShape
    /\ resolving \in BOOLEAN
    /\ TaskTypes
    /\ requests \in 0..MaxRequests
    /\ past \subseteq {"overlapped", "given_up"}

\* What task t may change of the tasks: its own.
Own(t) ==
    /\ phase' = [phase EXCEPT ![t] = phase'[t]]
    /\ at' = [at EXCEPT ![t] = at'[t]]
    /\ want' = [want EXCEPT ![t] = want'[t]]
    /\ bounded' = [bounded EXCEPT ![t] = bounded'[t]]
    /\ typed' = [typed EXCEPT ![t] = typed'[t]]

Others(t) ==
    \A u \in Tasks \ {t} : phase'[u] = phase[u] /\ want'[u] = want[u] /\ at'[u] = at[u]

\* A step of one task keeps the types if what it changes of that task has them.
LEMMA OwnTypes ==
    ASSUME TaskTypes, NEW t \in Tasks, Own(t),
           phase'[t] \in {"idle", "spawned", "listing", "walk"}, at'[t] \in Places,
           want'[t] \in {"show", "record", "type", "finish"}, bounded'[t] \in BOOLEAN,
           typed'[t] \in Walk,
           phase'[t] = "walk" => typed'[t].seg \in 1..Len(typed'[t].names)
    PROVE  TaskTypes' /\ Others(t)
<1>1. \A u \in Tasks \ {t} :
         /\ phase'[u] = phase[u] /\ at'[u] = at[u] /\ want'[u] = want[u]
         /\ bounded'[u] = bounded[u] /\ typed'[u] = typed[u]
  BY DEF Own, TaskTypes
<1>2. phase' \in [Tasks -> {"idle", "spawned", "listing", "walk"}]
  BY DEF Own, TaskTypes
<1>3. at' \in [Tasks -> Places]
  BY DEF Own, TaskTypes
<1>4. want' \in [Tasks -> {"show", "record", "type", "finish"}]
  BY DEF Own, TaskTypes
<1>5. bounded' \in [Tasks -> BOOLEAN]
  BY DEF Own, TaskTypes
<1>6. typed' \in [Tasks -> Walk]
  BY DEF Own, TaskTypes
<1>7. ASSUME NEW u \in Tasks, phase'[u] = "walk"
      PROVE  typed'[u].seg \in 1..Len(typed'[u].names)
  <2>1. CASE u = t
    BY <1>7, <2>1
  <2>2. CASE u # t
    BY <1>1, <1>7, <2>2 DEF TaskTypes
  <2> QED
    BY <2>1, <2>2
<1> QED
  BY <1>1, <1>2, <1>3, <1>4, <1>5, <1>6, <1>7 DEF TaskTypes, Others

\* The last level of a path, and the base its root is at.
LEMMA PathFacts ==
    ASSUME NEW p, Stepwise(p)
    PROVE  /\ p \in Seq(Level) /\ p # <<>> /\ Len(p) \in Nat /\ Len(p) > 0
           /\ Active(p) \in Level /\ Place(Active(p)) \in Places
           /\ Place(Active(p)) # Nowhere
           /\ WaitBounded(Active(p)) \in BOOLEAN
           /\ p[1].fs[1] \in Bases
<1>1. p \in Seq(Level) /\ p # <<>> /\ Len(p) \in Nat /\ Len(p) > 0
  BY EmptySeq, LenProperties DEF Stepwise
<1>2. Active(p) \in Level
  BY <1>1 DEF Active
<1>3. Place(Active(p)) \in Places /\ Place(Active(p)) # Nowhere
  BY <1>2 DEF Place, Places, Level, Nowhere
<1>4. WaitBounded(Active(p)) \in BOOLEAN
  BY DEF WaitBounded
<1>5. p[1].fs[1] \in Bases
  <2>1. p[1].fs = RootLevel(p[1].name).fs
    BY PlaceFacts DEF Stepwise
  <2> QED
    BY <2>1 DEF RootLevel, Stepwise
<1> QED
  BY <1>1, <1>2, <1>3, <1>4, <1>5

\* Addresses are sequences, the empty one among them; stretches of them are sequences.
LEMMA AddressFacts ==
    /\ <<>> \in Addresses
    /\ NoAddress \in Walk
    /\ \A a \in Addresses : a \in Seq(Names) /\ Len(a) \in Nat
    /\ \A a \in Addresses, k \in Nat :
          k <= Len(a) => SubSeq(a, 1, k) \in Seq(Names) /\ Len(SubSeq(a, 1, k)) = k
<1>1. MaxDepth \in Nat /\ Base \in Bases
  BY PanelNavAssumption
<1>2. <<>> \in Addresses
  <2>1. <<>> \in [1..0 -> Names]
    OBVIOUS
  <2>2. 0 \in 0..MaxDepth
    BY <1>1
  <2> QED
    BY <2>1, <2>2 DEF Addresses
<1>3. \A a \in Addresses : a \in Seq(Names) /\ Len(a) \in Nat
  <2> SUFFICES ASSUME NEW n \in 0..MaxDepth, NEW a \in [1..n -> Names]
               PROVE  a \in Seq(Names) /\ Len(a) \in Nat
    BY DEF Addresses
  <2>1. n \in Nat
    BY <1>1
  <2> QED
    BY <2>1
<1>4. NoAddress \in Walk
  BY <1>1, <1>2 DEF NoAddress, Walk
<1>5. ASSUME NEW a \in Addresses, NEW k \in Nat, k <= Len(a)
      PROVE  SubSeq(a, 1, k) \in Seq(Names) /\ Len(SubSeq(a, 1, k)) = k
  <2>1. \A i \in 1..k : a[i] \in Names
    BY <1>3, <1>5
  <2>2. /\ SubSeq(a, 1, k) \in Seq(Names)
        /\ Len(SubSeq(a, 1, k)) = IF 1 <= k THEN k - 1 + 1 ELSE 0
    BY <2>1, SubSeqProperties
  <2> QED
    BY <2>2
<1> QED
  BY <1>2, <1>3, <1>4, <1>5

\* A request comes to a task that has none; unless tasks overlap nobody has one.
LEMMA RequestFacts ==
    ASSUME Types, NEW t \in Tasks, Request(t)
    PROVE  /\ phase[t] = "idle"
           /\ requests' \in 0..MaxRequests
           /\ past' \subseteq {"overlapped", "given_up"} /\ past \subseteq past'
           /\ "given_up" \in past' => "given_up" \in past
           /\ "overlapped" \notin past' => \A u \in Tasks : phase[u] = "idle"
<1>1. MaxRequests \in Nat /\ MaxOverlapping \in 0..MaxRequests /\ requests \in 0..MaxRequests
  BY PanelNavAssumption DEF Types
<1>2. /\ requests' = requests + 1
      /\ requests < MaxOverlapping \/ requests < MaxRequests
  BY DEF Request
<1>3. requests' \in 0..MaxRequests
  BY <1>1, <1>2
<1> QED
  BY <1>3 DEF Request, Types

\* Asking for a listing.
LEMMA AwaitFacts ==
    ASSUME Types, NEW t \in Tasks, NEW p, Stepwise(p),
           NEW then \in {"show", "record", "type", "finish"}, NEW limit \in BOOLEAN,
           AwaitListing(t, p, then, limit)
    PROVE  /\ TaskTypes' /\ Others(t)
           /\ path' = p
           /\ phase'[t] = "listing" /\ at'[t] = Place(Active(p)) /\ want'[t] = then
<1>1. TaskTypes /\ Place(Active(p)) \in Places
  BY PathFacts DEF Types
<1>2. /\ phase'[t] = "listing" /\ at'[t] = Place(Active(p)) /\ want'[t] = then
      /\ bounded'[t] = limit /\ typed'[t] = typed[t] /\ typed[t] \in Walk
  BY <1>1 DEF AwaitListing, TaskTypes
<1>3. Own(t)
  BY <1>1, <1>2 DEF AwaitListing, Own, TaskTypes
<1>4. TaskTypes' /\ Others(t)
  BY <1>1, <1>2, <1>3, OwnTypes
<1> QED
  BY <1>2, <1>4 DEF AwaitListing

\* Showing what is there already, or asking for it.
LEMMA ShowFacts ==
    ASSUME Types, NEW t \in Tasks, NEW p, Stepwise(p),
           NEW then \in {"show", "record", "type", "finish"}, Show(t, p, then)
    PROVE  /\ TaskTypes' /\ Others(t) /\ path' = p
           /\ \/ /\ Loaded(Active(p)) /\ UNCHANGED taskVars
                 /\ Record(p) \/ UNCHANGED history
              \/ /\ UNCHANGED history
                 /\ phase'[t] = "listing" /\ at'[t] = Place(Active(p)) /\ want'[t] = then
<1>1. CASE Loaded(Active(p))
  BY <1>1 DEF Show, Types, TaskTypes, taskVars, Others
<1>2. CASE ~Loaded(Active(p))
  <2>1. AwaitListing(t, p, then, WaitBounded(Active(path))) /\ UNCHANGED history
    BY <1>2 DEF Show
  <2>2. WaitBounded(Active(path)) \in BOOLEAN
    BY PathFacts DEF Types
  <2> QED
    BY <2>1, <2>2, AwaitFacts
<1> QED
  BY <1>1, <1>2

\* A task that is done or dropped has nothing left of it.
LEMMA IdleFacts ==
    ASSUME Types, NEW t \in Tasks, Idle(t)
    PROVE  /\ TaskTypes' /\ Others(t)
           /\ phase'[t] = "idle" /\ want'[t] = "show"
<1>1. TaskTypes /\ Nowhere \in Places /\ NoAddress \in Walk
  BY AddressFacts DEF Types, Nowhere, Places, FileSystems
<1>2. /\ phase'[t] = "idle" /\ at'[t] = Nowhere /\ want'[t] = "show"
      /\ bounded'[t] = FALSE /\ typed'[t] = NoAddress
  BY <1>1 DEF Idle, TaskTypes
<1>3. Own(t)
  BY <1>1, <1>2 DEF Idle, Own
<1> QED
  BY <1>1, <1>2, <1>3, OwnTypes

Unlisted(p) == \A i \in 1..Len(p) : p[i].listed = Nowhere

\* The levels of what was found of an address replace the path.
LEMMA CommitFacts ==
    ASSUME Types, NEW t \in Tasks, typed'[t] \in Walk,
           typed' = [typed EXCEPT ![t] = typed'[t]],
           NEW n \in 0..Len(typed'[t].names), NEW origin \in Bases, NEW walk \in Bases,
           NEW limit \in BOOLEAN, Commit(t, n, origin, walk, limit)
    PROVE  /\ TaskTypes' /\ Others(t)
           /\ Stepwise(path') /\ Unlisted(path')
           /\ phase'[t] = "listing" /\ at'[t] = Place(Active(path')) /\ want'[t] = "finish"
<1> DEFINE names == SubSeq(typed'[t].names, 1, n)
           b == IF n = 0 THEN origin ELSE walk
           p == BuildLevels(names, b)
<1>1. /\ path' = p
      /\ phase' = [phase EXCEPT ![t] = "listing"]
      /\ at' = [at EXCEPT ![t] = Place(Active(p))]
      /\ want' = [want EXCEPT ![t] = "finish"]
      /\ bounded' = [bounded EXCEPT ![t] = limit]
  BY DEF Commit
<1>2. names \in Seq(Names) /\ Len(names) \in Nat
  <2>1. typed'[t].names \in Addresses
    BY DEF Walk
  <2>2. n \in Nat /\ n <= Len(typed'[t].names)
    BY <2>1, AddressFacts
  <2> QED
    BY <2>1, <2>2, AddressFacts
<1>3. b \in Bases
  OBVIOUS
<1> HIDE DEF names, b
<1>4. Stepwise(p) /\ Unlisted(p)
  <2>1. /\ Stepwise(p) /\ Len(p) = Len(names) + 1
        /\ \A i \in 1..(Len(names) + 1) : p[i].listed = Nowhere
    BY <1>2, <1>3, BuiltStepwise
  <2> HIDE DEF p
  <2> QED
    BY <2>1 DEF Unlisted
<1> HIDE DEF p
<1>5. TaskTypes /\ Place(Active(p)) \in Places
  BY <1>4, PathFacts DEF Types
<1>6. /\ phase'[t] = "listing" /\ at'[t] = Place(Active(p)) /\ want'[t] = "finish"
      /\ bounded'[t] = limit
  BY <1>1, <1>5 DEF TaskTypes
<1>7. Own(t)
  BY <1>1, <1>6 DEF Own
<1>8. TaskTypes' /\ Others(t)
  BY <1>5, <1>6, <1>7, OwnTypes
<1> QED
  BY <1>1, <1>4, <1>6, <1>8

\* An address is taken on: its first prefix is asked for, or the root is shown.
LEMMA ResolveFacts ==
    ASSUME Types, NEW t \in Tasks, NEW a \in Addresses, Resolve(t, a)
    PROVE  /\ TaskTypes' /\ Others(t)
           /\ resolving' = TRUE /\ UNCHANGED history
           /\ Stepwise(path')
           /\ \/ phase'[t] = "walk" /\ path' = path
              \/ /\ phase'[t] = "listing" /\ want'[t] = "finish"
                 /\ at'[t] = Place(Active(path')) /\ Unlisted(path')
<1> DEFINE origin == path[1].fs[1]
           walk == WalkBase(origin)
           limit == WaitBounded(Active(path))
           w == [names |-> a, seg |-> 1, origin |-> origin, walk |-> walk]
<1>1. /\ resolving' = TRUE /\ UNCHANGED history
      /\ typed' = [typed EXCEPT ![t] = w]
  BY DEF Resolve
<1>2. origin \in Bases /\ limit \in BOOLEAN /\ Stepwise(path) /\ TaskTypes
  BY PathFacts DEF Types
<1>3. walk \in Bases
  BY <1>2, PanelNavAssumption DEF WalkBase
<1> HIDE DEF origin, walk, limit
<1>4. w \in Walk /\ w.names = a /\ w.seg = 1
  BY <1>2, <1>3 DEF Walk
<1>5. typed'[t] = w
  BY <1>1, <1>2 DEF TaskTypes
<1> HIDE DEF w
<1>6. typed' = [typed EXCEPT ![t] = typed'[t]] /\ typed'[t] \in Walk /\ typed'[t].names = a
  BY <1>1, <1>4, <1>5
<1>7. CASE a = <<>>
  <2>1. Commit(t, 0, origin, walk, limit)
    BY <1>7 DEF Resolve, origin, walk, limit
  <2>2. 0 \in 0..Len(typed'[t].names)
    BY <1>6, <1>7
  <2>3. /\ TaskTypes' /\ Others(t)
        /\ Stepwise(path') /\ Unlisted(path')
        /\ phase'[t] = "listing" /\ at'[t] = Place(Active(path')) /\ want'[t] = "finish"
    BY <1>2, <1>3, <1>6, <2>1, <2>2, CommitFacts
  <2> QED
    BY <1>1, <2>3
<1>8. CASE a # <<>>
  <2> DEFINE p == BuildLevels(SubSeq(a, 1, 1), walk)
  <2>1. /\ phase' = [phase EXCEPT ![t] = "walk"]
        /\ at' = [at EXCEPT ![t] = Place(Active(p))]
        /\ bounded' = [bounded EXCEPT ![t] = limit]
        /\ UNCHANGED <<path, want>>
    BY <1>8 DEF Resolve, walk, limit, origin
  <2>2. Len(a) \in Nat /\ Len(a) >= 1
    BY <1>8, AddressFacts, EmptySeq
  <2>3. Stepwise(p)
    <3>1. SubSeq(a, 1, 1) \in Seq(Names)
      BY <2>2, AddressFacts
    <3> QED
      BY <1>3, <3>1, BuiltStepwise
  <2> HIDE DEF p
  <2>4. Place(Active(p)) \in Places
    BY <2>3, PathFacts
  <2>5. /\ phase'[t] = "walk" /\ at'[t] = Place(Active(p)) /\ want'[t] = want[t]
        /\ want[t] \in {"show", "record", "type", "finish"} /\ bounded'[t] = limit
    BY <1>2, <2>1 DEF TaskTypes
  <2>6. want' = [want EXCEPT ![t] = want[t]]
    BY <1>2, <2>1 DEF TaskTypes
  <2>7. Own(t)
    BY <1>6, <2>1, <2>5, <2>6 DEF Own
  <2>8. typed'[t].seg \in 1..Len(typed'[t].names)
    BY <1>4, <1>5, <2>2
  <2>9. TaskTypes' /\ Others(t)
    BY <1>2, <1>6, <2>4, <2>5, <2>7, <2>8, OwnTypes
  <2> QED
    BY <1>1, <1>2, <2>1, <2>5, <2>9
<1> QED
  BY <1>7, <1>8

\* The history stays, records the path that is shown, moves its index, or is cleared.
HistoryStep ==
    \/ UNCHANGED history
    \/ Record(path')
    \/ snapshots' = snapshots /\ index' \in 1..Len(snapshots)
    \/ snapshots' = <<>> /\ index' = 1

\* Whatever a step does to the history, it keeps its shape and adds the path alone.
LEMMA HistoryFacts ==
    ASSUME Snapshots, HistoryShape, Stepwise(path'), HistoryStep
    PROVE  /\ Snapshots' /\ HistoryShape'
           /\ \A i \in 1..Len(snapshots') :
                 \/ snapshots'[i] = path' /\ Record(path')
                 \/ \E j \in 1..Len(snapshots) : snapshots'[i] = snapshots[j]
<1>1. CASE UNCHANGED history
  BY <1>1 DEF history, Snapshots, HistoryShape, HistoryMoves
<1>2. CASE Record(path')
  BY <1>2, RecordFacts
<1>3. CASE snapshots' = snapshots /\ index' \in 1..Len(snapshots)
  <2>1. Len(snapshots) \in Nat /\ (snapshots = <<>> => Len(snapshots) = 0)
    BY LenProperties, EmptySeq DEF Snapshots
  <2>2. index' \in 1..(Len(snapshots) + 1) /\ snapshots # <<>>
    BY <1>3, <2>1
  <2> QED
    BY <1>3, <2>2 DEF Snapshots, HistoryShape, HistoryMoves
<1>4. CASE snapshots' = <<>> /\ index' = 1
  <2>1. Len(snapshots') = 0 /\ snapshots' \in Seq(Seq(Level))
    BY <1>4, EmptySeq
  <2>2. index' \in 1..(Len(snapshots') + 1)
    BY <1>4, <2>1
  <2> QED
    BY <1>4, <2>1, <2>2 DEF Snapshots, HistoryShape, HistoryMoves
<1> QED
  BY <1>1, <1>2, <1>3, <1>4 DEF HistoryStep

\* What any step of task t does, as far as the invariants look at it.
TaskStep(t) ==
    /\ TaskTypes' /\ Others(t)
    /\ Stepwise(path')
    /\ HistoryStep
    /\ resolving' \in BOOLEAN
    /\ requests' \in 0..MaxRequests
    /\ past \subseteq past' /\ past' \subseteq {"overlapped", "given_up"}

\* A request.
LEMMA AskStep ==
    ASSUME Types, NEW t \in Tasks, Ask(t)
    PROVE  TaskStep(t)
<1>1. /\ Stepwise(path) /\ Snapshots /\ HistoryShape /\ resolving \in BOOLEAN /\ TaskTypes
      /\ WaitBounded(Active(path)) \in BOOLEAN
  BY PathFacts DEF Types
<1>2. ASSUME Request(t), TaskTypes', Others(t), Stepwise(path'), HistoryStep,
             resolving' \in BOOLEAN
      PROVE  TaskStep(t)
  BY <1>2, RequestFacts DEF TaskStep
<1>3. CASE Refresh(t)
  <2>1. AwaitListing(t, path, "show", WaitBounded(Active(path)))
    BY <1>3 DEF Refresh
  <2>2. TaskTypes' /\ Others(t) /\ path' = path
    BY <1>1, <2>1, AwaitFacts
  <2> QED
    BY <1>1, <1>2, <1>3, <2>2 DEF Refresh, HistoryStep
<1>4. ASSUME NEW k \in 1..Len(path), Show(t, SubSeq(path, 1, k), "record"),
             Request(t), UNCHANGED resolving
      PROVE  TaskStep(t)
  <2> DEFINE p == SubSeq(path, 1, k)
  <2>1. Stepwise(p) /\ Show(t, p, "record")
    BY <1>1, <1>4, StepwisePrefix
  <2> HIDE DEF p
  <2>2. /\ TaskTypes' /\ Others(t) /\ path' = p
        /\ Record(p) \/ UNCHANGED history
    BY <2>1, ShowFacts
  <2> QED
    BY <1>1, <1>2, <1>4, <2>1, <2>2 DEF HistoryStep
<1>5. CASE GoUp(t)
  <2>1. Len(path) - 1 \in 1..Len(path)
    BY <1>1, <1>5, PathFacts DEF GoUp
  <2> QED
    BY <1>4, <1>5, <2>1 DEF GoUp
<1>6. ASSUME NEW k \in 1..Len(path), GoToLevel(t, k) PROVE TaskStep(t)
  BY <1>4, <1>6 DEF GoToLevel
<1>7. ASSUME NEW i \in 1..Len(snapshots), Restore(t, i) PROVE TaskStep(t)
  <2>1. Stepwise(snapshots[i])
    BY <1>1 DEF Snapshots
  <2>2. TaskTypes' /\ Others(t) /\ path' = snapshots[i]
    <3>1. CASE Loaded(Active(snapshots[i]))
      BY <1>1, <1>7, <3>1 DEF Restore, taskVars, TaskTypes, Others
    <3>2. CASE ~Loaded(Active(snapshots[i]))
      BY <1>1, <1>7, <2>1, <3>2, AwaitFacts DEF Restore
    <3> QED
      BY <3>1, <3>2
  <2> QED
    BY <1>1, <1>2, <1>7, <2>1, <2>2 DEF Restore, HistoryStep
<1>8. CASE GoBack(t) \/ GoForward(t)
  <2>1. Len(snapshots) \in Nat /\ index \in Nat /\ index >= 1
        /\ (snapshots # <<>> => index \in 1..Len(snapshots))
    BY <1>1, LenProperties DEF HistoryShape, HistoryMoves, Snapshots
  <2>2. CASE GoBack(t)
    <3>1. index - 1 \in 1..Len(snapshots)
      BY <2>1, <2>2 DEF GoBack, CanBack
    <3> QED
      BY <1>7, <2>2, <3>1 DEF GoBack
  <2>3. CASE GoForward(t)
    <3>1. index + 1 \in 1..Len(snapshots)
      BY <2>1, <2>3 DEF GoForward, CanForward
    <3> QED
      BY <1>7, <2>3, <3>1 DEF GoForward
  <2> QED
    BY <1>8, <2>2, <2>3
<1>9. ASSUME NEW n \in Names, Enter(t, n) PROVE TaskStep(t)
  <2> DEFINE p == Append(path, Entered(Active(path), n))
  <2>1. AwaitListing(t, p, "record", WaitBounded(Active(path)))
    BY <1>9 DEF Enter
  <2>2. Stepwise(p)
    BY <1>1, StepwiseEntered
  <2> HIDE DEF p
  <2>3. TaskTypes' /\ Others(t) /\ path' = p
    BY <1>1, <2>1, <2>2, AwaitFacts
  <2> QED
    BY <1>1, <1>2, <1>9, <2>2, <2>3 DEF Enter, HistoryStep
<1>10. ASSUME NEW b \in Bases, Switch(t, b) PROVE TaskStep(t)
  <2>1. Stepwise(path')
    <3>1. Nowhere \in Places /\ <<b>> \in FileSystems \ {<<>>}
      BY DEF Nowhere, Places, FileSystems
    <3>2. RootLevel(b) \in Level
      BY <3>1 DEF RootLevel, Level
    <3>3. path' = <<RootLevel(b)>>
      BY <1>10 DEF Switch
    <3>4. Len(path') = 1 /\ path'[1] = RootLevel(b) /\ path' \in Seq(Level) /\ path' # <<>>
      BY <3>2, <3>3
    <3> QED
      BY <3>4 DEF Stepwise, RootLevel
  <2>2. /\ phase' = [phase EXCEPT ![t] = "spawned"] /\ at' = at /\ bounded' = bounded
        /\ UNCHANGED <<history, resolving>> /\ Request(t)
    BY <1>10 DEF Switch
  <2>3. \/ \E a \in Addresses :
              /\ typed' = [typed EXCEPT ![t] = [NoAddress EXCEPT !.names = a]]
              /\ want' = [want EXCEPT ![t] = "type"]
        \/ typed' = typed /\ want' = want
    BY <1>10 DEF Switch
  <2>4. /\ phase'[t] = "spawned" /\ at'[t] = at[t] /\ at[t] \in Places
        /\ bounded'[t] = bounded[t] /\ bounded[t] \in BOOLEAN
    BY <1>1, <2>2 DEF TaskTypes
  <2>5. /\ typed'[t] \in Walk /\ typed' = [typed EXCEPT ![t] = typed'[t]]
        /\ want'[t] \in {"show", "record", "type", "finish"}
        /\ want' = [want EXCEPT ![t] = want'[t]]
    <3>1. ASSUME NEW a \in Addresses PROVE [NoAddress EXCEPT !.names = a] \in Walk
      BY AddressFacts DEF Walk
    <3> QED
      BY <1>1, <2>3, <3>1 DEF TaskTypes
  <2>6. Own(t)
    BY <1>1, <2>2, <2>4, <2>5 DEF Own, TaskTypes
  <2>7. TaskTypes' /\ Others(t)
    BY <1>1, <2>4, <2>5, <2>6, OwnTypes
  <2> QED
    BY <1>1, <1>2, <2>1, <2>2, <2>7 DEF HistoryStep
<1>11. ASSUME NEW a \in Addresses, NavigateTyped(t, a) PROVE TaskStep(t)
  <2>1. Resolve(t, a) /\ Request(t)
    BY <1>11 DEF NavigateTyped
  <2> QED
    BY <1>2, <2>1, ResolveFacts DEF HistoryStep
<1> QED
  BY <1>3, <1>5, <1>6, <1>8, <1>9, <1>10, <1>11 DEF Ask

\* An answer, or a task that starts on what it was spawned for.
LEMMA AnswerStep ==
    ASSUME Types, NEW t \in Tasks, Answer(t) \/ TimedOut(t)
    PROVE  TaskStep(t)
<1>1. /\ Stepwise(path) /\ Snapshots /\ HistoryShape /\ resolving \in BOOLEAN /\ TaskTypes
      /\ WaitBounded(Active(path)) \in BOOLEAN
      /\ requests \in 0..MaxRequests /\ past \subseteq {"overlapped", "given_up"}
  BY PathFacts DEF Types
<1>2. ASSUME TaskTypes', Others(t), Stepwise(path'), HistoryStep, resolving' \in BOOLEAN,
             UNCHANGED <<requests, past>>
      PROVE  TaskStep(t)
  BY <1>1, <1>2 DEF TaskStep
<1>3. CASE RunRelist(t)
  <2>1. AwaitListing(t, path, "show", WaitBounded(Active(path)))
    BY <1>3 DEF RunRelist
  <2>2. TaskTypes' /\ Others(t) /\ path' = path
    BY <1>1, <2>1, AwaitFacts
  <2> QED
    BY <1>1, <1>2, <1>3, <2>2 DEF RunRelist, HistoryStep
<1>4. CASE RunTyped(t)
  <2>1. Resolve(t, typed[t].names) /\ typed[t].names \in Addresses
    BY <1>1, <1>4 DEF RunTyped, TaskTypes, Walk
  <2> QED
    BY <1>2, <1>4, <2>1, ResolveFacts DEF RunTyped, HistoryStep
<1>5. CASE RefuseTyped(t)
  <2>1. Idle(t) /\ UNCHANGED <<path, history, resolving, requests, past>>
    BY <1>5 DEF RefuseTyped
  <2> QED
    BY <1>1, <1>2, <2>1, IdleFacts DEF HistoryStep
<1>6. ASSUME UNCHANGED typed, NEW n \in 0..Len(typed[t].names), phase[t] = "walk",
             Commit(t, n, typed[t].origin, typed[t].walk, bounded[t]),
             UNCHANGED <<history, resolving, requests, past>>
      PROVE  TaskStep(t)
  <2>1. /\ typed'[t] = typed[t] /\ typed[t] \in Walk /\ bounded[t] \in BOOLEAN
        /\ typed' = [typed EXCEPT ![t] = typed'[t]]
    BY <1>1, <1>6 DEF TaskTypes
  <2>2. typed[t].origin \in Bases /\ typed[t].walk \in Bases
    BY <2>1 DEF Walk
  <2>3. TaskTypes' /\ Others(t) /\ Stepwise(path')
    BY <1>6, <2>1, <2>2, CommitFacts
  <2> QED
    BY <1>1, <1>2, <1>6, <2>3 DEF HistoryStep
<1>7. CASE WalkFound(t)
  <2> DEFINE w == typed[t]
             p == BuildLevels(SubSeq(w.names, 1, w.seg + 1), w.walk)
  <2>1. /\ w \in Walk /\ w.seg \in 1..Len(w.names) /\ w.names \in Addresses
        /\ w.walk \in Bases /\ Len(w.names) \in Nat
    BY <1>1, <1>7, AddressFacts DEF WalkFound, TaskTypes, Walk
  <2>2. CASE w.seg < Len(w.names)
    <3>1. /\ typed' = [typed EXCEPT ![t].seg = w.seg + 1]
          /\ at' = [at EXCEPT ![t] = Place(Active(p))]
          /\ UNCHANGED <<path, phase, want, bounded, history, resolving, requests, past>>
      BY <1>7, <2>2 DEF WalkFound
    <3>2. Place(Active(p)) \in Places
      <4>1. w.seg + 1 \in Nat /\ w.seg + 1 <= Len(w.names)
        BY <2>1, <2>2
      <4>2. SubSeq(w.names, 1, w.seg + 1) \in Seq(Names)
        BY <2>1, <4>1, AddressFacts
      <4>3. Stepwise(p)
        BY <2>1, <4>2, BuiltStepwise
      <4> HIDE DEF p
      <4> QED
        BY <4>3, PathFacts
    <3> DEFINE v == [w EXCEPT !.seg = w.seg + 1]
    <3>3. typed' = [typed EXCEPT ![t] = v]
      BY <3>1
    <3> HIDE DEF p, w
    <3>4. v \in Walk /\ v.seg = w.seg + 1 /\ v.names = w.names
      BY <2>1 DEF Walk
    <3>5. v.seg \in 1..Len(v.names)
      BY <2>1, <2>2, <3>4
    <3> HIDE DEF v
    <3>6. /\ typed'[t] = v /\ at'[t] = Place(Active(p)) /\ phase'[t] = phase[t]
          /\ want'[t] = want[t] /\ bounded'[t] = bounded[t]
          /\ phase[t] \in {"idle", "spawned", "listing", "walk"}
          /\ want[t] \in {"show", "record", "type", "finish"} /\ bounded[t] \in BOOLEAN
      BY <1>1, <3>1, <3>3 DEF TaskTypes
    <3>7. Own(t)
      BY <1>1, <3>1, <3>3, <3>6 DEF Own, TaskTypes
    <3>8. TaskTypes' /\ Others(t)
      BY <1>1, <3>2, <3>4, <3>5, <3>6, <3>7, OwnTypes
    <3> QED
      BY <1>1, <1>2, <3>1, <3>8 DEF HistoryStep
  <2>3. CASE ~(w.seg < Len(w.names))
    <3>1. w.seg \in 0..Len(w.names)
      BY <2>1
    <3> QED
      BY <1>6, <1>7, <2>3, <3>1 DEF WalkFound
  <2> QED
    BY <2>2, <2>3
<1>8. CASE WalkMissing(t)
  <2>1. typed[t].seg \in 1..Len(typed[t].names) /\ Len(typed[t].names) \in Nat
    BY <1>1, <1>8, AddressFacts DEF WalkMissing, TaskTypes, Walk
  <2>2. typed[t].seg - 1 \in 0..Len(typed[t].names)
    BY <2>1
  <2> QED
    BY <1>6, <1>8, <2>2 DEF WalkMissing
<1>9. CASE Listed(t)
  <2>1. at[t] \in Places
    BY <1>1 DEF TaskTypes
  <2>2. path' = [path EXCEPT ![Len(path)].listed = at[t]]
    BY <1>9 DEF Listed
  <2>3. Stepwise(path')
    BY <1>1, <2>1, <2>2, StepwiseListed
  <2>4. TaskTypes' /\ Others(t)
    BY <1>9, IdleFacts DEF Listed
  <2>5. HistoryStep /\ resolving' \in BOOLEAN
    BY <1>1, <1>9 DEF Listed, HistoryStep
  <2> QED
    BY <1>2, <1>9, <2>3, <2>4, <2>5 DEF Listed
<1>10. CASE ListingFailed(t)
  <2>1. TaskTypes' /\ Others(t)
    BY <1>10, IdleFacts DEF ListingFailed
  <2>2. HistoryStep /\ resolving' \in BOOLEAN /\ path' = path
    BY <1>1, <1>10 DEF ListingFailed, HistoryStep
  <2> QED
    BY <1>1, <1>2, <1>10, <2>1, <2>2 DEF ListingFailed
<1>11. CASE TimedOut(t)
  <2>1. TaskTypes' /\ Others(t)
    BY <1>11, IdleFacts DEF TimedOut
  <2> QED
    BY <1>1, <1>11, <2>1 DEF TimedOut, TaskStep, HistoryStep
<1> QED
  BY <1>3, <1>4, <1>5, <1>7, <1>8, <1>9, <1>10, <1>11 DEF Answer

\* Every step of the panel.
LEMMA TypesStep == Types /\ [Next]_vars => Types'
<1> SUFFICES ASSUME Types, [Next]_vars PROVE Types'
  OBVIOUS
<1>1. ASSUME NEW t \in Tasks, TaskStep(t) PROVE Types'
  BY <1>1, HistoryFacts DEF Types, TaskStep
<1>2. CASE ClearHistory
  <2>1. MaxRequests \in Nat /\ requests \in 0..MaxRequests
    BY PanelNavAssumption DEF Types
  <2>2. requests' \in 0..MaxRequests
    BY <1>2, <2>1 DEF ClearHistory
  <2>3. HistoryStep /\ path' = path /\ resolving' = resolving /\ past' = past
    BY <1>2 DEF ClearHistory, HistoryStep
  <2>4. TaskTypes'
    BY <1>2 DEF ClearHistory, taskVars, Types, TaskTypes
  <2> QED
    BY <2>2, <2>3, <2>4, HistoryFacts DEF Types
<1>3. CASE UNCHANGED vars
  BY <1>3 DEF vars, history, taskVars, Types, TaskTypes, Snapshots, HistoryShape, HistoryMoves
<1> QED
  BY <1>1, <1>2, <1>3, AskStep, AnswerStep DEF Next

\* The initial states.
LEMMA TypesInit == Init => Types
<1> SUFFICES ASSUME Init PROVE Types
  OBVIOUS
<1>1. Base \in Bases /\ MaxRequests \in Nat
  BY PanelNavAssumption
<1>2. Stepwise(path)
  <2>1. Nowhere \in Places /\ <<Base>> \in FileSystems \ {<<>>}
    BY <1>1 DEF Nowhere, Places, FileSystems
  <2>2. RootLevel(Base) \in Level
    BY <1>1, <2>1 DEF RootLevel, Level
  <2>3. Len(path) = 1 /\ path[1] = RootLevel(Base) /\ path \in Seq(Level) /\ path # <<>>
    BY <2>2 DEF Init
  <2> QED
    BY <1>1, <2>3 DEF Stepwise, RootLevel
<1>3. Snapshots /\ HistoryShape
  <2>1. Len(snapshots) = 0 /\ snapshots \in Seq(Seq(Level)) /\ index \in 1..(Len(snapshots) + 1)
    BY EmptySeq DEF Init
  <2> QED
    BY <2>1 DEF Init, Snapshots, HistoryShape, HistoryMoves
<1>4. TaskTypes
  <2>1. Nowhere \in Places
    BY DEF Nowhere, Places, FileSystems
  <2> QED
    BY <2>1, AddressFacts DEF Init, TaskTypes
<1>5. requests \in 0..MaxRequests
  BY <1>1 DEF Init
<1> QED
  BY <1>2, <1>3, <1>4, <1>5 DEF Init, Types

\* Types hold in every state.
LEMMA TypesHold == Spec => []Types
BY TypesInit, TypesStep, PTL DEF Spec

\* The type invariant: a path has a root, its levels are names of the right kind, and the
\* index of the history stands in it or just behind (RouterState and History).
THEOREM PanelTypes == Spec => []TypeOK
<1>1. ASSUME Types PROVE TypeOK
  <2>1. path # <<>> /\ path \in Seq(Level)
    BY <1>1 DEF Types, Stepwise
  <2>2. ASSUME NEW i \in 1..Len(path)
        PROVE  path[i].rel \in Seq(Names) /\ path[i].name \in Names \union Bases
    <3>1. path[i] \in Level
      BY <2>1
    <3> QED
      BY <3>1 DEF Level
  <2>3. \A t \in Tasks : typed[t].names \in Addresses
    BY <1>1 DEF Types, TaskTypes, Walk
  <2> QED
    BY <1>1, <2>1, <2>2, <2>3 DEF Types, TypeOK, TaskTypes, HistoryShape
<1> QED
  BY <1>1, TypesHold, PTL

\* Entering, going up, jumping, going back and typing lead to the same levels, for paths
\* of any depth and archives nested to any depth, however tasks interleave.
THEOREM AnyWayLeadsThere == Spec => []LevelsAsTyped
<1>1. ASSUME Types PROVE LevelsAsTyped
  BY <1>1, StepwiseAsTyped DEF Types, Snapshots, LevelsAsTyped
<1> QED
  BY <1>1, TypesHold, PTL

\* One Back always moves the panel, for any number of requests and tasks.
THEOREM BackMoves == Spec => []HistoryMoves
<1>1. Types => HistoryMoves
  BY DEF Types, HistoryShape
<1> QED
  BY <1>1, TypesHold, PTL

-------------------------------------------------------------------------------
(* As long as tasks do not overlap.                                          *)

\* Every level shows the entries of its own place, if any.
Honest(p) == \A i \in 1..Len(p) : Loaded(p[i]) => p[i].listed = Place(p[i])

Alone ==
    "overlapped" \notin past =>
        /\ \A t, u \in Tasks : phase[t] # "idle" /\ phase[u] # "idle" => t = u
        /\ \A t \in Tasks : phase[t] = "listing" => at[t] = Place(Active(path))
        /\ Honest(path)
        /\ \A i \in 1..Len(snapshots) :
              Honest(snapshots[i]) /\ Loaded(Active(snapshots[i]))

\* Levels that show nothing show nothing wrong.
LEMMA UnlistedHonest == \A p : Unlisted(p) => Honest(p)
BY DEF Unlisted, Honest, Loaded

\* What a step does to the path and the history when nobody else is under way.
Truthful(t) ==
    /\ phase'[t] = "listing" => at'[t] = Place(Active(path'))
    /\ Honest(path')
    /\ \/ UNCHANGED snapshots
       \/ Record(path') /\ Loaded(Active(path'))

\* Then every level still shows the entries of its place.
LEMMA TruthfulAlone ==
    ASSUME Types, Alone, NEW t \in Tasks, TaskStep(t),
           "overlapped" \notin past' =>
               /\ \A u \in Tasks \ {t} : phase[u] = "idle"
               /\ Truthful(t)
    PROVE  Alone'
<1> SUFFICES ASSUME "overlapped" \notin past' PROVE Alone'
  BY DEF Alone
<1>1. /\ "overlapped" \notin past /\ Others(t) /\ Truthful(t) /\ Stepwise(path')
      /\ \A u \in Tasks \ {t} : phase[u] = "idle"
  BY DEF TaskStep
<1>2. \A u \in Tasks \ {t} : phase'[u] = "idle"
  BY <1>1 DEF Others
<1>3. /\ \A v, u \in Tasks : phase'[v] # "idle" /\ phase'[u] # "idle" => v = u
      /\ \A v \in Tasks : phase'[v] = "listing" => at'[v] = Place(Active(path'))
  BY <1>1, <1>2 DEF Truthful
<1>4. \A i \in 1..Len(snapshots) : Honest(snapshots[i]) /\ Loaded(Active(snapshots[i]))
  BY <1>1 DEF Alone
<1>5. \A i \in 1..Len(snapshots') : Honest(snapshots'[i]) /\ Loaded(Active(snapshots'[i]))
  <2>1. CASE UNCHANGED snapshots
    BY <1>4, <2>1
  <2>2. CASE Record(path') /\ Loaded(Active(path'))
    <3>1. \A i \in 1..Len(snapshots') :
             snapshots'[i] = path' \/ \E j \in 1..Len(snapshots) : snapshots'[i] = snapshots[j]
      BY <1>1, <2>2, RecordFacts DEF Types
    <3> QED
      BY <1>1, <1>4, <2>2, <3>1 DEF Truthful
  <2> QED
    BY <1>1, <2>1, <2>2 DEF Truthful
<1>6. Honest(path')
  BY <1>1 DEF Truthful
<1> QED
  BY <1>3, <1>5, <1>6 DEF Alone, Honest, Loaded, Place, Active

\* A request that comes alone.
LEMMA AskAlone ==
    ASSUME Types, Alone, NEW t \in Tasks, Ask(t)
    PROVE  Alone'
<1>1. TaskStep(t) /\ Stepwise(path) /\ Len(path) \in Nat /\ Len(path) > 0
      /\ WaitBounded(Active(path)) \in BOOLEAN
  BY AskStep, PathFacts DEF Types
<1>2. ASSUME Request(t), "overlapped" \notin past' => Truthful(t) PROVE Alone'
  BY <1>1, <1>2, RequestFacts, TruthfulAlone
<1>3. ASSUME Request(t), "overlapped" \notin past'
      PROVE  /\ Honest(path) /\ phase[t] = "idle"
             /\ \A i \in 1..Len(snapshots) : Honest(snapshots[i])
  BY <1>3, RequestFacts DEF Alone
<1>4. CASE Refresh(t)
  <2>1. path' = path /\ at'[t] = Place(Active(path))
    BY <1>1, <1>4, AwaitFacts DEF Refresh, Types
  <2> QED
    BY <1>2, <1>3, <1>4, <2>1 DEF Refresh, Truthful, history
<1>5. ASSUME NEW k \in 1..Len(path), Show(t, SubSeq(path, 1, k), "record"), Request(t)
      PROVE  Alone'
  <2> DEFINE p == SubSeq(path, 1, k)
  <2>1. Stepwise(p) /\ Len(p) = k /\ \A i \in 1..k : p[i] = path[i]
    BY <1>1, StepwisePrefix
  <2>2. Show(t, p, "record")
    BY <1>5
  <2> HIDE DEF p
  <2>3. Honest(path) => Honest(p)
    <3>1. \A i \in 1..k : i \in 1..Len(path)
      BY <1>1
    <3> QED
      BY <2>1, <3>1 DEF Honest
  <2>4. /\ path' = p
        /\ \/ /\ Loaded(Active(p)) /\ UNCHANGED taskVars
              /\ Record(p) \/ UNCHANGED history
           \/ /\ UNCHANGED history
              /\ phase'[t] = "listing" /\ at'[t] = Place(Active(p)) /\ want'[t] = "record"
    BY <2>1, <2>2, ShowFacts
  <2>5. ASSUME "overlapped" \notin past' PROVE Truthful(t)
    <3>1. Honest(p) /\ phase[t] = "idle"
      BY <1>3, <1>5, <2>3, <2>5
    <3> QED
      BY <2>4, <3>1 DEF Truthful, history, taskVars
  <2> QED
    BY <1>2, <1>5, <2>5
<1>6. CASE GoUp(t)
  <2>1. Len(path) - 1 \in 1..Len(path)
    BY <1>1, <1>6 DEF GoUp
  <2> QED
    BY <1>5, <1>6, <2>1 DEF GoUp
<1>7. ASSUME NEW k \in 1..Len(path), GoToLevel(t, k) PROVE Alone'
  BY <1>5, <1>7 DEF GoToLevel
<1>8. ASSUME NEW i \in 1..Len(snapshots), Restore(t, i) PROVE Alone'
  <2>1. Stepwise(snapshots[i])
    BY DEF Snapshots, Types
  <2>2. Request(t) /\ UNCHANGED snapshots
    BY <1>8 DEF Restore
  <2>3. ASSUME "overlapped" \notin past' PROVE Truthful(t)
    <3>1. Honest(snapshots[i]) /\ phase[t] = "idle"
      BY <1>3, <2>2, <2>3
    <3>2. CASE Loaded(Active(snapshots[i]))
      BY <1>8, <2>2, <3>1, <3>2 DEF Restore, Truthful, taskVars
    <3>3. CASE ~Loaded(Active(snapshots[i]))
      <4>1. path' = snapshots[i] /\ at'[t] = Place(Active(snapshots[i]))
        BY <1>1, <1>8, <2>1, <3>3, AwaitFacts DEF Restore
      <4> QED
        BY <2>2, <3>1, <4>1 DEF Truthful
    <3> QED
      BY <3>2, <3>3
  <2> QED
    BY <1>2, <2>2, <2>3
<1>9. CASE GoBack(t) \/ GoForward(t)
  <2>1. Len(snapshots) \in Nat /\ index \in Nat /\ index >= 1
        /\ (snapshots # <<>> => index \in 1..Len(snapshots))
    BY LenProperties DEF HistoryShape, HistoryMoves, Snapshots, Types
  <2>2. CASE GoBack(t)
    <3>1. index - 1 \in 1..Len(snapshots)
      BY <2>1, <2>2 DEF GoBack, CanBack
    <3> QED
      BY <1>8, <2>2, <3>1 DEF GoBack
  <2>3. CASE GoForward(t)
    <3>1. index + 1 \in 1..Len(snapshots)
      BY <2>1, <2>3 DEF GoForward, CanForward
    <3> QED
      BY <1>8, <2>3, <3>1 DEF GoForward
  <2> QED
    BY <1>9, <2>2, <2>3
<1>10. ASSUME NEW n \in Names, Enter(t, n) PROVE Alone'
  <2> DEFINE p == Append(path, Entered(Active(path), n))
  <2>1. AwaitListing(t, p, "record", WaitBounded(Active(path))) /\ Request(t)
        /\ UNCHANGED history
    BY <1>10 DEF Enter
  <2>2. /\ Stepwise(p) /\ Len(p) = Len(path) + 1
        /\ \A i \in 1..Len(path) : p[i] = path[i]
        /\ p[Len(p)].listed = Nowhere
    BY <1>1, StepwiseEntered
  <2> HIDE DEF p
  <2>3. path' = p /\ at'[t] = Place(Active(p))
    BY <1>1, <2>1, <2>2, AwaitFacts
  <2>4. Honest(path) => Honest(p)
    <3>1. \A i \in 1..Len(p) : i \in 1..Len(path) \/ i = Len(p)
      BY <1>1, <2>2
    <3> QED
      BY <2>2, <3>1 DEF Honest, Loaded
  <2> QED
    BY <1>2, <1>3, <2>1, <2>3, <2>4 DEF Truthful, history
<1>11. ASSUME NEW b \in Bases, Switch(t, b) PROVE Alone'
  <2>1. path' = <<RootLevel(b)>> /\ Request(t) /\ UNCHANGED history
        /\ phase' = [phase EXCEPT ![t] = "spawned"]
    BY <1>11 DEF Switch
  <2>2. phase'[t] = "spawned"
    BY <2>1 DEF Types, TaskTypes
  <2>3. Unlisted(path')
    BY <2>1 DEF Unlisted, RootLevel
  <2> QED
    BY <1>2, <2>1, <2>2, <2>3, UnlistedHonest DEF Truthful, history
<1>12. ASSUME NEW a \in Addresses, NavigateTyped(t, a) PROVE Alone'
  <2>1. Resolve(t, a) /\ Request(t)
    BY <1>12 DEF NavigateTyped
  <2>2. /\ UNCHANGED history
        /\ \/ phase'[t] = "walk" /\ path' = path
           \/ /\ phase'[t] = "listing" /\ at'[t] = Place(Active(path')) /\ Unlisted(path')
    BY <2>1, ResolveFacts
  <2> QED
    BY <1>2, <1>3, <2>1, <2>2, UnlistedHonest DEF Truthful, history
<1> QED
  BY <1>4, <1>6, <1>7, <1>9, <1>10, <1>11, <1>12 DEF Ask

\* An answer that comes to the only task under way.
LEMMA AnswerAlone ==
    ASSUME Types, Alone, NEW t \in Tasks, Answer(t) \/ TimedOut(t)
    PROVE  Alone'
<1>1. TaskStep(t) /\ Stepwise(path) /\ WaitBounded(Active(path)) \in BOOLEAN /\ TaskTypes
  BY AnswerStep, PathFacts DEF Types
<1>2. phase[t] # "idle"
  BY DEF Answer, RunRelist, RunTyped, RefuseTyped, WalkFound, WalkMissing, Listed,
         ListingFailed, TimedOut
<1>3. ASSUME "overlapped" \notin past'
      PROVE  /\ "overlapped" \notin past /\ Honest(path)
             /\ phase[t] = "listing" => at[t] = Place(Active(path))
             /\ \A u \in Tasks \ {t} : phase[u] = "idle"
  BY <1>1, <1>2, <1>3 DEF TaskStep, Alone
<1>4. ASSUME "overlapped" \notin past' => Truthful(t) PROVE Alone'
  BY <1>1, <1>3, <1>4, TruthfulAlone
<1>5. CASE RunRelist(t)
  <2>1. path' = path /\ at'[t] = Place(Active(path)) /\ UNCHANGED history
    BY <1>1, <1>5, AwaitFacts DEF RunRelist
  <2> QED
    BY <1>3, <1>4, <2>1 DEF Truthful, history
<1>6. CASE RunTyped(t)
  <2>1. Resolve(t, typed[t].names) /\ typed[t].names \in Addresses
    BY <1>1, <1>6 DEF RunTyped, TaskTypes, Walk
  <2>2. /\ UNCHANGED history
        /\ \/ phase'[t] = "walk" /\ path' = path
           \/ /\ phase'[t] = "listing" /\ at'[t] = Place(Active(path')) /\ Unlisted(path')
    BY <2>1, ResolveFacts
  <2> QED
    BY <1>3, <1>4, <2>2, UnlistedHonest DEF Truthful, history
<1>7. ASSUME Idle(t), UNCHANGED <<path, history>> PROVE Alone'
  BY <1>3, <1>4, <1>7, IdleFacts DEF Truthful, history
<1>8. CASE RefuseTyped(t) \/ ListingFailed(t) \/ TimedOut(t)
  BY <1>7, <1>8 DEF RefuseTyped, ListingFailed, TimedOut
<1>9. ASSUME UNCHANGED typed, NEW n \in 0..Len(typed[t].names), phase[t] = "walk",
             Commit(t, n, typed[t].origin, typed[t].walk, bounded[t]), UNCHANGED history
      PROVE  Alone'
  <2>1. /\ typed'[t] = typed[t] /\ typed[t] \in Walk /\ bounded[t] \in BOOLEAN
        /\ typed' = [typed EXCEPT ![t] = typed'[t]]
    BY <1>1, <1>9 DEF TaskTypes
  <2>2. typed[t].origin \in Bases /\ typed[t].walk \in Bases
    BY <2>1 DEF Walk
  <2>3. at'[t] = Place(Active(path')) /\ Unlisted(path')
    BY <1>9, <2>1, <2>2, CommitFacts
  <2> QED
    BY <1>4, <1>9, <2>3, UnlistedHonest DEF Truthful, history
<1>10. CASE WalkFound(t) \/ WalkMissing(t)
  <2>1. /\ typed[t].seg \in 1..Len(typed[t].names) /\ Len(typed[t].names) \in Nat
        /\ phase[t] = "walk" /\ UNCHANGED history
    BY <1>1, <1>10, AddressFacts DEF WalkFound, WalkMissing, TaskTypes, Walk
  <2>2. typed[t].seg - 1 \in 0..Len(typed[t].names) /\ typed[t].seg \in 0..Len(typed[t].names)
    BY <2>1
  <2>3. CASE WalkMissing(t)
    BY <1>9, <2>1, <2>2, <2>3 DEF WalkMissing
  <2>4. CASE WalkFound(t) /\ typed[t].seg < Len(typed[t].names)
    <3>1. path' = path /\ phase' = phase
      BY <2>4 DEF WalkFound
    <3> QED
      BY <1>3, <1>4, <2>1, <3>1 DEF Truthful, history
  <2>5. CASE WalkFound(t) /\ ~(typed[t].seg < Len(typed[t].names))
    BY <1>9, <2>1, <2>2, <2>5 DEF WalkFound
  <2> QED
    BY <1>10, <2>3, <2>4, <2>5
<1>11. CASE Listed(t)
  <2> DEFINE q == [path EXCEPT ![Len(path)].listed = at[t]]
  <2>1. /\ path' = q /\ phase[t] = "listing" /\ Idle(t)
        /\ Record(path') \/ UNCHANGED history
    BY <1>11 DEF Listed
  <2>2. at[t] \in Places
    BY <1>1 DEF TaskTypes
  <2>3. /\ Stepwise(q) /\ Len(q) = Len(path)
        /\ \A i \in 1..Len(path) : Place(q[i]) = Place(path[i])
        /\ \A i \in 1..(Len(path) - 1) : q[i] = path[i]
        /\ q[Len(path)].listed = at[t]
    BY <1>1, <2>2, StepwiseListed
  <2> HIDE DEF q
  <2>4. ASSUME "overlapped" \notin past' PROVE Truthful(t)
    <3>1. at[t] = Place(Active(path)) /\ Honest(path)
      BY <1>3, <2>1, <2>4
    <3>2. Len(path) \in 1..Len(path) /\ Len(path) \in Nat /\ Place(Active(path)) # Nowhere
      BY <1>1, PathFacts
    <3>3. at[t] = Place(q[Len(path)]) /\ Loaded(Active(q))
      BY <2>3, <3>1, <3>2 DEF Active, Loaded
    <3>4. Honest(q)
      <4>1. \A i \in 1..Len(path) : i \in 1..(Len(path) - 1) \/ i = Len(path)
        BY <3>2
      <4> QED
        BY <2>3, <3>1, <3>3, <4>1 DEF Honest
    <3>5. phase'[t] = "idle"
      BY <2>1, IdleFacts
    <3> QED
      BY <2>1, <3>3, <3>4, <3>5 DEF Truthful, history
  <2> QED
    BY <1>4, <2>4
<1> QED
  BY <1>5, <1>6, <1>8, <1>10, <1>11 DEF Answer

\* Every step keeps it; once tasks have overlapped nothing is asked for any more.
LEMMA AloneStep == Types /\ Alone /\ [Next]_vars => Alone'
<1> SUFFICES ASSUME Types, Alone, [Next]_vars PROVE Alone'
  OBVIOUS
<1>1. CASE ClearHistory
  <2>1. Len(snapshots') = 0 /\ UNCHANGED <<path, phase, at, past>>
    BY <1>1 DEF ClearHistory, taskVars
  <2> QED
    BY <2>1 DEF Alone
<1>2. CASE UNCHANGED vars
  BY <1>2 DEF vars, history, taskVars, Alone
<1> QED
  BY <1>1, <1>2, AskAlone, AnswerAlone DEF Next

\* It holds with the types in every state.
LEMMA AloneHolds == Spec => [](Types /\ Alone)
<1>1. Init => Types /\ Alone
  <2> SUFFICES ASSUME Init PROVE Alone
    BY TypesInit
  <2>1. Honest(path) /\ Len(snapshots) = 0
    BY DEF Init, Honest, RootLevel, Loaded
  <2> QED
    BY <2>1 DEF Init, Alone
<1>2. Types /\ Alone /\ [Next]_vars => (Types /\ Alone)'
  BY TypesStep, AloneStep
<1> QED
  BY <1>1, <1>2, PTL DEF Spec

\* Without overlapping tasks a level shows the entries of its own place, whatever failed
\* or was given up on before.
THEOREM EntriesAreOfLevel == Spec => []EntriesOfLevel
<1>1. Types /\ Alone => EntriesOfLevel
  BY DEF Alone, Honest, EntriesOfLevel
<1> QED
  BY <1>1, AloneHolds, PTL

\* And what Back and Forward show without asking was listed when it was recorded.
THEOREM RecordedWasListed == Spec => []HistoryListed
<1>1. Types /\ Alone => HistoryListed
  BY DEF Alone, HistoryListed
<1> QED
  BY <1>1, AloneHolds, PTL

-------------------------------------------------------------------------------
(* The flag over a typed address.                                            *)

\* The task t is the one that will take the flag down.
Resolving(t) == phase[t] = "walk" \/ (phase[t] = "listing" /\ want[t] = "finish")

\* A step that leaves the flag in good hands.
LEMMA FlagKept ==
    ASSUME TypedUnlessGivenUp, NEW t \in Tasks, Others(t), past \subseteq past',
           \/ ~resolving'
           \/ Resolving(t)'
           \/ "given_up" \in past'
           \/ ~Resolving(t) /\ resolving' = resolving
    PROVE  TypedUnlessGivenUp'
<1> SUFFICES ASSUME resolving', "given_up" \notin past', ~Resolving(t)'
             PROVE  \E u \in Tasks : Resolving(u)'
  BY DEF TypedUnlessGivenUp, TypedOnlyWhileResolving, Resolving
<1>1. ~Resolving(t) /\ resolving /\ "given_up" \notin past
  OBVIOUS
<1>2. PICK u \in Tasks : Resolving(u)
  BY <1>1 DEF TypedUnlessGivenUp, TypedOnlyWhileResolving, Resolving
<1>3. u # t
  BY <1>1, <1>2
<1>4. Resolving(u)'
  BY <1>2, <1>3 DEF Others, Resolving
<1> QED
  BY <1>4

\* Only who resolves raises the flag, and only a time-out forgets to take it down.
LEMMA FlagStep == Types /\ TypedUnlessGivenUp /\ [Next]_vars => TypedUnlessGivenUp'
<1> SUFFICES ASSUME Types, TypedUnlessGivenUp, [Next]_vars PROVE TypedUnlessGivenUp'
  OBVIOUS
<1>1. CASE ClearHistory \/ UNCHANGED vars
  BY <1>1 DEF ClearHistory, vars, taskVars, TypedUnlessGivenUp, TypedOnlyWhileResolving
<1>2. ASSUME NEW t \in Tasks, Ask(t) PROVE TypedUnlessGivenUp'
  <2>1. TaskStep(t)
    BY <1>2, AskStep
  <2>2. CASE \E a \in Addresses : NavigateTyped(t, a)
    <3>1. PICK a \in Addresses : Resolve(t, a)
      BY <2>2 DEF NavigateTyped
    <3>2. Resolving(t)'
      BY <3>1, ResolveFacts DEF Resolving
    <3> QED
      BY <2>1, <3>2, FlagKept DEF TaskStep
  <2>3. CASE ~ \E a \in Addresses : NavigateTyped(t, a)
    <3>1. phase[t] = "idle" /\ resolving' = resolving
      BY <1>2, <2>3
      DEF Ask, Refresh, GoUp, GoBack, GoForward, Restore, Enter, GoToLevel, Switch, Request
    <3>2. ~Resolving(t)
      BY <3>1 DEF Resolving
    <3> QED
      BY <2>1, <3>1, <3>2, FlagKept DEF TaskStep
  <2> QED
    BY <2>2, <2>3
<1>3. ASSUME NEW t \in Tasks, Answer(t) \/ TimedOut(t) PROVE TypedUnlessGivenUp'
  <2>1. TaskStep(t) /\ TaskTypes
    BY <1>3, AnswerStep DEF Types
  <2>2. CASE RunRelist(t) \/ RefuseTyped(t)
    <3>1. ~Resolving(t) /\ resolving' = resolving
      BY <2>2 DEF RunRelist, RefuseTyped, Resolving
    <3> QED
      BY <2>1, <3>1, FlagKept DEF TaskStep
  <2>3. CASE RunTyped(t)
    <3>1. Resolve(t, typed[t].names) /\ typed[t].names \in Addresses
      BY <2>1, <2>3 DEF RunTyped, TaskTypes, Walk
    <3>2. Resolving(t)'
      BY <3>1, ResolveFacts DEF Resolving
    <3> QED
      BY <2>1, <3>2, FlagKept DEF TaskStep
  <2>4. CASE WalkFound(t) \/ WalkMissing(t)
    <3>1. Resolving(t)'
      <4>1. \/ /\ phase' = [phase EXCEPT ![t] = "listing"]
               /\ want' = [want EXCEPT ![t] = "finish"]
            \/ phase' = phase /\ phase[t] = "walk"
        BY <2>4 DEF WalkFound, WalkMissing, Commit
      <4> QED
        BY <2>1, <4>1 DEF Resolving, TaskTypes
    <3> QED
      BY <2>1, <3>1, FlagKept DEF TaskStep
  <2>5. CASE Listed(t) \/ ListingFailed(t)
    <3>1. phase[t] = "listing" /\ resolving' = (resolving /\ want[t] # "finish")
      BY <2>5 DEF Listed, ListingFailed
    <3>2. ~resolving' \/ (~Resolving(t) /\ resolving' = resolving)
      BY <3>1 DEF Resolving, Types
    <3> QED
      BY <2>1, <3>2, FlagKept DEF TaskStep
  <2>6. CASE TimedOut(t)
    <3>1. "given_up" \in past' \/ (~Resolving(t) /\ resolving' = resolving)
      BY <2>6 DEF TimedOut, Resolving
    <3> QED
      BY <2>1, <3>1, FlagKept DEF TaskStep
  <2> QED
    BY <1>3, <2>2, <2>3, <2>4, <2>5, <2>6 DEF Answer
<1> QED
  BY <1>1, <1>2, <1>3 DEF Next

\* A typed address is ignored only while another one is being resolved, unless a time-out
\* dropped one half-way: the flag is in the hands of a task, whatever tasks interleave.
THEOREM TypedIsHeard == Spec => []TypedUnlessGivenUp
<1>1. Init => TypedUnlessGivenUp
  BY DEF Init, TypedUnlessGivenUp, TypedOnlyWhileResolving
<1> QED
  BY <1>1, TypesHold, FlagStep, PTL DEF Spec

===============================================================================
