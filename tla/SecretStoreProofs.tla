--------------------------- MODULE SecretStoreProofs ---------------------------
(***************************************************************************)
(* Proofs about SecretStore for any secrets, passwords, restarts, failed   *)
(* writes and bounds.  The types, and where a data key comes from, hold    *)
(* for any number of processes; that no secret is lost holds for one       *)
(* process at a time, which may die and start again at any point.          *)
(***************************************************************************)
EXTENDS SecretStore, TLAPS

Labels ==
    {"idle", "check", "salt", "salt_truncate", "salt_fill", "ring", "ring_truncate",
     "ring_fill", "use", "refused"}

\* What an operation has gathered by the time it gets to a place.
Local(p) ==
    /\ pc[p] # "idle" => op[p] \in Ops
    /\ pc[p] = "check" => op[p].kind \in {"unlock", "clear"}
    /\ pc[p] \in {"salt_truncate", "salt_fill", "ring"} => mkey[p] # 0
    /\ pc[p] = "use" => slot[p] # 0
    /\ pc[p] = "use" /\ op[p].kind = "clear" => mkey[p] # 0
    /\ pc[p] \in {"ring_truncate", "ring_fill"} => next[p] # NoRing
    /\ op[p].kind = "clear" /\ pc[p] \notin {"idle", "check"} => slot[p] # 0
    /\ op[p].kind = "unlock" => pc[p] \in {"idle", "check"}

TypeInv ==
    /\ TypeOK
    /\ pc \in [Procs -> Labels]
    /\ \A p \in Procs : Local(p)

\* The operations a process may run are finitely many, counted from zero.
LEMMA Bounds ==
    /\ NPasswords \in Nat /\ MaxSalts \in Nat /\ MaxDeks \in Nat /\ MaxOps \in Nat
    /\ MaxSalts > 0
BY SecretStoreAssumption

\* What a keyring is.
LEMMA RingFacts ==
    /\ NoRing \in Rings /\ NoRing.by = "none"
    /\ \A k \in 1..MaxSalts, d \in 1..MaxDeks :
          MachineRing(k, d) \in Rings /\ MachineRing(k, d) # NoRing
    /\ \A w \in Passwords, d \in 1..MaxDeks :
          PasswordRing(w, d) \in Rings /\ PasswordRing(w, d) # NoRing
    /\ \A r \in Rings : /\ r.by \in {"none", "machine", "password"}
                        /\ r.by = "none" <=> r = NoRing
                        /\ r # NoRing => r.dek \in 1..MaxDeks
<1>1. NoRing \in Rings /\ NoRing.by = "none"
  BY DEF Rings, NoRing
<1>2. ASSUME NEW k \in 1..MaxSalts, NEW d \in 1..MaxDeks
      PROVE  MachineRing(k, d) \in Rings /\ MachineRing(k, d) # NoRing
  BY DEF Rings, NoRing, MachineRing
<1>3. ASSUME NEW w \in Passwords, NEW d \in 1..MaxDeks
      PROVE  PasswordRing(w, d) \in Rings /\ PasswordRing(w, d) # NoRing
  BY DEF Rings, NoRing, PasswordRing
<1>4. ASSUME NEW r \in Rings
      PROVE  /\ r.by \in {"none", "machine", "password"}
             /\ r.by = "none" <=> r = NoRing
             /\ r # NoRing => r.dek \in 1..MaxDeks
  BY DEF Rings, NoRing
<1> QED
  BY <1>1, <1>2, <1>3, <1>4

Forms == {Empty} \union [kind : {"v1"}, key : 1..MaxSalts]
                 \union [kind : {"v2"}, key : 1..MaxDeks]

\* What a stored secret is.
LEMMA FormFacts ==
    /\ Empty \in Forms
    /\ \A k \in 1..MaxSalts : Legacy(k) \in Forms /\ Legacy(k) # Empty
    /\ \A d \in 1..MaxDeks : Sealed(d) \in Forms /\ Sealed(d) # Empty
BY DEF Forms, Empty, Legacy, Sealed

\* Types: the initial states.
LEMMA TypeInit == Init => TypeInv
<1> SUFFICES ASSUME Init PROVE TypeInv
  OBVIOUS
<1>1. conf \in [Secrets -> Forms]
  <2>1. 1 \in 1..MaxSalts
    BY Bounds
  <2> QED
    BY <2>1, FormFacts DEF Init
<1>2. TypeOK
  BY <1>1, Bounds, RingFacts DEF Init, TypeOK, Forms
<1>3. pc \in [Procs -> Labels]
  BY DEF Init, Labels
<1>4. \A p \in Procs : Local(p)
  BY DEF Init, Local, NoOp
<1> QED
  BY <1>2, <1>3, <1>4 DEF TypeInv

\* The other processes keep their places and what they have gathered.
LEMMA OthersLocal ==
    ASSUME TypeInv, NEW p \in Procs, NEW q \in Procs, q # p,
           pc'[q] = pc[q], op'[q] = op[q], mkey'[q] = mkey[q], next'[q] = next[q],
           slot'[q] = slot[q]
    PROVE  Local(q)'
BY DEF TypeInv, Local

\* What an operation changes of itself.
Mine(p) ==
    /\ pc' = [pc EXCEPT ![p] = pc'[p]]
    /\ op' = [op EXCEPT ![p] = op'[p]]
    /\ mkey' = [mkey EXCEPT ![p] = mkey'[p]]
    /\ next' = [next EXCEPT ![p] = next'[p]]
    /\ slot' = [slot EXCEPT ![p] = slot'[p]]

\* What returning from an operation changes of the process.
LEMMA ReturnFacts ==
    ASSUME TypeInv, NEW p \in Procs, Return(p)
    PROVE  /\ pc' = [pc EXCEPT ![p] = pc'[p]] /\ pc'[p] = "idle"
           /\ op' = [op EXCEPT ![p] = op'[p]] /\ op'[p] = NoOp
           /\ mkey' = [mkey EXCEPT ![p] = mkey'[p]] /\ mkey'[p] = 0
           /\ next' = [next EXCEPT ![p] = next'[p]] /\ next'[p] = NoRing
BY DEF TypeInv, TypeOK, Return, Goto

\* A return keeps what the process holds typed.
LEMMA ReturnTyped ==
    ASSUME TypeInv, NEW p \in Procs, Return(p)
    PROVE  /\ pc'[p] \in Labels /\ op'[p] \in {NoOp} \union Ops /\ mkey'[p] \in 0..MaxSalts
           /\ next'[p] \in Rings /\ Local(p)'
<1>1. pc'[p] = "idle" /\ op'[p] = NoOp /\ mkey'[p] = 0 /\ next'[p] = NoRing
  BY ReturnFacts
<1>2. 0 \in 0..MaxSalts
  BY Bounds
<1>3. Local(p)'
  BY <1>1 DEF Local, NoOp
<1> QED
  BY <1>1, <1>2, <1>3, RingFacts DEF Labels

\* What going on to another place changes of the process.
LEMMA GotoFacts ==
    ASSUME TypeInv, NEW p \in Procs, NEW l, Goto(p, l)
    PROVE  pc' = [pc EXCEPT ![p] = pc'[p]] /\ pc'[p] = l
BY DEF TypeInv, TypeOK, Goto

\* A function whose one place is set to what it has is as it was.
LEMMA SameFunction ==
    ASSUME NEW S, NEW T, NEW f \in [S -> T], NEW p \in S
    PROVE  f = [f EXCEPT ![p] = f[p]]
OBVIOUS

\* A step of one operation keeps the types if what it changes of itself has them.
LEMMA MineTypes ==
    ASSUME TypeInv, NEW p \in Procs, Mine(p),
           pc'[p] \in Labels, op'[p] \in {NoOp} \union Ops, mkey'[p] \in 0..MaxSalts,
           next'[p] \in Rings, slot'[p] \in 0..MaxDeks, Local(p)',
           salt' \in 0..MaxSalts, ring' \in Rings, conf' \in [Secrets -> Forms],
           salts' \in 0..MaxSalts, deks' \in 0..MaxDeks, ops' \in 0..MaxOps,
           mishaps' \subseteq {"salt_unsaved", "ring_unsaved", "ring_torn"}
    PROVE  TypeInv'
<1>1. /\ pc' \in [Procs -> Labels] /\ op' \in [Procs -> {NoOp} \union Ops]
      /\ mkey' \in [Procs -> 0..MaxSalts] /\ next' \in [Procs -> Rings]
      /\ slot' \in [Procs -> 0..MaxDeks]
  BY DEF TypeInv, TypeOK, Mine
<1>2. TypeOK'
  BY <1>1 DEF TypeOK, Forms
<1>3. ASSUME NEW q \in Procs PROVE Local(q)'
  <2>1. CASE q = p
    BY <2>1
  <2>2. CASE q # p
    <3>1. /\ pc'[q] = pc[q] /\ op'[q] = op[q] /\ mkey'[q] = mkey[q] /\ next'[q] = next[q]
          /\ slot'[q] = slot[q]
      BY <2>2 DEF TypeInv, TypeOK, Mine
    <3> QED
      BY <2>2, <3>1, OthersLocal
  <2> QED
    BY <2>1, <2>2
<1> QED
  BY <1>1, <1>2, <1>3 DEF TypeInv
\* What is known of an operation before a step.
LEMMA ProcFacts ==
    ASSUME TypeInv, NEW p \in Procs
    PROVE  /\ pc \in [Procs -> Labels] /\ op \in [Procs -> {NoOp} \union Ops]
           /\ mkey \in [Procs -> 0..MaxSalts] /\ next \in [Procs -> Rings]
           /\ slot \in [Procs -> 0..MaxDeks]
           /\ pc[p] \in Labels /\ op[p] \in {NoOp} \union Ops /\ mkey[p] \in 0..MaxSalts
           /\ next[p] \in Rings /\ slot[p] \in 0..MaxDeks
           /\ salt \in 0..MaxSalts /\ ring \in Rings /\ conf \in [Secrets -> Forms]
           /\ salts \in 0..MaxSalts /\ deks \in 0..MaxDeks /\ ops \in 0..MaxOps
           /\ mishaps \subseteq {"salt_unsaved", "ring_unsaved", "ring_torn"}
           /\ Local(p)
BY DEF TypeInv, TypeOK, Forms

\* Types: an operation begins.
LEMMA BeginTypes == \A p \in Procs : TypeInv /\ Begin(p) => TypeInv'
<1> SUFFICES ASSUME NEW p \in Procs, TypeInv, Begin(p) PROVE TypeInv'
  OBVIOUS
<1>1. /\ pc[p] = "idle" /\ ops < MaxOps /\ ops' = ops + 1
      /\ UNCHANGED <<salt, ring, conf, salts, deks, mkey, next, slot, mishaps>>
  BY DEF Begin, files
<1>2. PICK o \in Ops :
         /\ op' = [op EXCEPT ![p] = o]
         /\ Goto(p, CASE o.kind \in {"unlock", "clear"} -> "check"
                      [] o.kind = "set" /\ (\E s \in Secrets : conf[s].kind = "v1") -> "salt"
                      [] OTHER -> IF slot[p] = 0 THEN "salt" ELSE "use")
  BY DEF Begin
<1>3. /\ pc' = [pc EXCEPT ![p] = pc'[p]]
      /\ IF o.kind \in {"unlock", "clear"} THEN pc'[p] = "check"
         ELSE pc'[p] = "salt" \/ (pc'[p] = "use" /\ slot[p] # 0)
  BY <1>2, GotoFacts
<1>4. op'[p] = o /\ op' = [op EXCEPT ![p] = op'[p]]
  BY <1>2, ProcFacts
<1>5. Mine(p)
  BY <1>1, <1>3, <1>4, ProcFacts DEF Mine
<1>6. Local(p)'
  BY <1>1, <1>3, <1>4 DEF Local
<1>7. pc'[p] \in Labels
  BY <1>3 DEF Labels
<1>8. ops' \in 0..MaxOps
  BY <1>1, Bounds, ProcFacts
<1> QED
  BY <1>1, <1>4, <1>5, <1>6, <1>7, <1>8, ProcFacts, MineTypes

\* Types: what an operation looks at before it reads the salt.
LEMMA CheckTypes == \A p \in Procs : TypeInv /\ Check(p) => TypeInv'
<1> SUFFICES ASSUME NEW p \in Procs, TypeInv, Check(p) PROVE TypeInv'
  OBVIOUS
<1>1. /\ pc[p] = "check"
      /\ UNCHANGED <<salt, ring, conf, salts, deks, ops, mishaps>>
  BY DEF Check, files
<1>2. CASE Return(p) /\ (UNCHANGED slot \/ slot' = [slot EXCEPT ![p] = ring.dek])
           /\ slot'[p] \in 0..MaxDeks
  <2>1. Mine(p)
    BY <1>2, ReturnFacts, ProcFacts DEF Mine
  <2> QED
    BY <1>1, <1>2, <2>1, ReturnTyped, ProcFacts, MineTypes
<1>3. CASE /\ op[p].kind = "clear" /\ ring = PasswordRing(op[p].arg, ring.dek)
           /\ slot' = [slot EXCEPT ![p] = ring.dek]
           /\ Goto(p, "salt") /\ UNCHANGED <<op, mkey, next>>
  <2>1. ring # NoRing
    BY <1>3 DEF PasswordRing, NoRing
  <2>2. slot'[p] = ring.dek /\ ring.dek \in 1..MaxDeks
    BY <1>3, <2>1, ProcFacts, RingFacts
  <2>3. slot'[p] \in 0..MaxDeks /\ slot'[p] # 0
    BY <2>2, Bounds
  <2>4. pc'[p] = "salt" /\ Mine(p)
    BY <1>3, GotoFacts, ProcFacts DEF Mine
  <2>5. Local(p)' /\ pc'[p] \in Labels
    BY <1>1, <1>3, <2>3, <2>4, ProcFacts DEF Local, Labels
  <2> QED
    BY <1>1, <1>3, <2>3, <2>4, <2>5, ProcFacts, MineTypes
<1>4. ring.dek \in 0..MaxDeks
  BY ProcFacts, RingFacts, Bounds DEF NoRing
<1>5. slot[p] \in 0..MaxDeks /\ slot \in [Procs -> 0..MaxDeks]
  BY ProcFacts
<1> QED
  BY <1>2, <1>3, <1>4, <1>5 DEF Check

\* The salt file: reading it, making it anew, failing to.
LEMMA SaltTypes ==
    \A p \in Procs :
        TypeInv /\ (ReadSalt(p) \/ TruncateSalt(p) \/ FillSalt(p) \/ SaltNotWritten(p))
            => TypeInv'
<1> SUFFICES ASSUME NEW p \in Procs, TypeInv,
                    ReadSalt(p) \/ TruncateSalt(p) \/ FillSalt(p) \/ SaltNotWritten(p)
             PROVE  TypeInv'
  OBVIOUS
<1>1. CASE ReadSalt(p)
  <2>1. /\ pc[p] = "salt"
        /\ UNCHANGED <<salt, ring, conf, deks, op, next, slot, ops, mishaps>>
    BY <1>1 DEF ReadSalt, files
  <2>2. PICK k \in 1..MaxSalts, l \in {"ring", "use", "salt_truncate"} :
           /\ mkey' = [mkey EXCEPT ![p] = k]
           /\ Goto(p, l)
           /\ l = "use" => slot[p] # 0
    <3>1. CASE salt # 0
      <4>1. mkey' = [mkey EXCEPT ![p] = salt] /\ Goto(p, AfterKey(p))
        BY <1>1, <3>1 DEF ReadSalt
      <4>2. salt \in 1..MaxSalts
        BY <3>1, ProcFacts, Bounds
      <4> QED
        BY <4>1, <4>2 DEF AfterKey
    <3>2. CASE salt = 0
      <4>1. mkey' = [mkey EXCEPT ![p] = salts + 1] /\ Goto(p, "salt_truncate") /\ salts < MaxSalts
        BY <1>1, <3>2 DEF ReadSalt
      <4>2. salts + 1 \in 1..MaxSalts
        BY <4>1, ProcFacts, Bounds
      <4> QED
        BY <4>1, <4>2
    <3> QED
      BY <3>1, <3>2
  <2>3. salts' \in 0..MaxSalts
    BY <1>1, ProcFacts, Bounds DEF ReadSalt
  <2>4. pc'[p] = l /\ mkey'[p] = k /\ Mine(p)
    BY <2>1, <2>2, GotoFacts, ProcFacts DEF Mine
  <2>5. k # 0 /\ k \in 0..MaxSalts
    BY Bounds
  <2>6. Local(p)' /\ pc'[p] \in Labels
    BY <2>1, <2>2, <2>4, <2>5, ProcFacts DEF Local, Labels
  <2> QED
    BY <2>1, <2>3, <2>4, <2>5, <2>6, ProcFacts, MineTypes
<1>2. CASE TruncateSalt(p)
  <2>1. /\ pc[p] = "salt_truncate" /\ salt' = 0 /\ Goto(p, "salt_fill")
        /\ UNCHANGED <<ring, conf, salts, deks, op, mkey, next, slot, ops, mishaps>>
    BY <1>2 DEF TruncateSalt
  <2>2. pc'[p] = "salt_fill" /\ Mine(p)
    BY <2>1, GotoFacts, ProcFacts DEF Mine
  <2>3. Local(p)' /\ pc'[p] \in Labels
    BY <2>1, <2>2, ProcFacts DEF Local, Labels
  <2>4. salt' \in 0..MaxSalts
    BY <2>1, Bounds
  <2> QED
    BY <2>1, <2>2, <2>3, <2>4, ProcFacts, MineTypes
<1>3. CASE FillSalt(p) \/ SaltNotWritten(p)
  <2>1. /\ pc[p] \in {"salt_truncate", "salt_fill"} /\ Goto(p, AfterKey(p))
        /\ UNCHANGED <<ring, conf, salts, deks, op, mkey, next, slot, ops>>
        /\ salt' \in {salt, mkey[p]} /\ mishaps' \in {mishaps, mishaps \union {"salt_unsaved"}}
    BY <1>3 DEF FillSalt, SaltNotWritten, files
  <2>2. pc'[p] = AfterKey(p) /\ Mine(p)
    BY <2>1, GotoFacts, ProcFacts DEF Mine
  <2>3. Local(p)' /\ pc'[p] \in Labels
    BY <2>1, <2>2, ProcFacts DEF Local, Labels, AfterKey
  <2>4. salt' \in 0..MaxSalts /\ mishaps' \subseteq {"salt_unsaved", "ring_unsaved", "ring_torn"}
    BY <2>1, ProcFacts
  <2> QED
    BY <2>1, <2>2, <2>3, <2>4, ProcFacts, MineTypes
<1> QED
  BY <1>1, <1>2, <1>3

\* The keyring: opening it or making a new one, writing it, failing to.
LEMMA RingTypes ==
    \A p \in Procs :
        TypeInv /\ (OpenRing(p) \/ TruncateRing(p) \/ FillRing(p) \/ RingNotWritten(p))
            => TypeInv'
<1> SUFFICES ASSUME NEW p \in Procs, TypeInv,
                    OpenRing(p) \/ TruncateRing(p) \/ FillRing(p) \/ RingNotWritten(p)
             PROVE  TypeInv'
  OBVIOUS
<1>1. CASE OpenRing(p)
  <2>1. /\ pc[p] = "ring"
        /\ UNCHANGED <<salt, ring, conf, salts, op, mkey, ops, mishaps>>
    BY <1>1 DEF OpenRing, files
  <2>2. mkey[p] \in 1..MaxSalts
    BY <2>1, ProcFacts, Bounds DEF Local
  <2>3. CASE /\ ring.by = "none" /\ deks < MaxDeks /\ deks' = deks + 1
             /\ next' = [next EXCEPT ![p] = MachineRing(mkey[p], deks + 1)]
             /\ Goto(p, "ring_truncate") /\ UNCHANGED slot
    <3>1. deks + 1 \in 1..MaxDeks /\ deks' \in 0..MaxDeks
      BY <2>3, ProcFacts, Bounds
    <3>2. next'[p] \in Rings /\ next'[p] # NoRing
      BY <2>2, <2>3, <3>1, ProcFacts, RingFacts
    <3>3. pc'[p] = "ring_truncate" /\ Mine(p)
      BY <2>1, <2>3, GotoFacts, ProcFacts DEF Mine
    <3>4. Local(p)' /\ pc'[p] \in Labels
      BY <2>1, <2>3, <3>2, <3>3, ProcFacts DEF Local, Labels
    <3> QED
      BY <2>1, <2>3, <3>1, <3>2, <3>3, <3>4, ProcFacts, MineTypes
  <2>4. CASE /\ ring.by # "none" /\ slot' = [slot EXCEPT ![p] = ring.dek]
             /\ Goto(p, "use") /\ UNCHANGED <<deks, next>>
    <3>1. slot'[p] \in 0..MaxDeks /\ slot'[p] # 0
      <4>1. ring.dek \in 1..MaxDeks
        BY <2>4, ProcFacts, RingFacts
      <4>2. slot'[p] = ring.dek
        BY <2>4, ProcFacts
      <4> QED
        BY <4>1, <4>2, Bounds
    <3>2. pc'[p] = "use" /\ Mine(p)
      BY <2>1, <2>4, GotoFacts, ProcFacts DEF Mine
    <3>3. Local(p)' /\ pc'[p] \in Labels
      BY <2>1, <2>4, <3>1, <3>2, ProcFacts DEF Local, Labels
    <3> QED
      BY <2>1, <2>4, <3>1, <3>2, <3>3, ProcFacts, MineTypes
  <2>5. CASE Goto(p, "refused") /\ UNCHANGED <<deks, next, slot>>
    <3>1. pc'[p] = "refused" /\ Mine(p)
      BY <2>1, <2>5, GotoFacts, ProcFacts DEF Mine
    <3>2. Local(p)' /\ pc'[p] \in Labels
      BY <2>1, <2>5, <3>1, ProcFacts DEF Local, Labels
    <3> QED
      BY <2>1, <2>5, <3>1, <3>2, ProcFacts, MineTypes
  <2> QED
    BY <1>1, <2>3, <2>4, <2>5 DEF OpenRing
<1>2. CASE TruncateRing(p)
  <2>1. /\ pc[p] = "ring_truncate" /\ ring' = NoRing /\ Goto(p, "ring_fill")
        /\ UNCHANGED <<salt, conf, salts, deks, op, mkey, next, slot, ops, mishaps>>
    BY <1>2 DEF TruncateRing
  <2>2. pc'[p] = "ring_fill" /\ Mine(p)
    BY <2>1, GotoFacts, ProcFacts DEF Mine
  <2>3. Local(p)' /\ pc'[p] \in Labels
    BY <2>1, <2>2, ProcFacts DEF Local, Labels
  <2> QED
    BY <2>1, <2>2, <2>3, RingFacts, ProcFacts, MineTypes
<1>3. CASE FillRing(p)
  <2>1. /\ pc[p] = "ring_fill" /\ ring' = next[p] /\ next[p] # NoRing
        /\ UNCHANGED <<salt, conf, salts, deks, ops, mishaps>>
    BY <1>3, ProcFacts DEF FillRing, Local
  <2>2. CASE /\ slot' = [slot EXCEPT ![p] = next[p].dek] /\ Goto(p, "use")
             /\ UNCHANGED <<op, mkey, next>> /\ slot[p] = 0
    <3>1. slot'[p] \in 0..MaxDeks /\ slot'[p] # 0
      <4>1. next[p].dek \in 1..MaxDeks
        BY <2>1, ProcFacts, RingFacts
      <4>2. slot'[p] = next[p].dek
        BY <2>2, ProcFacts
      <4> QED
        BY <4>1, <4>2, Bounds
    <3>2. pc'[p] = "use" /\ Mine(p)
      BY <2>1, <2>2, GotoFacts, ProcFacts DEF Mine
    <3>3. Local(p)' /\ pc'[p] \in Labels
      BY <2>1, <2>2, <3>1, <3>2, ProcFacts DEF Local, Labels
    <3> QED
      BY <2>1, <2>2, <3>1, <3>2, <3>3, ProcFacts, MineTypes
  <2>3. CASE Return(p) /\ UNCHANGED slot
    <3>1. Mine(p)
      BY <2>3, ReturnFacts, ProcFacts DEF Mine
    <3> QED
      BY <2>1, <2>3, <3>1, ReturnTyped, ProcFacts, MineTypes
  <2> QED
    BY <1>3, <2>2, <2>3 DEF FillRing
<1>4. CASE RingNotWritten(p)
  <2>1. /\ pc[p] \in {"ring_truncate", "ring_fill"}
        /\ UNCHANGED <<salt, ring, conf, salts, deks, slot, ops>>
        /\ mishaps' \subseteq {"salt_unsaved", "ring_unsaved", "ring_torn"}
    BY <1>4, ProcFacts DEF RingNotWritten, files, Torn
  <2>2. CASE Goto(p, "refused") /\ UNCHANGED <<op, mkey, next>>
    <3>1. pc'[p] = "refused" /\ Mine(p)
      BY <2>1, <2>2, GotoFacts, ProcFacts DEF Mine
    <3>2. Local(p)' /\ pc'[p] \in Labels
      BY <2>1, <2>2, <3>1, ProcFacts DEF Local, Labels
    <3> QED
      BY <2>1, <2>2, <3>1, <3>2, ProcFacts, MineTypes
  <2>3. CASE Return(p)
    <3>1. Mine(p)
      BY <2>1, <2>3, ReturnFacts, ProcFacts DEF Mine
    <3> QED
      BY <2>1, <2>3, <3>1, ReturnTyped, ProcFacts, MineTypes
  <2> QED
    BY <1>4, <2>2, <2>3 DEF RingNotWritten
<1> QED
  BY <1>1, <1>2, <1>3, <1>4

\* The legacy secrets sealed again, or emptied.
LEMMA UpgradedTyped ==
    ASSUME TypeInv, NEW p \in Procs, NEW form \in Forms
    PROVE  Upgraded(p, form) \in [Secrets -> Forms]
BY ProcFacts DEF Upgraded

\* Types: a key is put to use, or refused.
LEMMA UseTypes == \A p \in Procs : TypeInv /\ (Use(p) \/ Refused(p)) => TypeInv'
<1> SUFFICES ASSUME NEW p \in Procs, TypeInv, Use(p) \/ Refused(p) PROVE TypeInv'
  OBVIOUS
<1>1. CASE Use(p)
  <2>1. /\ pc[p] = "use" /\ UNCHANGED <<salt, ring, salts, deks, slot, ops, mishaps>>
    BY <1>1 DEF Use, files
  <2>2. slot[p] \in 1..MaxDeks
    BY <2>1, ProcFacts, Bounds DEF Local
  <2>3. Sealed(slot[p]) \in Forms
    BY <2>2, FormFacts
  <2>4. CASE /\ op[p].kind \in {"open", "seal"} /\ Return(p)
             /\ conf' \in {conf, [conf EXCEPT ![op[p].arg] = Sealed(slot[p])]}
    <3>1. Mine(p)
      BY <2>1, <2>4, ReturnFacts, ProcFacts DEF Mine
    <3>2. conf' \in [Secrets -> Forms]
      BY <2>3, <2>4, ProcFacts
    <3> QED
      BY <2>1, <2>4, <3>1, <3>2, ReturnTyped, ProcFacts, MineTypes
  <2>5. CASE /\ op[p].kind = "set" /\ conf' = Upgraded(p, Sealed(slot[p]))
             /\ next' = [next EXCEPT ![p] = PasswordRing(op[p].arg, slot[p])]
             /\ Goto(p, "ring_truncate") /\ UNCHANGED <<op, mkey>>
    <3>1. conf' \in [Secrets -> Forms]
      BY <2>3, <2>5, UpgradedTyped
    <3>2. op[p].arg \in Passwords
      BY <2>5, ProcFacts DEF Ops, NoOp
    <3>3. next'[p] \in Rings /\ next'[p] # NoRing
      BY <2>2, <2>5, <3>2, ProcFacts, RingFacts
    <3>4. pc'[p] = "ring_truncate" /\ Mine(p)
      BY <2>1, <2>5, GotoFacts, ProcFacts DEF Mine
    <3>5. Local(p)' /\ pc'[p] \in Labels
      BY <2>1, <2>5, <3>3, <3>4, ProcFacts DEF Local, Labels
    <3> QED
      BY <2>1, <2>5, <3>1, <3>3, <3>4, <3>5, ProcFacts, MineTypes
  <2>6. CASE /\ op[p].kind = "clear"
             /\ next' = [next EXCEPT ![p] = MachineRing(mkey[p], slot[p])]
             /\ Goto(p, "ring_truncate") /\ UNCHANGED <<conf, op, mkey>>
    <3>1. mkey[p] \in 1..MaxSalts
      BY <2>1, <2>6, ProcFacts, Bounds DEF Local
    <3>2. next'[p] \in Rings /\ next'[p] # NoRing
      BY <2>2, <2>6, <3>1, ProcFacts, RingFacts
    <3>3. pc'[p] = "ring_truncate" /\ Mine(p)
      BY <2>1, <2>6, GotoFacts, ProcFacts DEF Mine
    <3>4. Local(p)' /\ pc'[p] \in Labels
      BY <2>1, <2>2, <2>6, <3>2, <3>3, ProcFacts DEF Local, Labels
    <3> QED
      BY <2>1, <2>6, <3>2, <3>3, <3>4, ProcFacts, MineTypes
  <2> QED
    BY <1>1, <2>4, <2>5, <2>6 DEF Use
<1>2. CASE Refused(p)
  <2>1. /\ Return(p) /\ UNCHANGED <<salt, ring, salts, deks, slot, ops, mishaps>>
    BY <1>2 DEF Refused, files
  <2>2. conf' \in [Secrets -> Forms]
    <3>1. conf' \in {conf, [conf EXCEPT ![op[p].arg] = Empty], Upgraded(p, Empty)}
      BY <1>2 DEF Refused
    <3> QED
      BY <3>1, ProcFacts, FormFacts, UpgradedTyped
  <2>3. Mine(p)
    BY <2>1, ReturnFacts, ProcFacts DEF Mine
  <2> QED
    BY <2>1, <2>2, <2>3, ReturnTyped, ProcFacts, MineTypes
<1> QED
  BY <1>1, <1>2

\* Types: a process dies and starts again.
LEMMA RestartTypes == \A p \in Procs : TypeInv /\ Restart(p) => TypeInv'
<1> SUFFICES ASSUME NEW p \in Procs, TypeInv, Restart(p) PROVE TypeInv'
  OBVIOUS
<1>1. /\ Return(p) /\ slot' = [slot EXCEPT ![p] = 0] /\ ops < MaxOps /\ ops' = ops + 1
      /\ UNCHANGED <<salt, ring, conf, salts, deks>>
      /\ mishaps' \subseteq {"salt_unsaved", "ring_unsaved", "ring_torn"}
  BY ProcFacts DEF Restart, files, Torn
<1>2. slot'[p] \in 0..MaxDeks /\ ops' \in 0..MaxOps
  BY <1>1, ProcFacts, Bounds
<1>3. Mine(p)
  BY <1>1, ReturnFacts, ProcFacts DEF Mine
<1> QED
  BY <1>1, <1>2, <1>3, ReturnTyped, ProcFacts, MineTypes

\* Types are preserved by every step.
LEMMA TypeStep == TypeInv /\ [Next]_vars => TypeInv'
<1> SUFFICES ASSUME TypeInv, [Next]_vars PROVE TypeInv'
  OBVIOUS
<1>1. CASE UNCHANGED vars
  BY <1>1 DEF vars, files, TypeInv, TypeOK, Local
<1>2. ASSUME NEW p \in Procs, Begin(p) \/ Step(p) \/ Restart(p) PROVE TypeInv'
  BY <1>2, BeginTypes, CheckTypes, SaltTypes, RingTypes, UseTypes, RestartTypes DEF Step
<1> QED
  BY <1>1, <1>2 DEF Next

\* Types hold in every state.
LEMMA TypesHold == Spec => []TypeInv
BY TypeInit, TypeStep, PTL DEF Spec

\* Types.
THEOREM SecretTypes == Spec => []TypeOK
<1>1. TypeInv => TypeOK
  BY DEF TypeInv
<1> QED
  BY <1>1, TypesHold, PTL

\* Whatever any process does in between, one that takes a data key into memory finds
\* it in the keyring file at that moment.
THEOREM KeyComesFromFile == Spec => DekFromFile
<1>1. TypeInv /\ [Next]_vars =>
          [\A p \in Procs : slot'[p] \notin {0, slot[p]} => ring'.dek = slot'[p]]_vars
  <2> SUFFICES ASSUME TypeInv, NEW p \in Procs, Begin(p) \/ Step(p) \/ Restart(p),
                      NEW q \in Procs, slot'[q] \notin {0, slot[q]}
               PROVE  ring'.dek = slot'[q]
    BY DEF Next
  <2>1. slot \in [Procs -> 0..MaxDeks]
    BY ProcFacts
  <2>2. slot' # slot
    BY <2>1
  <2>3. CASE Check(p)
    BY <2>1, <2>2, <2>3 DEF Check, files
  <2>4. CASE OpenRing(p)
    BY <2>1, <2>2, <2>4 DEF OpenRing, files
  <2>5. CASE FillRing(p)
    BY <2>1, <2>2, <2>5 DEF FillRing
  <2>6. CASE Restart(p)
    BY <2>1, <2>6 DEF Restart
  <2> QED
    BY <2>2, <2>3, <2>4, <2>5, <2>6
    DEF Begin, Step, ReadSalt, TruncateSalt, FillSalt, SaltNotWritten, TruncateRing,
        RingNotWritten, Use, Refused
<1> QED
  BY <1>1, TypesHold, PTL DEF Spec, DekFromFile

-------------------------------------------------------------------------------
(* One process at a time.                                                    *)

OneProcess == \E p : Procs = {p}

\* A keyring is only written over by whoever has its key, or when it is not usable;
\* the key in memory is the one on file, or on its way there.
Keyring(p) ==
    /\ op[p].kind = "clear" /\ pc[p] \notin {"idle", "check", "ring_fill"} =>
          ring = PasswordRing(op[p].arg, ring.dek)
    /\ op[p].kind \in {"open", "seal"} /\ pc[p] = "ring_truncate" => ring = NoRing
    /\ pc[p] = "ring_fill" => ring = NoRing
    /\ pc[p] = "ring" => slot[p] = 0
    /\ pc[p] \in {"ring_truncate", "ring_fill"} =>
          IF slot[p] = 0 THEN next[p].by = "machine" /\ ring = NoRing
          ELSE next[p].dek = slot[p]
    /\ slot[p] # 0 /\ ring # NoRing => ring.dek = slot[p]
    /\ slot[p] # 0 /\ "ring_torn" \notin mishaps =>
          ring.dek = slot[p] \/ (pc[p] = "ring_fill" /\ next[p].dek = slot[p])

\* While there are legacy secrets, the first salt is the only one.
SomeLegacy == \E s \in Secrets : conf[s].kind = "v1"

Legacies(p) ==
    /\ \A s \in Secrets : conf[s].kind = "v1" => conf[s].key = 1
    /\ SomeLegacy =>
          /\ salt = 1
          /\ mkey[p] \in {0, 1}
          /\ pc[p] \notin {"salt_truncate", "salt_fill"}
          /\ ring.by = "machine" => ring.key = 1
          /\ next[p].by = "machine" => next[p].key = 1
          /\ ring.by # "password" /\ next[p].by # "password"
          /\ op[p].kind = "set" /\ pc[p] \notin {"idle", "salt"} => mkey[p] = 1
          /\ pc[p] = "refused" /\ op[p].kind = "set" => "ring_unsaved" \in mishaps

\* Unless a salt was not saved or a keyring cut short, the salt on file opens the
\* keyring on file, and the keyring has the key of the secrets.
Salted(p) ==
    /\ ring.by = "machine" => ring.key = salt
    /\ mkey[p] # 0 /\ pc[p] \notin {"salt_truncate", "salt_fill"} => mkey[p] = salt
    /\ pc[p] \in {"salt_truncate", "salt_fill"} => salt = 0
    /\ pc[p] \in {"ring_truncate", "ring_fill"} /\ next[p].by = "machine" => next[p].key = salt
    /\ \A s \in Secrets : conf[s].kind = "v2" =>
          ring.dek = conf[s].key \/ (pc[p] = "ring_fill" /\ next[p].dek = conf[s].key)

Kept(p) ==
    /\ Keyring(p)
    /\ Legacies(p)
    /\ mishaps \subseteq {"ring_unsaved"} => Salted(p)

OneInv == TypeInv /\ \A p \in Procs : Kept(p)

\* The parts of a keyring that is not missing.
LEMMA RingParts ==
    /\ NoRing.by = "none" /\ NoRing.dek = 0
    /\ \A k, d : /\ MachineRing(k, d).by = "machine" /\ MachineRing(k, d).key = k
                 /\ MachineRing(k, d).dek = d
                 /\ PasswordRing(k, d).by = "password" /\ PasswordRing(k, d).key = k
                 /\ PasswordRing(k, d).dek = d
    /\ \A r \in Rings : /\ r.by = "machine" => r = MachineRing(r.key, r.dek) /\ r.key # 0
                        /\ r.by = "password" => r = PasswordRing(r.key, r.dek)
<1>1. ASSUME NEW r \in Rings
      PROVE  /\ r.by = "machine" => r = MachineRing(r.key, r.dek) /\ r.key # 0
             /\ r.by = "password" => r = PasswordRing(r.key, r.dek)
  <2>1. \A k \in 1..MaxSalts : k # 0
    BY Bounds
  <2> QED
    BY <2>1 DEF Rings, MachineRing, PasswordRing, NoRing
<1> QED
  BY <1>1 DEF NoRing, MachineRing, PasswordRing

\* The parts of a sealed secret.
LEMMA FormParts ==
    /\ Empty.kind = "empty"
    /\ \A k : Legacy(k).kind = "v1" /\ Legacy(k).key = k
    /\ \A d : Sealed(d).kind = "v2" /\ Sealed(d).key = d
    /\ \A c \in Forms : /\ c.kind = "v1" => c = Legacy(c.key)
                        /\ c.kind = "v2" => c.key # 0
                        /\ c # Empty => c.kind \in {"v1", "v2"}
<1>1. \A d \in 1..MaxDeks : d # 0
  BY Bounds
<1>2. ASSUME NEW c \in Forms
      PROVE  /\ c.kind = "v1" => c = Legacy(c.key)
             /\ c.kind = "v2" => c.key # 0
             /\ c # Empty => c.kind \in {"v1", "v2"}
  BY <1>1 DEF Forms, Empty, Legacy
<1> QED
  BY <1>2 DEF Empty, Legacy, Sealed

\* One process: the initial states.
LEMMA OneInit == Init => OneInv
<1> SUFFICES ASSUME Init PROVE OneInv
  OBVIOUS
<1>1. ASSUME NEW p \in Procs PROVE Kept(p)
  <2>1. Keyring(p)
    BY DEF Init, Keyring
  <2>2. Legacies(p) /\ Salted(p)
    BY RingParts, FormParts DEF Init, Legacies, SomeLegacy, Salted
  <2> QED
    BY <2>1, <2>2 DEF Kept
<1> QED
  BY <1>1, TypeInit DEF OneInv

\* One process: the beginning of an operation touches no file.
LEMMA BeginKept == \A p \in Procs : OneInv /\ Begin(p) => Kept(p)'
<1> SUFFICES ASSUME NEW p \in Procs, OneInv, Begin(p) PROVE Kept(p)'
  OBVIOUS
<1>1. /\ pc[p] = "idle" /\ mkey'[p] = mkey[p] /\ next'[p] = next[p] /\ slot'[p] = slot[p]
      /\ UNCHANGED <<salt, ring, conf, mishaps>>
  BY DEF Begin, files
<1>2. PICK o \in Ops :
         /\ Offered(p, o)
         /\ op' = [op EXCEPT ![p] = o]
         /\ Goto(p, CASE o.kind \in {"unlock", "clear"} -> "check"
                      [] o.kind = "set" /\ (\E s \in Secrets : conf[s].kind = "v1") -> "salt"
                      [] OTHER -> IF slot[p] = 0 THEN "salt" ELSE "use")
  BY DEF Begin
<1>3. /\ IF o.kind \in {"unlock", "clear"} THEN pc'[p] = "check" ELSE pc'[p] \in {"salt", "use"}
      /\ op'[p] = o
      /\ o.kind = "set" /\ SomeLegacy => pc'[p] = "salt"
  BY <1>2, GotoFacts, ProcFacts DEF OneInv, SomeLegacy
<1>4. Kept(p) /\ Local(p)
  BY DEF OneInv, TypeInv
<1>5. Keyring(p)'
  BY <1>1, <1>3, <1>4 DEF Kept, Keyring
<1>6. Legacies(p)'
  BY <1>1, <1>3, <1>4 DEF Kept, Legacies, SomeLegacy
<1>7. Salted(p) => Salted(p)'
  BY <1>1, <1>3 DEF Salted
<1> QED
  BY <1>1, <1>4, <1>5, <1>6, <1>7 DEF Kept

\* One process: what an operation finds before it reads the salt.
LEMMA CheckKept == \A p \in Procs : OneInv /\ Check(p) => Kept(p)'
<1> SUFFICES ASSUME NEW p \in Procs, OneInv, Check(p) PROVE Kept(p)'
  OBVIOUS
<1>1. pc[p] = "check" /\ UNCHANGED <<salt, ring, conf, mishaps>>
  BY DEF Check, files
<1>2. Kept(p) /\ TypeInv
  BY DEF OneInv
<1>3. \/ /\ pc'[p] = "idle" /\ op'[p] = NoOp /\ mkey'[p] = 0 /\ next'[p] = NoRing
         /\ slot'[p] \in {slot[p], ring.dek}
      \/ /\ pc'[p] = "salt" /\ op'[p] = op[p] /\ mkey'[p] = mkey[p] /\ next'[p] = next[p]
         /\ op[p].kind = "clear" /\ ring = PasswordRing(op[p].arg, ring.dek)
         /\ slot'[p] = ring.dek
  BY <1>2, ReturnFacts, GotoFacts, ProcFacts DEF Check
<1>4. Keyring(p)'
  BY <1>1, <1>2, <1>3 DEF Kept, Keyring, NoOp
<1>5. Legacies(p)'
  BY <1>1, <1>2, <1>3, RingParts DEF Kept, Legacies, SomeLegacy
<1>6. Salted(p) => Salted(p)'
  BY <1>1, <1>3 DEF Salted
<1> QED
  BY <1>1, <1>2, <1>4, <1>5, <1>6 DEF Kept

\* A new salt is only made when there is none, and then nothing is wrapped under one.
LEMMA SaltKept ==
    \A p \in Procs :
        OneInv /\ (ReadSalt(p) \/ TruncateSalt(p) \/ FillSalt(p) \/ SaltNotWritten(p))
            => Kept(p)'
<1> SUFFICES ASSUME NEW p \in Procs, OneInv,
                    ReadSalt(p) \/ TruncateSalt(p) \/ FillSalt(p) \/ SaltNotWritten(p)
             PROVE  Kept(p)'
  OBVIOUS
<1>1. Kept(p) /\ TypeInv /\ Local(p)
  BY DEF OneInv, TypeInv
<1>2. /\ op'[p] = op[p] /\ next'[p] = next[p] /\ slot'[p] = slot[p]
      /\ UNCHANGED <<ring, conf>>
  BY DEF ReadSalt, TruncateSalt, FillSalt, SaltNotWritten, files
<1>3. pc[p] \in {"salt", "salt_truncate", "salt_fill"}
  BY DEF ReadSalt, TruncateSalt, FillSalt, SaltNotWritten
<1>4. CASE ReadSalt(p)
  <2>1. /\ salt' = salt /\ mishaps' = mishaps /\ pc[p] = "salt"
        /\ \/ /\ salt # 0 /\ mkey'[p] = salt /\ pc'[p] = AfterKey(p)
           \/ salt = 0 /\ pc'[p] = "salt_truncate"
    BY <1>1, <1>4, GotoFacts, ProcFacts DEF ReadSalt, files
  <2>2. Keyring(p)'
    BY <1>1, <1>2, <2>1 DEF Kept, Keyring, AfterKey
  <2>3. Legacies(p)'
    BY <1>1, <1>2, <2>1 DEF Kept, Legacies, SomeLegacy, AfterKey
  <2>4. Salted(p) => Salted(p)'
    BY <1>2, <2>1 DEF Salted, AfterKey
  <2> QED
    BY <1>1, <2>1, <2>2, <2>3, <2>4 DEF Kept
<1>5. CASE TruncateSalt(p)
  <2>1. /\ salt' = 0 /\ mishaps' = mishaps /\ pc[p] = "salt_truncate" /\ pc'[p] = "salt_fill"
        /\ mkey'[p] = mkey[p]
    BY <1>1, <1>5, GotoFacts, ProcFacts DEF TruncateSalt
  <2>2. Keyring(p)'
    BY <1>1, <1>2, <2>1 DEF Kept, Keyring
  <2>3. Legacies(p)'
    BY <1>1, <1>2, <2>1 DEF Kept, Legacies, SomeLegacy
  <2>4. Salted(p) => Salted(p)'
    BY <1>2, <2>1 DEF Salted
  <2> QED
    BY <1>1, <2>1, <2>2, <2>3, <2>4 DEF Kept
<1>6. CASE FillSalt(p)
  <2>1. /\ salt' = mkey[p] /\ mishaps' = mishaps /\ pc[p] = "salt_fill" /\ pc'[p] = AfterKey(p)
        /\ mkey'[p] = mkey[p]
    BY <1>1, <1>6, GotoFacts, ProcFacts DEF FillSalt
  <2>2. Keyring(p)'
    BY <1>1, <1>2, <2>1 DEF Kept, Keyring, AfterKey
  <2>3. Legacies(p)'
    BY <1>1, <1>2, <2>1 DEF Kept, Legacies, SomeLegacy, AfterKey
  <2>4. Salted(p) => Salted(p)'
    <3>1. ring.by = "machine" => ring.key # 0
      BY <1>1, ProcFacts, RingParts
    <3> QED
      BY <1>2, <2>1, <3>1 DEF Salted, AfterKey
  <2> QED
    BY <1>1, <2>1, <2>2, <2>3, <2>4 DEF Kept
<1>7. CASE SaltNotWritten(p)
  <2>1. /\ salt' = salt /\ mishaps' = mishaps \union {"salt_unsaved"} /\ pc'[p] = AfterKey(p)
        /\ mkey'[p] = mkey[p] /\ pc[p] \in {"salt_truncate", "salt_fill"}
    BY <1>1, <1>7, GotoFacts, ProcFacts DEF SaltNotWritten, files
  <2>2. Keyring(p)'
    BY <1>1, <1>2, <2>1 DEF Kept, Keyring, AfterKey
  <2>3. Legacies(p)'
    BY <1>1, <1>2, <2>1 DEF Kept, Legacies, SomeLegacy, AfterKey
  <2>4. ~(mishaps' \subseteq {"ring_unsaved"})
    BY <2>1
  <2> QED
    BY <2>2, <2>3, <2>4 DEF Kept
<1> QED
  BY <1>4, <1>5, <1>6, <1>7

\* One process: the key an operation opens is the one on file.
LEMMA OpenRingKept == \A p \in Procs : OneInv /\ OpenRing(p) => Kept(p)'
<1> SUFFICES ASSUME NEW p \in Procs, OneInv, OpenRing(p) PROVE Kept(p)'
  OBVIOUS
<1>1. Kept(p) /\ TypeInv /\ Local(p)
  BY DEF OneInv, TypeInv
<1>2. /\ pc[p] = "ring" /\ op'[p] = op[p] /\ mkey'[p] = mkey[p]
      /\ UNCHANGED <<salt, ring, conf, mishaps>> /\ mkey[p] # 0 /\ slot[p] = 0
  BY <1>1 DEF OpenRing, files, Local, Kept, Keyring
<1>3. CASE /\ ring = NoRing /\ next'[p] = MachineRing(mkey[p], deks + 1)
           /\ pc'[p] = "ring_truncate" /\ slot'[p] = slot[p]
  <2>1. Keyring(p)'
    BY <1>1, <1>2, <1>3, RingParts DEF Kept, Keyring
  <2>2. Legacies(p)'
    BY <1>1, <1>2, <1>3, RingParts DEF Kept, Legacies, SomeLegacy
  <2>3. Salted(p) => Salted(p)'
    BY <1>2, <1>3, RingParts DEF Salted
  <2> QED
    BY <1>1, <1>2, <2>1, <2>2, <2>3 DEF Kept
<1>4. CASE /\ pc'[p] = "use" /\ next'[p] = next[p] /\ slot'[p] = ring.dek
  <2>1. Keyring(p)'
    BY <1>1, <1>2, <1>4 DEF Kept, Keyring
  <2>2. Legacies(p)'
    BY <1>1, <1>2, <1>4 DEF Kept, Legacies, SomeLegacy
  <2>3. Salted(p) => Salted(p)'
    BY <1>2, <1>4 DEF Salted
  <2> QED
    BY <1>1, <1>2, <2>1, <2>2, <2>3 DEF Kept
<1>5. CASE /\ ring # NoRing /\ ring # MachineRing(mkey[p], ring.dek)
           /\ pc'[p] = "refused" /\ next'[p] = next[p] /\ slot'[p] = slot[p]
  <2>1. Keyring(p)'
    BY <1>1, <1>2, <1>5 DEF Kept, Keyring
  <2>2. ASSUME SomeLegacy, op[p].kind = "set" PROVE FALSE
    <3>1. ring.by = "machine"
      BY <1>1, <1>2, <1>5, <2>2, ProcFacts, RingFacts DEF Kept, Legacies
    <3>2. ring.key = 1 /\ mkey[p] = 1
      BY <1>1, <1>2, <2>2, <3>1 DEF Kept, Legacies
    <3> QED
      BY <1>1, <1>5, <3>1, <3>2, ProcFacts, RingParts
  <2>3. Legacies(p)'
    BY <1>1, <1>2, <1>5, <2>2 DEF Kept, Legacies, SomeLegacy
  <2>4. Salted(p) => Salted(p)'
    BY <1>2, <1>5 DEF Salted
  <2> QED
    BY <1>1, <1>2, <2>1, <2>3, <2>4 DEF Kept
<1>6. CASE ring.by = "none"
  <2>1. /\ ring = NoRing /\ next'[p] = MachineRing(mkey[p], deks + 1)
        /\ pc'[p] = "ring_truncate" /\ slot'[p] = slot[p]
    BY <1>1, <1>6, GotoFacts, ProcFacts, RingFacts DEF OpenRing
  <2> QED
    BY <1>3, <2>1
<1>7. CASE ring.by # "none" /\ ring = MachineRing(mkey[p], ring.dek)
  <2>1. pc'[p] = "use" /\ next'[p] = next[p] /\ slot'[p] = ring.dek
    BY <1>1, <1>7, GotoFacts, ProcFacts DEF OpenRing
  <2> QED
    BY <1>4, <2>1
<1>8. CASE ring.by # "none" /\ ring # MachineRing(mkey[p], ring.dek)
  <2>1. /\ ring # NoRing
        /\ pc'[p] = "refused" /\ next'[p] = next[p] /\ slot'[p] = slot[p]
    BY <1>1, <1>8, GotoFacts, ProcFacts, RingFacts DEF OpenRing
  <2> QED
    BY <1>5, <1>8, <2>1
<1> QED
  BY <1>6, <1>7, <1>8

\* One process: a keyring that is replaced wraps the same key, or there was nothing under the old one.
LEMMA WriteRingKept ==
    \A p \in Procs :
        OneInv /\ (TruncateRing(p) \/ FillRing(p) \/ RingNotWritten(p)) => Kept(p)'
<1> SUFFICES ASSUME NEW p \in Procs, OneInv,
                    TruncateRing(p) \/ FillRing(p) \/ RingNotWritten(p)
             PROVE  Kept(p)'
  OBVIOUS
<1>1. Kept(p) /\ TypeInv /\ Local(p)
  BY DEF OneInv, TypeInv
<1>2. UNCHANGED <<salt, conf>>
  BY DEF TruncateRing, FillRing, RingNotWritten, files
<1>3. CASE TruncateRing(p)
  <2>1. /\ pc[p] = "ring_truncate" /\ pc'[p] = "ring_fill" /\ ring' = NoRing
        /\ op'[p] = op[p] /\ mkey'[p] = mkey[p] /\ next'[p] = next[p] /\ slot'[p] = slot[p]
        /\ mishaps' = mishaps
    BY <1>1, <1>3, GotoFacts, ProcFacts DEF TruncateRing
  <2>2. Keyring(p)'
    BY <1>1, <2>1, RingParts DEF Kept, Keyring
  <2>3. Legacies(p)'
    BY <1>1, <1>2, <2>1, RingParts DEF Kept, Legacies, SomeLegacy
  <2>4. ASSUME mishaps \subseteq {"ring_unsaved"}, Salted(p) PROVE Salted(p)'
    <3>1. ASSUME NEW s \in Secrets, conf[s].kind = "v2" PROVE next[p].dek = conf[s].key
      <4>1. ring.dek = conf[s].key /\ conf[s].key # 0
        BY <1>1, <2>1, <2>4, <3>1, ProcFacts, FormParts DEF Salted
      <4>2. slot[p] # 0
        BY <1>1, <2>1, <4>1, RingParts DEF Kept, Keyring
      <4> QED
        BY <1>1, <2>1, <2>4, <4>1, <4>2 DEF Kept, Keyring
    <3> QED
      BY <1>2, <2>1, <2>4, <3>1, RingParts DEF Salted
  <2> QED
    BY <1>1, <2>1, <2>2, <2>3, <2>4 DEF Kept
<1>4. CASE FillRing(p)
  <2>1. /\ pc[p] = "ring_fill" /\ ring' = next[p] /\ mishaps' = mishaps /\ ring = NoRing
    BY <1>1, <1>4 DEF FillRing, Kept, Keyring
  <2>2. \/ /\ slot[p] = 0 /\ slot'[p] = next[p].dek /\ pc'[p] = "use"
           /\ op'[p] = op[p] /\ mkey'[p] = mkey[p] /\ next'[p] = next[p]
        \/ /\ slot[p] # 0 /\ slot'[p] = slot[p] /\ pc'[p] = "idle"
           /\ op'[p] = NoOp /\ mkey'[p] = 0 /\ next'[p] = NoRing
    BY <1>1, <1>4, ReturnFacts, GotoFacts, ProcFacts DEF FillRing
  <2>3. Keyring(p)'
    BY <1>1, <2>1, <2>2 DEF Kept, Keyring, Local, NoOp
  <2>4. Legacies(p)'
    BY <1>1, <1>2, <2>1, <2>2, RingParts DEF Kept, Legacies, SomeLegacy
  <2>5. Salted(p) => Salted(p)'
    <3>1. \A s \in Secrets : conf[s].kind = "v2" => conf[s].key # 0
      BY <1>1, ProcFacts, FormParts
    <3> QED
      BY <1>2, <2>1, <2>2, <3>1, RingParts DEF Salted
  <2> QED
    BY <1>1, <2>1, <2>3, <2>4, <2>5 DEF Kept
<1>5. CASE RingNotWritten(p)
  <2>1. /\ pc[p] \in {"ring_truncate", "ring_fill"} /\ ring' = ring /\ slot'[p] = slot[p]
        /\ mishaps' = mishaps \union {"ring_unsaved"} \union Torn(p)
    BY <1>5 DEF RingNotWritten, files
  <2>2. \/ /\ slot[p] = 0 /\ pc'[p] = "refused"
           /\ op'[p] = op[p] /\ mkey'[p] = mkey[p] /\ next'[p] = next[p]
        \/ /\ slot[p] # 0 /\ pc'[p] = "idle"
           /\ op'[p] = NoOp /\ mkey'[p] = 0 /\ next'[p] = NoRing
    BY <1>1, <1>5, ReturnFacts, GotoFacts, ProcFacts DEF RingNotWritten
  <2>3. Keyring(p)'
    BY <1>1, <2>1, <2>2 DEF Kept, Keyring, Local, NoOp, Torn
  <2>4. Legacies(p)'
    BY <1>1, <1>2, <2>1, <2>2, RingParts DEF Kept, Legacies, SomeLegacy, NoOp
  <2>5. ASSUME mishaps' \subseteq {"ring_unsaved"} PROVE Salted(p)'
    <3>1. pc[p] = "ring_truncate" /\ mishaps \subseteq {"ring_unsaved"}
      BY <2>1, <2>5 DEF Torn
    <3> QED
      BY <1>1, <1>2, <2>1, <2>2, <3>1, RingParts DEF Kept, Salted
  <2> QED
    BY <2>3, <2>4, <2>5 DEF Kept
<1> QED
  BY <1>3, <1>4, <1>5

\* The secrets that are legacy afterwards were so before.
LEMMA UpgradedFewer ==
    ASSUME TypeInv, NEW p \in Procs, NEW form \in Forms, form.kind # "v1",
           conf' = Upgraded(p, form)
    PROVE  /\ \A s \in Secrets : conf'[s] = conf[s] \/ (conf[s] = Legacy(mkey[p]) /\ conf'[s] = form)
           /\ SomeLegacy' => SomeLegacy
<1>1. \A s \in Secrets : conf'[s] = IF conf[s] = Legacy(mkey[p]) THEN form ELSE conf[s]
  BY DEF Upgraded
<1> QED
  BY <1>1 DEF SomeLegacy

\* One process: what is sealed is sealed under the key on file.
LEMMA UseKept == \A p \in Procs : OneInv /\ Use(p) => Kept(p)'
<1> SUFFICES ASSUME NEW p \in Procs, OneInv, Use(p) PROVE Kept(p)'
  OBVIOUS
<1>1. Kept(p) /\ TypeInv /\ Local(p)
  BY DEF OneInv, TypeInv
<1>2. /\ pc[p] = "use" /\ slot[p] # 0 /\ slot'[p] = slot[p]
      /\ UNCHANGED <<salt, ring, mishaps>>
  BY <1>1 DEF Use, files, Local
<1>3. Sealed(slot[p]) \in Forms
  <2>1. slot[p] \in 1..MaxDeks
    BY <1>1, <1>2, ProcFacts, Bounds
  <2> QED
    BY <2>1, FormFacts
<1>4. /\ \A s \in Secrets : conf'[s] = conf[s] \/ conf'[s] = Sealed(slot[p])
      /\ SomeLegacy' => SomeLegacy
  <2>1. CASE conf' = conf
    BY <2>1 DEF SomeLegacy
  <2>2. CASE conf' = [conf EXCEPT ![op[p].arg] = Sealed(slot[p])]
    <3>1. \A s \in Secrets : conf'[s] = conf[s] \/ conf'[s] = Sealed(slot[p])
      BY <1>1, <2>2, ProcFacts
    <3> QED
      BY <3>1, FormParts DEF SomeLegacy
  <2>3. CASE conf' = Upgraded(p, Sealed(slot[p]))
    BY <1>1, <1>3, <2>3, UpgradedFewer, FormParts
  <2> QED
    BY <2>1, <2>2, <2>3 DEF Use
<1>5. \/ /\ op[p].kind \in {"open", "seal"} /\ pc'[p] = "idle"
         /\ op'[p] = NoOp /\ mkey'[p] = 0 /\ next'[p] = NoRing
      \/ /\ op[p].kind = "set" /\ pc'[p] = "ring_truncate" /\ op'[p] = op[p] /\ mkey'[p] = mkey[p]
         /\ next'[p] = PasswordRing(op[p].arg, slot[p])
      \/ /\ op[p].kind = "clear" /\ pc'[p] = "ring_truncate" /\ op'[p] = op[p]
         /\ mkey'[p] = mkey[p] /\ mkey[p] # 0
         /\ next'[p] = MachineRing(mkey[p], slot[p])
  BY <1>1, <1>2, ReturnFacts, GotoFacts, ProcFacts DEF Use, Local
<1>6. Keyring(p)'
  BY <1>1, <1>2, <1>5, RingParts DEF Kept, Keyring, NoOp
<1>7. Legacies(p)'
  <2>1. \A s \in Secrets : conf'[s].kind = "v1" => conf'[s].key = 1
    BY <1>1, <1>4, FormParts DEF Kept, Legacies
  <2>2. SomeLegacy' =>
          /\ salt = 1 /\ mkey[p] \in {0, 1}
          /\ ring.by = "machine" => ring.key = 1
          /\ next[p].by = "machine" => next[p].key = 1
          /\ ring.by # "password" /\ next[p].by # "password"
    BY <1>1, <1>4 DEF Kept, Legacies
  <2>3. ASSUME op[p].kind = "set", SomeLegacy' PROVE FALSE
    <3>1. conf' = Upgraded(p, Sealed(slot[p]))
      BY <2>3 DEF Use
    <3>2. PICK s \in Secrets : conf'[s].kind = "v1"
      BY <2>3 DEF SomeLegacy
    <3>3. conf'[s] = conf[s] /\ conf[s].kind = "v1" /\ conf[s] # Legacy(mkey[p])
      BY <3>1, <3>2, FormParts DEF Upgraded
    <3>4. mkey[p] = 1 /\ conf[s].key = 1
      BY <1>1, <1>2, <2>3, <3>3 DEF Kept, Legacies, SomeLegacy
    <3> QED
      BY <1>1, <3>3, <3>4, ProcFacts, FormParts
  <2>4. SomeLegacy' => next'[p].by # "password" /\ op'[p].kind # "set"
    BY <1>5, <2>3, RingParts DEF NoOp
  <2> QED
    BY <1>2, <1>5, <2>1, <2>2, <2>4, RingParts DEF Legacies
<1>8. ASSUME mishaps \subseteq {"ring_unsaved"}, Salted(p) PROVE Salted(p)'
  <2>1. ring.dek = slot[p]
    BY <1>1, <1>2, <1>8 DEF Kept, Keyring
  <2>2. \A s \in Secrets : conf'[s].kind = "v2" => ring.dek = conf'[s].key
    BY <1>2, <1>4, <1>8, <2>1, FormParts DEF Salted
  <2> QED
    BY <1>2, <1>5, <1>8, <2>2, RingParts DEF Salted
<1> QED
  BY <1>1, <1>2, <1>6, <1>7, <1>8 DEF Kept

\* One process: a refusal changes no file.
LEMMA RefusedKept == \A p \in Procs : OneInv /\ Refused(p) => Kept(p)'
<1> SUFFICES ASSUME NEW p \in Procs, OneInv, Refused(p) PROVE Kept(p)'
  OBVIOUS
<1>1. Kept(p) /\ TypeInv /\ Local(p)
  BY DEF OneInv, TypeInv
<1>2. /\ pc[p] = "refused" /\ slot'[p] = slot[p] /\ UNCHANGED <<salt, ring, mishaps>>
      /\ pc'[p] = "idle" /\ op'[p] = NoOp /\ mkey'[p] = 0 /\ next'[p] = NoRing
  BY <1>1, ReturnFacts DEF Refused, files
<1>3. /\ \A s \in Secrets : conf'[s] = conf[s] \/ conf'[s] = Empty
      /\ SomeLegacy' => SomeLegacy
  <2>1. CASE conf' = conf
    BY <2>1 DEF SomeLegacy
  <2>2. CASE conf' = [conf EXCEPT ![op[p].arg] = Empty]
    <3>1. \A s \in Secrets : conf'[s] = conf[s] \/ conf'[s] = Empty
      BY <1>1, <2>2, ProcFacts
    <3> QED
      BY <3>1, FormParts DEF SomeLegacy
  <2>3. CASE conf' = Upgraded(p, Empty)
    BY <1>1, <2>3, UpgradedFewer, FormParts, FormFacts
  <2> QED
    BY <2>1, <2>2, <2>3 DEF Refused
<1>4. Keyring(p)'
  BY <1>1, <1>2 DEF Kept, Keyring, NoOp
<1>5. Legacies(p)'
  BY <1>1, <1>2, <1>3, RingParts, FormParts DEF Kept, Legacies
<1>6. Salted(p) => Salted(p)'
  BY <1>2, <1>3, FormParts DEF Salted
<1> QED
  BY <1>1, <1>2, <1>4, <1>5, <1>6 DEF Kept

\* One process: what is in memory is gone, the files stay.
LEMMA RestartKept == \A p \in Procs : OneInv /\ Restart(p) => Kept(p)'
<1> SUFFICES ASSUME NEW p \in Procs, OneInv, Restart(p) PROVE Kept(p)'
  OBVIOUS
<1>1. Kept(p) /\ TypeInv
  BY DEF OneInv
<1>2. /\ slot'[p] = 0 /\ UNCHANGED <<salt, ring, conf>>
      /\ pc'[p] = "idle" /\ op'[p] = NoOp /\ mkey'[p] = 0 /\ next'[p] = NoRing
      /\ mishaps' = mishaps \union Torn(p)
  BY <1>1, ReturnFacts, ProcFacts DEF Restart, files
<1>3. Keyring(p)'
  BY <1>2 DEF Keyring, NoOp
<1>4. Legacies(p)'
  BY <1>1, <1>2, RingParts DEF Kept, Legacies, SomeLegacy
<1>5. ASSUME mishaps' \subseteq {"ring_unsaved"} PROVE Salted(p)'
  <2>1. pc[p] # "ring_fill" /\ mishaps \subseteq {"ring_unsaved"}
    BY <1>2, <1>5 DEF Torn
  <2> QED
    BY <1>1, <1>2, <2>1 DEF Kept, Salted
<1> QED
  BY <1>3, <1>4, <1>5 DEF Kept

\* One process: every step preserves the invariant.
LEMMA OneStep == OneProcess /\ OneInv /\ [Next]_vars => OneInv'
<1> SUFFICES ASSUME OneProcess, OneInv, [Next]_vars PROVE OneInv'
  OBVIOUS
<1>1. TypeInv'
  BY TypeStep DEF OneInv
<1>2. CASE UNCHANGED vars
  BY <1>1, <1>2
  DEF vars, files, OneInv, Kept, Keyring, Legacies, SomeLegacy, Salted
<1>3. ASSUME NEW p \in Procs, Begin(p) \/ Step(p) \/ Restart(p) PROVE OneInv'
  <2>1. Kept(p)'
    BY <1>3, BeginKept, CheckKept, SaltKept, OpenRingKept, WriteRingKept, UseKept,
       RefusedKept, RestartKept DEF Step
  <2> QED
    BY <1>1, <2>1 DEF OneProcess, OneInv
<1> QED
  BY <1>2, <1>3 DEF Next

\* One process: the invariant holds in every state.
LEMMA OneHolds == OneProcess => (Spec => []OneInv)
<1> SUFFICES ASSUME OneProcess PROVE Spec => []OneInv
  OBVIOUS
<1>1. OneInv /\ [Next]_vars => OneInv'
  BY OneStep
<1> QED
  BY <1>1, OneInit, PTL DEF Spec

\* The key in memory is the key on file, for one process that may die at any point.
THEOREM OneKey == OneProcess => (Spec => []OneDek)
<1> SUFFICES ASSUME OneProcess PROVE Spec => []OneDek
  OBVIOUS
<1>1. OneInv => OneDek
  BY DEF OneInv, Kept, Keyring, OneDek
<1> QED
  BY <1>1, OneHolds, PTL

\* Whatever one process does, wherever it dies and whichever write fails, every stored
\* secret can be opened at the next start: unless a keyring was cut short while it was
\* written, or a salt could not be saved.
THEOREM SecretsSurvive == OneProcess => (Spec => []ReadableUnlessTorn)
<1> SUFFICES ASSUME OneProcess PROVE Spec => []ReadableUnlessTorn
  OBVIOUS
<1>1. OneInv => ReadableUnlessTorn
  <2> SUFFICES ASSUME OneInv, mishaps \subseteq {"ring_unsaved"},
                      \A p \in Procs : pc[p] = "idle", NEW s \in Secrets
               PROVE  /\ conf[s].kind = "v2" => Recoverable(conf[s].key)
                      /\ conf[s].kind = "v1" => conf[s].key = salt
    BY DEF ReadableUnlessTorn, SecretsReadable
  <2>1. PICK p \in Procs : pc[p] = "idle"
    BY DEF OneProcess
  <2>2. Salted(p) /\ Legacies(p) /\ ring \in Rings /\ conf[s] \in Forms
    BY ProcFacts DEF OneInv, Kept
  <2>3. ASSUME conf[s].kind = "v2" PROVE Recoverable(conf[s].key)
    <3>1. ring.dek = conf[s].key /\ conf[s].key # 0
      BY <2>1, <2>2, <2>3, FormParts DEF Salted
    <3>2. ring # NoRing
      BY <3>1, RingParts
    <3>3. ring.by = "machine" \/ ring.by = "password"
      BY <2>2, <3>2, RingFacts
    <3>4. ring.by = "machine" => ring = MachineRing(salt, conf[s].key)
      BY <2>2, <3>1, RingParts DEF Salted
    <3> QED
      BY <3>1, <3>3, <3>4 DEF Recoverable
  <2>4. ASSUME conf[s].kind = "v1" PROVE conf[s].key = salt
    BY <2>2, <2>4 DEF Legacies, SomeLegacy
  <2> QED
    BY <2>3, <2>4
<1> QED
  BY <1>1, OneHolds, PTL

\* A keyring under a password is replaced only by a process that has the key it wraps,
\* which the new one wraps again, and removed only by one that was given the password.
THEOREM PasswordIsGuarded == OneProcess => (Spec => PasswordGuards)
<1> SUFFICES ASSUME OneProcess PROVE Spec => PasswordGuards
  OBVIOUS
<1>1. OneInv /\ [Next]_vars =>
          [ring.by = "password" /\ ring' # ring =>
              \E p \in Procs :
                  /\ op[p].kind = "set" \/ op[p] = [kind |-> "clear", arg |-> ring.key]
                  /\ slot[p] = ring.dek /\ next[p].dek = ring.dek]_vars
  <2> SUFFICES ASSUME OneInv, NEW p \in Procs, Begin(p) \/ Step(p) \/ Restart(p),
                      ring.by = "password", ring' # ring
               PROVE  /\ op[p].kind = "set" \/ op[p] = [kind |-> "clear", arg |-> ring.key]
                      /\ slot[p] = ring.dek /\ next[p].dek = ring.dek
    BY DEF Next
  <2>1. Kept(p) /\ TypeInv /\ Local(p)
    BY DEF OneInv, TypeInv
  <2>2. CASE FillRing(p)
    BY <2>1, <2>2, RingParts DEF FillRing, Kept, Keyring
  <2>3. CASE TruncateRing(p)
    <3>1. pc[p] = "ring_truncate" /\ op[p] \in Ops /\ op[p].kind # "unlock"
      BY <2>1, <2>3 DEF TruncateRing, Local
    <3>2. ring # NoRing
      BY RingParts
    <3>3. op[p].kind \in {"set", "clear"}
      <4>1. op[p].kind \in {"open", "seal", "set", "clear"}
        BY <3>1 DEF Ops
      <4> QED
        BY <2>1, <3>1, <3>2, <4>1 DEF Kept, Keyring
    <3>4. op[p].kind = "clear" => op[p] = [kind |-> "clear", arg |-> ring.key]
      <4> SUFFICES ASSUME op[p].kind = "clear" PROVE op[p].arg = ring.key
        BY <3>1 DEF Ops
      <4>1. ring = PasswordRing(op[p].arg, ring.dek)
        BY <2>1, <3>1 DEF Kept, Keyring
      <4> QED
        BY <4>1, RingParts
    <3>5. slot[p] = ring.dek /\ next[p].dek = slot[p]
      BY <2>1, <3>1, <3>2 DEF Kept, Keyring
    <3> QED
      BY <3>3, <3>4, <3>5
  <2> QED
    BY <2>2, <2>3
    DEF Begin, Step, Restart, Check, ReadSalt, TruncateSalt, FillSalt, SaltNotWritten,
        OpenRing, RingNotWritten, Use, Refused, files
<1> QED
  BY <1>1, OneHolds, PTL DEF Spec, PasswordGuards

\* A stored secret is given up only for one that is typed in its place, or when the
\* keyring could not be written.
THEOREM NoSecretDropped == OneProcess => (Spec => SecretsKept)
<1> SUFFICES ASSUME OneProcess PROVE Spec => SecretsKept
  OBVIOUS
<1>1. OneInv /\ [Next]_vars =>
          [\A s \in Secrets :
              conf[s] # Empty /\ conf'[s] = Empty =>
                  \/ \E p \in Procs : op[p] = [kind |-> "seal", arg |-> s]
                  \/ "ring_unsaved" \in mishaps]_vars
  <2> SUFFICES ASSUME OneInv, NEW p \in Procs, Begin(p) \/ Step(p) \/ Restart(p),
                      NEW s \in Secrets, conf[s] # Empty, conf'[s] = Empty
               PROVE  op[p] = [kind |-> "seal", arg |-> s] \/ "ring_unsaved" \in mishaps
    BY DEF Next
  <2>1. Kept(p) /\ TypeInv /\ Local(p) /\ op[p] \in {NoOp} \union Ops
    BY ProcFacts DEF OneInv, TypeInv
  <2>2. conf \in [Secrets -> Forms] /\ conf' # conf
    BY <2>1, ProcFacts
  <2>3. CASE Use(p)
    <3>1. slot[p] \in 1..MaxDeks
      BY <2>1, <2>3, ProcFacts, Bounds DEF Use, Local
    <3>2. Sealed(slot[p]) # Empty
      BY <3>1, FormFacts
    <3> QED
      BY <2>2, <2>3, <3>2 DEF Use, Upgraded
  <2>4. CASE Refused(p)
    <3>1. pc[p] = "refused" /\ op[p] \in Ops
      BY <2>1, <2>4 DEF Refused, Local
    <3>2. CASE op[p].kind = "seal"
      <4>1. conf' = [conf EXCEPT ![op[p].arg] = Empty]
        BY <2>4, <3>2 DEF Refused
      <4>2. op[p].arg = s
        BY <2>2, <4>1
      <4> QED
        BY <3>1, <3>2, <4>2 DEF Ops
    <3>3. CASE op[p].kind = "set"
      <4>1. conf' = Upgraded(p, Empty)
        BY <2>4, <3>3 DEF Refused
      <4>2. conf[s] = Legacy(mkey[p])
        BY <4>1 DEF Upgraded
      <4>3. SomeLegacy
        BY <4>2, FormParts DEF SomeLegacy
      <4> QED
        BY <2>1, <3>1, <3>3, <4>3 DEF Kept, Legacies
    <3>4. CASE op[p].kind \notin {"seal", "set"}
      BY <2>2, <2>4, <3>4 DEF Refused
    <3> QED
      BY <3>2, <3>3, <3>4
  <2> QED
    BY <2>2, <2>3, <2>4
    DEF Begin, Step, Restart, Check, ReadSalt, TruncateSalt, FillSalt, SaltNotWritten,
        OpenRing, TruncateRing, FillRing, RingNotWritten, files
<1> QED
  BY <1>1, OneHolds, PTL DEF Spec, SecretsKept

===============================================================================
