---------------------------- MODULE MoveFlowProofs ----------------------------
(***************************************************************************)
(* Proofs about MoveFlow: whatever is copied, moved, renamed, pasted twice *)
(* or cancelled, content goes only where something was written over it,    *)
(* and what the user declined to overwrite stays.                          *)
(*                                                                         *)
(* The argument counts.  What a flow has copied and may still delete is    *)
(* owed; every copy that is owed was made in addition to the entry it is   *)
(* owed for.  So unless one of them was written over, a content stands in  *)
(* more places than there are entries owed for it, and the deletions at    *)
(* the end of all flows together leave one.  The rest follows the names of *)
(* a flow from the dialog to the end of its transfer.                      *)
(***************************************************************************)
EXTENDS MoveFlow, FiniteSetTheorems, TLAPS

Transfers == {"copy", "error"}

\* What the flows fl have copied of content c and not yet come to an end with.
Owed(fl, c) ==
    UNION {{<<f, n>> : n \in {m \in DOMAIN fl[f].done : fl[f].done[m] = c}} :
               f \in {g \in Flows : fl[g].pc \in Transfers}}

Enough(d, fl, c) ==
    /\ IsFiniteSet(Where(d, c)) /\ IsFiniteSet(Owed(fl, c))
    /\ Cardinality(Owed(fl, c)) < Cardinality(Where(d, c))

Gone == agreed \union silent \union unlisted \union overtaken

\* No content that was not written over is short.
Plenty == \A c \in Contents \ Gone : Enough(disk, flow, c)

-------------------------------------------------------------------------------
(* Where a content stands.                                                   *)

\* An entry is where a content stands.
LEMMA InWhere ==
    ASSUME NEW d, NEW c, NEW x
    PROVE  x \in Where(d, c) <=>
               \E p \in Places : \E n \in DOMAIN d[p] : d[p][n] = c /\ x = <<p, n>>
BY DEF Where

\* A flow owes what it has copied.
LEMMA InOwed ==
    ASSUME NEW fl, NEW c, NEW x
    PROVE  x \in Owed(fl, c) <=>
               \E f \in Flows : /\ fl[f].pc \in Transfers
                                /\ \E n \in DOMAIN fl[f].done : fl[f].done[n] = c /\ x = <<f, n>>
BY DEF Owed

\* More entries and fewer owed are enough.
LEMMA MoreIsEnough ==
    ASSUME NEW d, NEW e, NEW fl, NEW gl, NEW c, Enough(d, fl, c),
           IsFiniteSet(Where(e, c)),
           Where(d, c) \subseteq Where(e, c), Owed(gl, c) \subseteq Owed(fl, c)
    PROVE  Enough(e, gl, c)
<1>1. /\ Cardinality(Where(d, c)) <= Cardinality(Where(e, c))
      /\ Cardinality(Where(d, c)) \in Nat /\ Cardinality(Where(e, c)) \in Nat
  BY FS_Subset, FS_CardinalityType DEF Enough
<1>2. /\ IsFiniteSet(Owed(gl, c))
      /\ Cardinality(Owed(gl, c)) <= Cardinality(Owed(fl, c))
      /\ Cardinality(Owed(gl, c)) \in Nat /\ Cardinality(Owed(fl, c)) \in Nat
  BY FS_Subset, FS_CardinalityType DEF Enough
<1> QED
  BY <1>1, <1>2 DEF Enough

\* So is one more entry for one more owed.
LEMMA OneMoreEach ==
    ASSUME NEW d, NEW e, NEW fl, NEW gl, NEW c, Enough(d, fl, c), NEW x, NEW y,
           x \notin Where(d, c), Where(e, c) = Where(d, c) \union {x},
           Owed(gl, c) \subseteq Owed(fl, c) \union {y}
    PROVE  Enough(e, gl, c)
<1>1. /\ IsFiniteSet(Where(e, c))
      /\ Cardinality(Where(e, c)) = Cardinality(Where(d, c)) + 1
      /\ Cardinality(Where(d, c)) \in Nat
  BY FS_AddElement, FS_CardinalityType DEF Enough
<1> DEFINE O == Owed(fl, c) \union {y}
<1>2. /\ IsFiniteSet(O) /\ Cardinality(O) <= Cardinality(Owed(fl, c)) + 1
      /\ Cardinality(Owed(fl, c)) \in Nat
  <2>1. IsFiniteSet(Owed(fl, c)) /\ Cardinality(Owed(fl, c)) \in Nat
    BY FS_CardinalityType DEF Enough
  <2>2. /\ IsFiniteSet(O)
        /\ Cardinality(O) = IF y \in Owed(fl, c) THEN Cardinality(Owed(fl, c))
                            ELSE Cardinality(Owed(fl, c)) + 1
    BY <2>1, FS_AddElement
  <2> HIDE DEF O
  <2> QED
    BY <2>1, <2>2
<1>3. /\ IsFiniteSet(Owed(gl, c)) /\ Cardinality(Owed(gl, c)) <= Cardinality(O)
      /\ Cardinality(O) \in Nat /\ Cardinality(Owed(gl, c)) \in Nat
  <2> HIDE DEF O
  <2>1. Owed(gl, c) \in SUBSET O
    BY DEF O
  <2> QED
    BY <1>2, <2>1, FS_Subset, FS_CardinalityType
<1> QED
  BY <1>1, <1>2, <1>3 DEF Enough

\* The set s is t without the pairs of p with a member of ns.
Less(s, t, p, ns) == \A x : x \in s <=> x \in t /\ ~\E n \in ns : x = <<p, n>>

\* Entries may go when as much is no longer owed.
LEMMA SettledIsEnough ==
    ASSUME NEW d, NEW e, NEW fl, NEW gl, NEW c, Enough(d, fl, c), NEW p, NEW f, NEW ns, NEW ms,
           Less(Where(e, c), Where(d, c), p, ns), Less(Owed(gl, c), Owed(fl, c), f, ms),
           ns \subseteq ms, \A n \in ms : <<f, n>> \in Owed(fl, c)
    PROVE  Enough(e, gl, c)
<1> DEFINE W == Where(d, c)
           O == Owed(fl, c)
           R == W \intersect {<<p, n>> : n \in ns}
           Q == {<<f, n>> : n \in ms}
<1>1. /\ IsFiniteSet(W) /\ IsFiniteSet(O) /\ Cardinality(O) < Cardinality(W)
      /\ Cardinality(O) \in Nat /\ Cardinality(W) \in Nat
  BY FS_CardinalityType DEF Enough
<1>2. Where(e, c) = W \ R /\ Owed(gl, c) = O \ Q /\ Q \subseteq O /\ R \subseteq W
  BY DEF Less
<1> HIDE DEF W, O
<1>3. IsFiniteSet(R) /\ IsFiniteSet(Q) /\ Cardinality(R) \in Nat /\ Cardinality(Q) \in Nat
  BY <1>1, <1>2, FS_Subset, FS_CardinalityType
<1>4. Cardinality(R) <= Cardinality(Q)
  <2> DEFINE h == [r \in R |-> <<f, r[2]>>]
  <2>1. \A r \in R : \E n \in ns : r = <<p, n>>
    OBVIOUS
  <2>2. h \in [R -> Q]
    BY <2>1
  <2>3. ASSUME NEW r \in R, NEW s \in R, h[r] = h[s] PROVE r = s
    BY <2>1, <2>3
  <2>4. h \in Injection(R, Q)
    BY <2>2, <2>3 DEF Injection, IsInjective
  <2> HIDE DEF h, R, Q
  <2> QED
    BY <1>3, <2>4, FS_Injection
<1> HIDE DEF R, Q
<1>5. /\ IsFiniteSet(W \ R) /\ Cardinality(W \ R) = Cardinality(W) - Cardinality(R)
      /\ IsFiniteSet(O \ Q) /\ Cardinality(O \ Q) = Cardinality(O) - Cardinality(Q)
  <2>1. W \intersect R = R /\ O \intersect Q = Q
    BY <1>2
  <2>2. IsFiniteSet(W \ R) /\ Cardinality(W \ R) = Cardinality(W) - Cardinality(W \intersect R)
    BY <1>1, FS_Difference
  <2>3. IsFiniteSet(O \ Q) /\ Cardinality(O \ Q) = Cardinality(O) - Cardinality(O \intersect Q)
    BY <1>1, FS_Difference
  <2> QED
    BY <2>1, <2>2, <2>3
<1> QED
  BY <1>1, <1>2, <1>3, <1>4, <1>5 DEF Enough

-------------------------------------------------------------------------------
(* What a flow carries at each stage.                                        *)

Opened(w) ==
    /\ w.pc \in {"scan", "stuck", "confirm"}
    /\ w.from \in Places /\ w.dir \in Dirs /\ w.side \in Sides
    /\ {"pc", "from", "dir", "side", "todo", "ren", "move", "cut"} \subseteq DOMAIN w

Settling(w) ==
    /\ w.pc \in {"list", "ask"}
    /\ w.from \in Places /\ w.to \in Places
    /\ {"pc", "from", "to", "todo", "ren", "move", "cut"} \subseteq DOMAIN w

Transferred(w) ==
    /\ w.pc \in Transfers
    /\ w.from \in Places /\ w.to \in Places
    /\ {"pc", "from", "to", "todo", "done"} \subseteq DOMAIN w

FlowOK(w) == w = Free \/ Opened(w) \/ Settling(w) \/ Transferred(w)

Clipped ==
    \/ clip = NoClip
    \/ /\ clip.kind # "none" /\ clip.from \in Places
       /\ {"kind", "from", "anchored"} \subseteq DOMAIN clip

Shape ==
    /\ DOMAIN disk = Places
    /\ panel \in [Sides -> Places]
    /\ Clipped
    /\ DOMAIN flow = Flows /\ \A f \in Flows : FlowOK(flow[f])

\* A step of one flow that keeps its record in order keeps the shape.
LEMMA FlowShape ==
    ASSUME Shape, NEW f \in Flows, NEW w, flow' = [flow EXCEPT ![f] = w], FlowOK(w),
           DOMAIN disk' = Places, UNCHANGED panel, Clipped'
    PROVE  Shape'
<1>1. DOMAIN flow' = Flows /\ \A g \in Flows : flow'[g] = IF g = f THEN w ELSE flow[g]
  BY DEF Shape
<1>2. \A g \in Flows : FlowOK(flow'[g])
  <2> TAKE g \in Flows
  <2>1. CASE g = f
    BY <1>1, <2>1
  <2>2. CASE g # f
    <3>1. FlowOK(flow[g]) /\ flow'[g] = flow[g]
      BY <1>1, <2>2 DEF Shape
    <3> QED
      BY <3>1
  <2> QED
    BY <2>1, <2>2
<1> QED
  BY <1>1, <1>2 DEF Shape

\* The end of a flow leaves the clipboard as it is, or empty.
LEMMA EndShape ==
    ASSUME Shape, NEW f \in Flows, End(f), DOMAIN disk' = Places, UNCHANGED panel
    PROVE  Shape'
<1>1. FlowOK(Free)
  BY DEF FlowOK
<1>2. Clipped'
  BY DEF End, EndClears, Shape, Clipped
<1>3. flow' = [flow EXCEPT ![f] = Free]
  BY DEF End
<1> HIDE DEF Free
<1> QED
  BY <1>1, <1>2, <1>3, FlowShape

\* What the user does outside the dialogs keeps the shape.
LEMMA UserShape ==
    ASSUME Shape, User
    PROVE  Shape'
<1>1. ASSUME NEW s \in Sides, NEW p \in Places, Navigate(s, p) PROVE Shape'
  <2>1. panel' \in [Sides -> Places] /\ Clipped'
    BY <1>1 DEF Shape, Clipped, Navigate, NoClip
  <2> QED
    BY <1>1, <2>1 DEF Navigate, Shape
<1>2. ASSUME NEW s \in Sides, NEW kind \in {"cut", "copy"}, Take(s, kind) PROVE Shape'
  <2>1. Clipped'
    BY <1>2 DEF Shape, Clipped, Take
  <2> QED
    BY <1>2, <2>1 DEF Take, Shape
<1>3. ASSUME NEW s \in Sides, PasteBack(s) PROVE Shape'
  <2>1. Clipped'
    BY <1>3 DEF Clipped, PasteBack
  <2> QED
    BY <1>3, <2>1 DEF PasteBack, Shape, view
<1> QED
  BY <1>1, <1>2, <1>3 DEF User

\* A dialog that opens knows where its source and its destination are.
LEMMA OpenShape ==
    ASSUME Shape, NEW f \in Flows, NEW from \in Places, NEW names, NEW ren, NEW side \in Sides,
           NEW move, NEW cut, Open(f, from, names, ren, side, move, cut),
           UNCHANGED <<disk, panel, clip>>
    PROVE  Shape'
<1> DEFINE w == [pc |-> "scan", from |-> from, dir |-> panel[side].dir, side |-> side,
                 todo |-> names, ren |-> ren, move |-> move, cut |-> cut]
<1>1. panel[side].dir \in Dirs
  BY DEF Shape, Places
<1>2. FlowOK(w)
  BY <1>1 DEF FlowOK, Opened
<1>3. flow' = [flow EXCEPT ![f] = w]
  BY DEF Open
<1>4. DOMAIN disk' = Places /\ Clipped'
  BY DEF Shape, Clipped
<1> HIDE DEF w
<1> QED
  BY <1>2, <1>3, <1>4, FlowShape

\* Every step of a dialog keeps the shape.
LEMMA AskingShape ==
    ASSUME Shape, NEW f \in Flows, Asking(f)
    PROVE  Shape'
<1> DEFINE w == flow[f]
<1>a. /\ FlowOK(w) /\ DOMAIN disk = Places /\ Clipped /\ panel \in [Sides -> Places]
      /\ DOMAIN flow = Flows
  BY DEF Shape
<1>b. ASSUME UNCHANGED <<disk, view, clip>>
      PROVE  DOMAIN disk' = Places /\ UNCHANGED panel /\ Clipped'
  BY <1>a, <1>b DEF view, Clipped
<1>c. FlowOK(Free)
  BY DEF FlowOK
<1>1. ASSUME NEW s \in Sides, NEW move \in BOOLEAN, FKey(f, s, move) PROVE Shape'
  <2>1. (CHOOSE o \in Sides : o # s) \in Sides
    BY DEF Sides
  <2>2. panel[s] \in Places
    BY <1>a
  <2>3. UNCHANGED <<disk, panel, clip>>
    BY <1>1 DEF FKey, view
  <2>4. PICK names : Open(f, panel[s], names, [n \in names |-> n], CHOOSE o \in Sides : o # s,
                          move, FALSE)
    BY <1>1 DEF FKey
  <2> QED
    BY <2>1, <2>2, <2>3, <2>4, OpenShape
<1>2. ASSUME NEW s \in Sides, Paste(f, s) PROVE Shape'
  <2>1. clip.from \in Places
    BY <1>2, <1>a DEF Paste, Clipped, NoClip
  <2>2. UNCHANGED <<disk, panel, clip>>
    BY <1>2 DEF Paste, view
  <2>3. PICK ren : Open(f, clip.from, clip.names, ren, s, clip.kind = "cut", clip.kind = "cut")
    BY <1>2 DEF Paste
  <2> QED
    BY <2>1, <2>2, <2>3, OpenShape
<1>3. ASSUME NEW s \in Sides, Drop(f, s) PROVE Shape'
  <2>1. PICK first, names, ren :
            first \in Places /\ Open(f, first, names, ren, s, FALSE, FALSE)
    BY <1>3 DEF Drop
  <2>2. UNCHANGED <<disk, panel, clip>>
    BY <1>3 DEF Drop
  <2> QED
    BY <2>1, <2>2, OpenShape
<1>4. CASE ScanDone(f)
  <2> DEFINE v == [w EXCEPT !.pc = "confirm"]
  <2>1. FlowOK(v)
    BY <1>4, <1>a DEF ScanDone, FlowOK, Opened, Settling, Transferred, Free, Transfers
  <2>2. flow' = [flow EXCEPT ![f] = v] /\ UNCHANGED <<disk, view, clip>>
    BY <1>4, <1>a DEF ScanDone
  <2> HIDE DEF v
  <2> QED
    BY <2>1, <2>2, <1>b, FlowShape
<1>5. CASE ScanFails(f)
  <2> DEFINE v == IF w.from.fs \in Local THEN [w EXCEPT !.pc = "confirm", !.todo = {}]
                  ELSE [w EXCEPT !.pc = "stuck"]
  <2>1. FlowOK(v)
    BY <1>5, <1>a DEF ScanFails, FlowOK, Opened, Settling, Transferred, Free, Transfers
  <2>2. flow' = [flow EXCEPT ![f] = v] /\ UNCHANGED <<disk, view, clip>>
    BY <1>5, <1>a DEF ScanFails
  <2> HIDE DEF v
  <2> QED
    BY <2>1, <2>2, <1>b, FlowShape
<1>6. CASE Dismiss(f) \/ ConfirmNothing(f)
  <2>1. flow' = [flow EXCEPT ![f] = Free] /\ UNCHANGED <<disk, view, clip>>
    BY <1>6 DEF Dismiss, ConfirmNothing
  <2> HIDE DEF Free
  <2> QED
    BY <2>1, <1>b, <1>c, FlowShape
<1>7. ASSUME w.pc = "confirm" PROVE Opened(w) /\ Target(f) \in Places
  <2>1. Opened(w)
    BY <1>7, <1>a DEF FlowOK, Opened, Settling, Transferred, Free, Transfers
  <2>2. panel[w.side].fs \in FileSystems
    BY <2>1, <1>a DEF Opened, Places
  <2> QED
    BY <2>1, <2>2 DEF Opened, Target, Places
<1>8. ASSUME NEW to \in Places, NEW rest, w.pc = "confirm", Listing(f, to, rest),
             DOMAIN disk' = Places, UNCHANGED panel, UNCHANGED clip
      PROVE  Shape'
  <2> DEFINE v == [pc |-> "list", from |-> w.from, to |-> to, todo |-> rest, ren |-> w.ren,
                   move |-> w.move, cut |-> w.cut]
  <2>1. FlowOK(v)
    BY <1>7, <1>8 DEF FlowOK, Opened, Settling
  <2>2. flow' = [flow EXCEPT ![f] = v] /\ Clipped'
    BY <1>8, <1>a DEF Listing, Clipped
  <2> HIDE DEF v
  <2> QED
    BY <2>1, <2>2, <1>8, FlowShape
<1>9. CASE Confirm(f)
  BY <1>9, <1>7, <1>8, <1>b DEF Confirm
<1>10. CASE ConfirmRenaming(f)
  <2>1. DOMAIN disk' = Places /\ UNCHANGED panel /\ w.pc = "confirm"
    BY <1>10, <1>a DEF ConfirmRenaming, view
  <2>2. \/ End(f)
        \/ UNCHANGED clip /\ \E rest : Listing(f, Target(f), rest)
    BY <1>10 DEF ConfirmRenaming
  <2> QED
    BY <2>1, <2>2, <1>7, <1>8, EndShape
<1>11. ASSUME w.pc = "list", NEW todo, NEW listed, NEW yes
       PROVE  FlowOK(Transferring(w, todo, listed, yes))
  BY <1>11, <1>a DEF Transferring, FlowOK, Opened, Settling, Transferred, Free, Transfers
<1>12. CASE Listed(f)
  <2> DEFINE existing == {w.ren[n] : n \in w.todo} \intersect At(w.to)
             v == IF existing = {} THEN Transferring(w, w.todo, {}, {})
                  ELSE [pc |-> "ask", from |-> w.from, to |-> w.to, todo |-> w.todo,
                        ren |-> w.ren, move |-> w.move, cut |-> w.cut,
                        listed |-> existing, asks |-> existing, yes |-> {}]
  <2>1. w.pc = "list" /\ flow' = [flow EXCEPT ![f] = v] /\ UNCHANGED <<disk, view, clip>>
    BY <1>12 DEF Listed
  <2>2. FlowOK(v)
    <3>1. CASE existing = {}
      BY <2>1, <3>1, <1>11
    <3>2. CASE existing # {}
      BY <2>1, <3>2, <1>a DEF FlowOK, Opened, Settling, Transferred, Free, Transfers
    <3> QED
      BY <3>1, <3>2
  <2> HIDE DEF v
  <2> QED
    BY <2>1, <2>2, <1>b, FlowShape
<1>13. CASE ListFails(f)
  <2> DEFINE v == Transferring(w, w.todo, {}, {})
  <2>1. w.pc = "list" /\ flow' = [flow EXCEPT ![f] = v] /\ UNCHANGED <<disk, view, clip>>
    BY <1>13 DEF ListFails
  <2>2. FlowOK(v)
    BY <2>1, <1>11
  <2> HIDE DEF v
  <2> QED
    BY <2>1, <2>2, <1>b, FlowShape
<1>14. ASSUME NEW names, NEW overwrite \in BOOLEAN, Reply(f, names, overwrite) PROVE Shape'
  <2> DEFINE asks == w.asks \ names
             yes == IF overwrite THEN w.yes \union names ELSE w.yes
             v == Asked(w, asks, yes)
  <2>1. /\ w.pc = "ask" /\ UNCHANGED <<disk, view>>
        /\ End(f) \/ (flow' = [flow EXCEPT ![f] = v] /\ UNCHANGED clip)
    BY <1>14 DEF Reply
  <2>2. FlowOK(v)
    <3> HIDE DEF asks, yes
    <3>1. Settling(w)
      BY <2>1, <1>a DEF FlowOK, Opened, Settling, Transferred, Free, Transfers
    <3>2. FlowOK([w EXCEPT !.asks = asks, !.yes = yes])
      BY <2>1, <3>1 DEF FlowOK, Settling
    <3>3. ASSUME NEW todo PROVE FlowOK(Transferring(w, todo, w.listed, yes))
      BY <3>1 DEF FlowOK, Settling, Transferring, Transferred, Transfers
    <3> QED
      BY <3>2, <3>3 DEF Asked
  <2> HIDE DEF v
  <2> QED
    BY <2>1, <2>2, <1>a, <1>b, FlowShape, EndShape DEF view
<1>15. CASE CancelAsk(f)
  BY <1>15, <1>a, EndShape DEF CancelAsk, view
<1>16. ASSUME NEW overwrite \in BOOLEAN, ReplyOne(f, overwrite) \/ ReplyAll(f, overwrite)
       PROVE  Shape'
  BY <1>14, <1>16 DEF ReplyOne, ReplyAll
<1> QED
  BY <1>1, <1>2, <1>3, <1>4, <1>5, <1>6, <1>9, <1>10, <1>12, <1>13, <1>15, <1>16 DEF Asking

\* Every step of a transfer keeps the shape.
LEMMA MovingShape ==
    ASSUME Shape, NEW f \in Flows, Moving(f)
    PROVE  Shape' /\ Transferred(flow[f])
<1> DEFINE w == flow[f]
<1>a. /\ FlowOK(w) /\ DOMAIN disk = Places /\ Clipped
      /\ DOMAIN flow = Flows
  BY DEF Shape
<1>b. ASSUME UNCHANGED <<view, clip>> PROVE UNCHANGED panel /\ Clipped'
  BY <1>a, <1>b DEF view, Clipped
<1>c. w.pc \in Transfers
  BY DEF Moving, CopyEntry, ReadFails, WriteFails, Retry, Skip, Abort, CancelTransfer, Finish,
         Transfers
<1>d. Transferred(w)
  BY <1>a, <1>c DEF FlowOK, Opened, Settling, Free, Transfers
<1>e. \A p, n, k : DOMAIN Put(p, n, k) = Places
  BY <1>a DEF Put
<1>f. \A p, names : DOMAIN Without(p, names) = Places
  BY <1>a DEF Without
<1>1. CASE CopyEntry(f)
  <2>1. PICK n : /\ disk' = Put(w.to, w.ren[n], Copied(w, n))
                 /\ flow' = [flow EXCEPT
                        ![f].todo = @ \ {n},
                        ![f].done = [m \in DOMAIN @ \union {n} |->
                                        IF m = n THEN disk[w.from][n] ELSE @[m]]]
    BY <1>1 DEF CopyEntry
  <2> DEFINE v == [w EXCEPT !.todo = @ \ {n},
                            !.done = [m \in DOMAIN @ \union {n} |->
                                        IF m = n THEN disk[w.from][n] ELSE @[m]]]
  <2>2. flow' = [flow EXCEPT ![f] = v]
    BY <2>1, <1>a
  <2>3. FlowOK(v)
    BY <1>d DEF FlowOK, Transferred
  <2>4. UNCHANGED <<view, clip>> /\ DOMAIN disk' = Places
    BY <1>1, <1>e, <2>1 DEF CopyEntry
  <2> HIDE DEF v
  <2> QED
    BY <2>2, <2>3, <2>4, <1>b, <1>d, FlowShape
<1>2. ASSUME NEW n PROVE FlowOK(Failing(w, n))
  BY <1>d DEF FlowOK, Transferred, Failing, Transfers
<1>3. CASE ReadFails(f) \/ WriteFails(f)
  <2>1. PICK n : flow' = [flow EXCEPT ![f] = Failing(w, n)]
    BY <1>3 DEF ReadFails, WriteFails
  <2>2. UNCHANGED <<view, clip>> /\ DOMAIN disk' = Places
    BY <1>3, <1>a, <1>e DEF ReadFails, WriteFails
  <2> QED
    BY <2>1, <2>2, <1>2, <1>b, <1>d, FlowShape
<1>4. ASSUME NEW todo, NEW listed, NEW yes
      PROVE  FlowOK([Transferring(w, todo, listed, yes) EXCEPT !.done = w.done])
  BY <1>d DEF FlowOK, Transferred, Transferring, Transfers
<1>5. DropFailed(w) => DOMAIN disk' = Places
  BY <1>a, <1>f DEF DropFailed
<1>6. CASE Retry(f) \/ Skip(f)
  <2>1. PICK todo : flow' = [flow EXCEPT ![f] =
                       [Transferring(w, todo, w.listed, w.yes) EXCEPT !.done = w.done]]
    BY <1>6, <1>a DEF Retry, Skip
  <2>2. UNCHANGED <<view, clip>> /\ DOMAIN disk' = Places
    BY <1>6, <1>a, <1>5 DEF Retry, Skip
  <2> DEFINE v == [Transferring(w, todo, w.listed, w.yes) EXCEPT !.done = w.done]
  <2>3. FlowOK(v)
    BY <1>4
  <2>4. flow' = [flow EXCEPT ![f] = v]
    BY <2>1
  <2> HIDE DEF v
  <2> QED
    BY <2>2, <2>3, <2>4, <1>b, <1>d, FlowShape
<1>7. CASE Abort(f)
  BY <1>7, <1>5, <1>d, EndShape DEF Abort, view
<1>8. CASE CancelTransfer(f)
  BY <1>8, <1>a, <1>f, <1>d, EndShape DEF CancelTransfer, view
<1>9. CASE Finish(f)
  BY <1>9, <1>a, <1>f, <1>d, EndShape DEF Finish, view
<1> QED
  BY <1>1, <1>3, <1>6, <1>7, <1>8, <1>9 DEF Moving

-------------------------------------------------------------------------------
(* What a step does to the entries and to what is owed.                      *)

\* Writing an entry nobody needs adds a place for what is written.
LEMMA PutWhere ==
    ASSUME DOMAIN disk = Places, NEW p \in Places, NEW n, NEW k, NEW c,
           n \in At(p) => disk[p][n] # c
    PROVE  /\ <<p, n>> \notin Where(disk, c)
           /\ Where(Put(p, n, k), c) = Where(disk, c) \union (IF k = c THEN {<<p, n>>} ELSE {})
<1> DEFINE e == Put(p, n, k)
<1>1. \A q \in Places :
         e[q] = IF q = p THEN [m \in At(p) \union {n} |-> IF m = n THEN k ELSE disk[p][m]]
                ELSE disk[q]
  BY DEF Put, At
<1> HIDE DEF e
<1>2. <<p, n>> \notin Where(disk, c)
  BY DEF Where, At
<1>3. ASSUME NEW x
      PROVE  x \in Where(e, c) <=> x \in Where(disk, c) \/ (k = c /\ x = <<p, n>>)
  <2>1. ASSUME NEW q \in Places, NEW m
        PROVE  /\ m \in DOMAIN e[q] <=> m \in DOMAIN disk[q] \/ (q = p /\ m = n)
               /\ m \in DOMAIN e[q] => e[q][m] = IF q = p /\ m = n THEN k ELSE disk[q][m]
    <3>1. CASE q = p
      <4>1. e[q] = [j \in At(q) \union {n} |-> IF j = n THEN k ELSE disk[q][j]]
        BY <1>1, <3>1
      <4> QED
        BY <3>1, <4>1 DEF At
    <3>2. CASE q # p
      BY <1>1, <3>2
    <3> QED
      BY <3>1, <3>2
  <2>2. ASSUME x \in Where(e, c) PROVE x \in Where(disk, c) \/ (k = c /\ x = <<p, n>>)
    <3>1. PICK q, m : q \in Places /\ m \in DOMAIN e[q] /\ e[q][m] = c /\ x = <<q, m>>
      BY <2>2, InWhere
    <3>2. CASE q = p /\ m = n
      BY <2>1, <3>1, <3>2
    <3>3. CASE ~(q = p /\ m = n)
      <4>1. m \in DOMAIN disk[q] /\ disk[q][m] = c
        BY <2>1, <3>1, <3>3
      <4> QED
        BY <3>1, <4>1, InWhere
    <3> QED
      BY <3>2, <3>3
  <2>3. ASSUME x \in Where(disk, c) PROVE x \in Where(e, c)
    <3>1. PICK q, m : q \in Places /\ m \in DOMAIN disk[q] /\ disk[q][m] = c /\ x = <<q, m>>
      BY <2>3, InWhere
    <3>2. ~(q = p /\ m = n)
      BY <1>2, <2>3, <3>1
    <3>3. m \in DOMAIN e[q] /\ e[q][m] = c
      BY <2>1, <3>1, <3>2
    <3> QED
      BY <3>1, <3>3, InWhere
  <2>4. ASSUME k = c, x = <<p, n>> PROVE x \in Where(e, c)
    <3>1. n \in DOMAIN e[p] /\ e[p][n] = c
      BY <2>1, <2>4
    <3> QED
      BY <2>4, <3>1, InWhere
  <2> QED
    BY <2>2, <2>3, <2>4
<1> QED
  BY <1>2, <1>3 DEF e

\* Deleting entries takes just these away.
LEMMA WithoutWhere ==
    ASSUME DOMAIN disk = Places, NEW p \in Places, NEW names, NEW c
    PROVE  \A x : x \in Where(Without(p, names), c) <=>
                      x \in Where(disk, c) /\ ~\E n \in names : x = <<p, n>>
<1> DEFINE e == Without(p, names)
<1>1. \A q \in Places : e[q] = IF q = p THEN [m \in At(p) \ names |-> disk[p][m]] ELSE disk[q]
  BY DEF Without, At
<1> HIDE DEF e
<1>2. ASSUME NEW q \in Places, NEW m
      PROVE  /\ m \in DOMAIN e[q] <=> m \in DOMAIN disk[q] /\ ~(q = p /\ m \in names)
             /\ m \in DOMAIN e[q] => e[q][m] = disk[q][m]
  BY <1>1 DEF At
<1>3. ASSUME NEW x
      PROVE  x \in Where(e, c) <=> x \in Where(disk, c) /\ ~\E n \in names : x = <<p, n>>
  <2>1. ASSUME x \in Where(e, c) PROVE x \in Where(disk, c) /\ ~\E n \in names : x = <<p, n>>
    <3>1. PICK q, m : q \in Places /\ m \in DOMAIN e[q] /\ e[q][m] = c /\ x = <<q, m>>
      BY <2>1, InWhere
    <3>2. m \in DOMAIN disk[q] /\ disk[q][m] = c /\ ~(q = p /\ m \in names)
      BY <1>2, <3>1
    <3>3. x \in Where(disk, c)
      BY <3>1, <3>2, InWhere
    <3> QED
      BY <3>1, <3>2, <3>3
  <2>2. ASSUME x \in Where(disk, c), ~\E n \in names : x = <<p, n>> PROVE x \in Where(e, c)
    <3>1. PICK q, m : q \in Places /\ m \in DOMAIN disk[q] /\ disk[q][m] = c /\ x = <<q, m>>
      BY <2>2, InWhere
    <3>2. ~(q = p /\ m \in names)
      BY <2>2, <3>1
    <3>3. m \in DOMAIN e[q] /\ e[q][m] = c
      BY <1>2, <3>1, <3>2
    <3> QED
      BY <3>1, <3>3, InWhere
  <2> QED
    BY <2>1, <2>2
<1> QED
  BY <1>3 DEF e

\* What a logged step writes over is counted: a content that is not was not there.
LEMMA LoggedSpares ==
    ASSUME NEW w, NEW n, Logged(w, n), NEW c, c \notin Gone'
    PROVE  c \notin Gone /\ (n \in At(w.to) => disk[w.to][n] # c)
<1> DEFINE old == {disk[w.to][m] : m \in {n} \intersect At(w.to)}
<1>1. Gone' = Gone \union old
  BY DEF Logged, Gone
<1> QED
  BY <1>1

\* A step that copies nothing adds nothing to what is owed.
LEMMA OwesNoMore ==
    ASSUME DOMAIN flow = Flows, NEW f \in Flows, NEW w, flow' = [flow EXCEPT ![f] = w], NEW c,
           \/ w.pc \notin Transfers
           \/ w.done = <<>>
           \/ flow[f].pc \in Transfers /\ w.done = flow[f].done
    PROVE  Owed(flow', c) \subseteq Owed(flow, c)
<1>1. \A g \in Flows : flow'[g] = IF g = f THEN w ELSE flow[g]
  OBVIOUS
<1>2. ASSUME NEW x \in Owed(flow', c) PROVE x \in Owed(flow, c)
  <2>1. PICK g \in Flows : /\ flow'[g].pc \in Transfers
                           /\ \E n \in DOMAIN flow'[g].done : flow'[g].done[n] = c /\ x = <<g, n>>
    BY <1>2 DEF Owed
  <2>2. flow[g].pc \in Transfers /\ flow[g].done = flow'[g].done
    <3>1. CASE g # f
      BY <1>1, <2>1, <3>1
    <3>2. CASE g = f
      <4>1. flow'[g] = w
        BY <1>1, <3>2
      <4>2. DOMAIN <<>> = {}
        OBVIOUS
      <4>3. w.done # <<>> /\ w.pc \in Transfers
        BY <2>1, <4>1, <4>2
      <4> QED
        BY <3>2, <4>1, <4>3
    <3> QED
      BY <3>1, <3>2
  <2> QED
    BY <2>1, <2>2, InOwed
<1> QED
  BY <1>2

\* What the places hold once the names in moved have gone from one to the other.
Renamed(e, from, to, moved) ==
    \A q \in Places : \A m :
        /\ m \in DOMAIN e[q] <=> \/ m \in DOMAIN disk[q] /\ ~(q = from /\ m \in moved)
                                 \/ q = to /\ m \in moved
        /\ m \in DOMAIN e[q] => e[q][m] = IF q = to /\ m \in moved THEN disk[from][m]
                                          ELSE disk[q][m]

\* Renames move a content from one place to another, unless they write over it.
LEMMA RenamedWhere ==
    ASSUME DOMAIN disk = Places, NEW from \in Places, NEW to \in Places, from # to,
           NEW moved \in SUBSET At(from), NEW c, IsFiniteSet(Where(disk, c)),
           \A n \in moved : n \in At(to) => disk[to][n] # c,
           NEW e,
           Renamed(e, from, to, moved)
    PROVE  IsFiniteSet(Where(e, c)) /\ Cardinality(Where(e, c)) = Cardinality(Where(disk, c))
<1> DEFINE W == Where(disk, c)
           V == Where(e, c)
           h == [x \in W |-> IF x[1] = from /\ x[2] \in moved THEN <<to, x[2]>> ELSE x]
<1>1. ASSUME NEW q \in Places, NEW m
      PROVE  /\ m \in DOMAIN e[q] <=> \/ m \in DOMAIN disk[q] /\ ~(q = from /\ m \in moved)
                                      \/ q = to /\ m \in moved
             /\ m \in DOMAIN e[q] => e[q][m] = IF q = to /\ m \in moved THEN disk[from][m]
                                               ELSE disk[q][m]
  BY DEF Renamed
<1>2. ASSUME NEW x
      PROVE  x \in W <=> \E q, m : /\ q \in Places /\ m \in DOMAIN disk[q]
                                  /\ disk[q][m] = c /\ x = <<q, m>>
  BY InWhere
<1>3. ASSUME NEW x
      PROVE  x \in V <=> \E q, m : q \in Places /\ m \in DOMAIN e[q] /\ e[q][m] = c /\ x = <<q, m>>
  BY InWhere
<1>4. \A n \in moved : n \in DOMAIN disk[from]
  BY DEF At
<1>5. \A n \in moved : <<to, n>> \notin W
  <2> SUFFICES ASSUME NEW n \in moved, <<to, n>> \in W PROVE FALSE
    OBVIOUS
  <2>1. n \in DOMAIN disk[to] /\ disk[to][n] = c
    BY <1>2
  <2> QED
    BY <2>1 DEF At
<1> HIDE DEF W, V
<1>6. \A x \in W : h[x] \in V
  <2> TAKE x \in W
  <2>1. PICK q, m : q \in Places /\ m \in DOMAIN disk[q] /\ disk[q][m] = c /\ x = <<q, m>>
    BY <1>2
  <2>2. CASE q = from /\ m \in moved
    <3>1. h[x] = <<to, m>>
      BY <2>1, <2>2
    <3>2. m \in DOMAIN e[to] /\ e[to][m] = c
      BY <1>1, <2>1, <2>2
    <3> QED
      BY <1>3, <3>1, <3>2
  <2>3. CASE ~(q = from /\ m \in moved)
    <3>1. h[x] = x
      BY <2>1, <2>3
    <3>2. ~(q = to /\ m \in moved)
      BY <1>5, <2>1
    <3>3. m \in DOMAIN e[q] /\ e[q][m] = c
      BY <1>1, <2>1, <2>3, <3>2
    <3> QED
      BY <1>3, <2>1, <3>1, <3>3
  <2> QED
    BY <2>2, <2>3
<1>7. ASSUME NEW x \in W, NEW y \in W, h[x] = h[y] PROVE x = y
  <2>1. PICK q, m : q \in Places /\ x = <<q, m>>
    BY <1>2
  <2>2. PICK p, n : p \in Places /\ y = <<p, n>>
    BY <1>2
  <2>3. h[x] = IF q = from /\ m \in moved THEN <<to, m>> ELSE <<q, m>>
    BY <2>1
  <2>4. h[y] = IF p = from /\ n \in moved THEN <<to, n>> ELSE <<p, n>>
    BY <2>2
  <2>5. ~(q = to /\ m \in moved) /\ ~(p = to /\ n \in moved)
    BY <1>5, <2>1, <2>2
  <2> HIDE DEF h
  <2> QED
    BY <1>7, <2>1, <2>2, <2>3, <2>4, <2>5
<1>8. \A z \in V : \E x \in W : h[x] = z
  <2> TAKE z \in V
  <2>1. PICK q, m : q \in Places /\ m \in DOMAIN e[q] /\ e[q][m] = c /\ z = <<q, m>>
    BY <1>3
  <2>2. CASE q = to /\ m \in moved
    <3>1. disk[from][m] = c /\ m \in DOMAIN disk[from]
      BY <1>1, <1>4, <2>1, <2>2
    <3>2. <<from, m>> \in W
      BY <1>2, <3>1
    <3> QED
      BY <2>1, <2>2, <3>2
  <2>3. CASE ~(q = to /\ m \in moved)
    <3>1. m \in DOMAIN disk[q] /\ disk[q][m] = c /\ ~(q = from /\ m \in moved)
      BY <1>1, <2>1, <2>3
    <3>2. z \in W
      BY <1>2, <2>1, <3>1
    <3>3. h[z] = z
      BY <2>1, <3>1, <3>2
    <3> QED
      BY <3>2, <3>3
  <2> QED
    BY <2>2, <2>3
<1>9. h \in Bijection(W, V)
  <2>1. h \in [W -> V]
    BY <1>6
  <2> QED
    BY <1>7, <1>8, <2>1 DEF Bijection, Injection, Surjection, IsInjective
<1>10. ExistsBijection(W, V)
  BY <1>9 DEF ExistsBijection
<1>11. IsFiniteSet(V) /\ Cardinality(V) = Cardinality(W)
  <2>1. IsFiniteSet(W)
    BY DEF W
  <2> QED
    BY <1>10, <2>1, FS_Bijection
<1> QED
  BY <1>11 DEF V, W

\* Nothing is short when a step copies nothing and touches no entry.
LEMMA QuietPlenty ==
    ASSUME Shape, Plenty, UNCHANGED <<disk, tally>>,
           NEW f \in Flows, NEW w, flow' = [flow EXCEPT ![f] = w],
           w.pc \notin Transfers \/ w.done = <<>>
               \/ (flow[f].pc \in Transfers /\ w.done = flow[f].done)
    PROVE  Plenty'
<1> SUFFICES ASSUME NEW c \in Contents \ Gone' PROVE Enough(disk', flow', c)
  BY DEF Plenty
<1>1. c \notin Gone
  BY DEF Gone, tally
<1>2. Owed(flow', c) \subseteq Owed(flow, c)
  BY OwesNoMore DEF Shape
<1>3. Enough(disk, flow, c)
  BY <1>1 DEF Plenty
<1>4. IsFiniteSet(Where(disk, c))
  BY <1>3 DEF Enough
<1>5. Enough(disk, flow', c)
  BY <1>2, <1>3, <1>4, MoreIsEnough
<1> QED
  BY <1>5

\* Neither dialogs nor the renames that come first leave a content short.
LEMMA AskingPlenty ==
    ASSUME Shape, Plenty, NEW f \in Flows, Asking(f)
    PROVE  Plenty'
<1> DEFINE w == flow[f]
<1>a. /\ FlowOK(w) /\ DOMAIN disk = Places /\ panel \in [Sides -> Places]
      /\ DOMAIN flow = Flows
  BY DEF Shape
<1>b. Free.pc \notin Transfers
  BY DEF Free, Transfers
<1>1. ASSUME NEW from, NEW names, NEW ren, NEW side, NEW move, NEW cut,
             Open(f, from, names, ren, side, move, cut), UNCHANGED <<disk, tally>>
      PROVE  Plenty'
  <2> DEFINE v == [pc |-> "scan", from |-> from, dir |-> panel[side].dir, side |-> side,
                   todo |-> names, ren |-> ren, move |-> move, cut |-> cut]
  <2>1. flow' = [flow EXCEPT ![f] = v]
    BY <1>1 DEF Open
  <2>2. v.pc \notin Transfers
    BY DEF Transfers
  <2> HIDE DEF v
  <2> QED
    BY <1>1, <2>1, <2>2, QuietPlenty
<1>2. CASE \/ \E s \in Sides, move \in BOOLEAN : FKey(f, s, move)
           \/ \E s \in Sides : Paste(f, s)
           \/ \E s \in Sides : Drop(f, s)
  <2>1. PICK from, names, ren, side, move, cut : Open(f, from, names, ren, side, move, cut)
    BY <1>2 DEF FKey, Paste, Drop
  <2>2. UNCHANGED <<disk, tally>>
    BY <1>2 DEF FKey, Paste, Drop
  <2> QED
    BY <1>1, <2>1, <2>2
<1>3. CASE ScanDone(f)
  <2> DEFINE v == [w EXCEPT !.pc = "confirm"]
  <2>1. v.pc \notin Transfers
    BY <1>3, <1>a DEF ScanDone, FlowOK, Opened, Settling, Transferred, Free, Transfers
  <2>2. flow' = [flow EXCEPT ![f] = v] /\ UNCHANGED <<disk, tally>>
    BY <1>3, <1>a DEF ScanDone
  <2> HIDE DEF v
  <2> QED
    BY <2>1, <2>2, QuietPlenty
<1>4. CASE ScanFails(f)
  <2> DEFINE v == IF w.from.fs \in Local THEN [w EXCEPT !.pc = "confirm", !.todo = {}]
                  ELSE [w EXCEPT !.pc = "stuck"]
  <2>1. v.pc \notin Transfers
    BY <1>4, <1>a DEF ScanFails, FlowOK, Opened, Settling, Transferred, Free, Transfers
  <2>2. flow' = [flow EXCEPT ![f] = v] /\ UNCHANGED <<disk, tally>>
    BY <1>4, <1>a DEF ScanFails
  <2> HIDE DEF v
  <2> QED
    BY <2>1, <2>2, QuietPlenty
<1>5. ASSUME UNCHANGED <<disk, tally>>, End(f) PROVE Plenty'
  <2>1. flow' = [flow EXCEPT ![f] = Free]
    BY <1>5 DEF End
  <2> HIDE DEF Free
  <2> QED
    BY <1>5, <1>b, <2>1, QuietPlenty
<1>6. CASE Dismiss(f) \/ ConfirmNothing(f)
  <2>1. flow' = [flow EXCEPT ![f] = Free] /\ UNCHANGED <<disk, tally>>
    BY <1>6 DEF Dismiss, ConfirmNothing
  <2> HIDE DEF Free
  <2> QED
    BY <1>b, <2>1, QuietPlenty
<1>7. CASE CancelAsk(f)
  BY <1>5, <1>7 DEF CancelAsk
<1>8. ASSUME NEW to, NEW rest, Listing(f, to, rest)
      PROVE  \E v : flow' = [flow EXCEPT ![f] = v] /\ v.pc = "list"
  <2> DEFINE v == [pc |-> "list", from |-> w.from, to |-> to, todo |-> rest, ren |-> w.ren,
                   move |-> w.move, cut |-> w.cut]
  <2>1. flow' = [flow EXCEPT ![f] = v] /\ v.pc = "list"
    BY <1>8, <1>a DEF Listing
  <2> HIDE DEF v
  <2> QED
    BY <2>1
<1>9. CASE Confirm(f)
  <2>1. PICK v : flow' = [flow EXCEPT ![f] = v] /\ v.pc = "list"
    BY <1>8, <1>9 DEF Confirm
  <2>2. v.pc \notin Transfers
    BY <2>1 DEF Transfers
  <2> QED
    BY <1>9, <2>1, <2>2, QuietPlenty DEF Confirm
<1>10. ASSUME NEW todo, NEW listed, NEW yes PROVE Transferring(w, todo, listed, yes).done = <<>>
  BY DEF Transferring
<1>11. CASE Listed(f)
  <2> DEFINE existing == {w.ren[n] : n \in w.todo} \intersect At(w.to)
             u == [pc |-> "ask", from |-> w.from, to |-> w.to, todo |-> w.todo,
                   ren |-> w.ren, move |-> w.move, cut |-> w.cut,
                   listed |-> existing, asks |-> existing, yes |-> {}]
             v == IF existing = {} THEN Transferring(w, w.todo, {}, {}) ELSE u
  <2>1. flow' = [flow EXCEPT ![f] = v] /\ UNCHANGED <<disk, tally>>
    BY <1>11 DEF Listed
  <2>2. v.pc \notin Transfers \/ v.done = <<>>
    <3>1. u.pc \notin Transfers
      BY DEF Transfers
    <3> HIDE DEF u, existing
    <3> QED
      BY <1>10, <3>1
  <2> HIDE DEF v
  <2> QED
    BY <2>1, <2>2, QuietPlenty
<1>12. CASE ListFails(f)
  <2> DEFINE v == Transferring(w, w.todo, {}, {})
  <2>1. flow' = [flow EXCEPT ![f] = v] /\ UNCHANGED <<disk, tally>>
    BY <1>12 DEF ListFails
  <2>2. v.done = <<>>
    BY <1>10
  <2> HIDE DEF v
  <2> QED
    BY <2>1, <2>2, QuietPlenty
<1>13. ASSUME NEW names, NEW overwrite \in BOOLEAN, Reply(f, names, overwrite) PROVE Plenty'
  <2> DEFINE asks == w.asks \ names
             yes == IF overwrite THEN w.yes \union names ELSE w.yes
             v == Asked(w, asks, yes)
  <2>1. /\ w.pc = "ask" /\ UNCHANGED <<disk, tally>>
        /\ End(f) \/ flow' = [flow EXCEPT ![f] = v]
    BY <1>13 DEF Reply
  <2>2. v.pc \notin Transfers \/ v.done = <<>>
    <3> HIDE DEF asks, yes
    <3>1. Settling(w)
      BY <2>1, <1>a DEF FlowOK, Opened, Settling, Transferred, Free, Transfers
    <3>2. [w EXCEPT !.asks = asks, !.yes = yes].pc \notin Transfers
      BY <2>1, <3>1 DEF Settling, Transfers
    <3> QED
      BY <3>2, <1>10 DEF Asked
  <2> HIDE DEF v
  <2> QED
    BY <2>1, <2>2, <1>5, QuietPlenty
<1>14. ASSUME NEW overwrite \in BOOLEAN, ReplyOne(f, overwrite) \/ ReplyAll(f, overwrite)
       PROVE  Plenty'
  BY <1>13, <1>14 DEF ReplyOne, ReplyAll
<1>15. CASE ConfirmRenaming(f)
  <2> DEFINE from == w.from
             to == Target(f)
  <2>1. from \in Places /\ to \in Places
    <3>1. Opened(w)
      BY <1>15, <1>a DEF ConfirmRenaming, FlowOK, Opened, Settling, Transferred, Free, Transfers
    <3>2. panel[w.side].fs \in FileSystems
      BY <3>1, <1>a DEF Opened, Places
    <3> QED
      BY <3>1, <3>2 DEF Opened, Target, Places
  <2>2. PICK v : flow' = [flow EXCEPT ![f] = v] /\ v.pc \notin Transfers
    <3>1. End(f) \/ \E rest : Listing(f, to, rest)
      BY <1>15 DEF ConfirmRenaming
    <3>2. ASSUME End(f) PROVE flow' = [flow EXCEPT ![f] = Free]
      BY <3>2 DEF End
    <3> QED
      BY <1>8, <1>b, <3>1, <3>2 DEF Transfers
  <2>3. CASE from = to
    <3>1. UNCHANGED <<disk, tally>>
      BY <1>15, <2>3 DEF ConfirmRenaming, tally
    <3> QED
      BY <2>2, <3>1, QuietPlenty
  <2>4. CASE from # to
    <3>1. PICK moved \in SUBSET At(from) :
             /\ disk' = [p \in Places |->
                   CASE p = from -> [n \in At(p) \ moved |-> disk[p][n]]
                     [] p = to -> [n \in At(p) \union moved |->
                                       IF n \in moved THEN disk[from][n] ELSE disk[p][n]]
                     [] OTHER -> disk[p]]
             /\ silent' = silent \union {disk[to][n] : n \in moved \intersect At(to)}
      BY <1>15, <2>4 DEF ConfirmRenaming
    <3>2. UNCHANGED <<agreed, unlisted, overtaken>>
      BY <1>15 DEF ConfirmRenaming
    <3> SUFFICES ASSUME NEW c \in Contents \ Gone' PROVE Enough(disk', flow', c)
      BY DEF Plenty
    <3>3. c \notin Gone /\ \A n \in moved : n \in At(to) => disk[to][n] # c
      BY <3>1, <3>2 DEF Gone
    <3>4. Enough(disk, flow, c)
      BY <3>3 DEF Plenty
    <3>5. \A p \in Places : disk'[p] =
             CASE p = from -> [n \in At(p) \ moved |-> disk[p][n]]
               [] p = to -> [n \in At(p) \union moved |->
                                 IF n \in moved THEN disk[from][n] ELSE disk[p][n]]
               [] OTHER -> disk[p]
      BY <3>1
    <3>6. IsFiniteSet(Where(disk, c))
      BY <3>4 DEF Enough
    <3> HIDE DEF from, to
    <3>7. IsFiniteSet(Where(disk', c)) /\ Cardinality(Where(disk', c)) = Cardinality(Where(disk, c))
      <4>1. from # to
        BY <2>4 DEF from, to
      <4>2. from \in Places /\ to \in Places
        BY <2>1 DEF from, to
      <4>3. \A n \in moved : n \in At(to) => disk[to][n] # c
        BY <3>3
      <4>4. moved \in SUBSET At(from)
        BY <3>1
      <4> DEFINE e == disk'
      <4>5. ASSUME NEW q \in Places, NEW m
            PROVE  /\ m \in DOMAIN e[q] <=>
                         \/ m \in DOMAIN disk[q] /\ ~(q = from /\ m \in moved)
                         \/ q = to /\ m \in moved
                   /\ m \in DOMAIN e[q] =>
                         e[q][m] = IF q = to /\ m \in moved THEN disk[from][m] ELSE disk[q][m]
        <5>1. CASE q = from
          <6>1. e[q] = [n \in At(q) \ moved |-> disk[q][n]]
            BY <3>5, <4>1, <5>1
          <6> QED
            BY <4>1, <5>1, <6>1 DEF At
        <5>2. CASE q = to
          <6>1. e[q] = [n \in At(q) \union moved |->
                            IF n \in moved THEN disk[from][n] ELSE disk[q][n]]
            BY <3>5, <4>1, <5>2
          <6> QED
            BY <4>1, <5>2, <6>1 DEF At
        <5>3. CASE q # from /\ q # to
          BY <3>5, <5>3
        <5> QED
          BY <5>1, <5>2, <5>3
      <4>6. Renamed(e, from, to, moved)
        BY <4>5 DEF Renamed
      <4> HIDE DEF e
      <4>7. IsFiniteSet(Where(e, c)) /\ Cardinality(Where(e, c)) = Cardinality(Where(disk, c))
        BY <1>a, <3>6, <4>1, <4>2, <4>3, <4>4, <4>6, RenamedWhere
      <4> QED
        BY <4>7 DEF e
    <3>8. Owed(flow', c) \subseteq Owed(flow, c)
      BY <1>a, <2>2, OwesNoMore
    <3>9. Enough(disk, flow', c)
      BY <3>4, <3>6, <3>8, MoreIsEnough
    <3> QED
      BY <3>7, <3>9 DEF Enough
  <2> QED
    BY <2>3, <2>4
<1> QED
  BY <1>2, <1>3, <1>4, <1>6, <1>7, <1>9, <1>11, <1>12, <1>14, <1>15 DEF Asking

\* Writing an entry over and owing nothing more for it leaves enough.
LEMMA WrittenPlenty ==
    ASSUME Shape, Plenty, NEW p \in Places, NEW n, NEW k, NEW c \in Contents,
           c \notin Gone, n \in At(p) => disk[p][n] # c,
           Owed(flow', c) \subseteq Owed(flow, c) \/
               (k = c /\ \E y : Owed(flow', c) \subseteq Owed(flow, c) \union {y})
    PROVE  Enough(Put(p, n, k), flow', c)
<1> DEFINE e == Put(p, n, k)
<1>1. /\ <<p, n>> \notin Where(disk, c)
      /\ Where(e, c) = Where(disk, c) \union (IF k = c THEN {<<p, n>>} ELSE {})
  BY PutWhere DEF Shape
<1>2. Enough(disk, flow, c)
  BY DEF Plenty
<1> HIDE DEF e
<1>3. CASE k = c
  <2>1. Where(e, c) = Where(disk, c) \union {<<p, n>>}
    BY <1>1, <1>3
  <2>2. PICK y : Owed(flow', c) \subseteq Owed(flow, c) \union {y}
    OBVIOUS
  <2>3. Enough(e, flow', c)
    BY <1>1, <1>2, <2>1, <2>2, OneMoreEach
  <2> QED
    BY <2>3 DEF e
<1>4. CASE k # c
  <2>1. Where(e, c) = Where(disk, c) /\ Owed(flow', c) \subseteq Owed(flow, c)
    BY <1>1, <1>4
  <2>2. IsFiniteSet(Where(disk, c))
    BY <1>2 DEF Enough
  <2>3. Enough(e, flow', c)
    BY <1>2, <2>1, <2>2, MoreIsEnough
  <2> QED
    BY <2>3 DEF e
<1> QED
  BY <1>3, <1>4

\* Deleting entries that nobody needs leaves enough.
LEMMA DroppedPlenty ==
    ASSUME Shape, Plenty, NEW p \in Places, NEW n, NEW c \in Contents,
           c \notin Gone, n \in At(p) => disk[p][n] # c,
           Owed(flow', c) \subseteq Owed(flow, c)
    PROVE  Enough(Without(p, {n}), flow', c)
<1> DEFINE e == Without(p, {n})
<1>1. \A x : x \in Where(e, c) <=> x \in Where(disk, c) /\ ~\E m \in {n} : x = <<p, m>>
  BY WithoutWhere DEF Shape
<1>2. <<p, n>> \notin Where(disk, c)
  BY DEF Where, At
<1> HIDE DEF e
<1>3. Where(e, c) = Where(disk, c)
  BY <1>1, <1>2
<1>4. Enough(disk, flow, c)
  BY DEF Plenty
<1>5. IsFiniteSet(Where(disk, c))
  BY <1>4 DEF Enough
<1>6. Enough(e, flow', c)
  BY <1>3, <1>4, <1>5, MoreIsEnough
<1> QED
  BY <1>6 DEF e

\* No step of a transfer leaves a content short, its last one included.
LEMMA MovingPlenty ==
    ASSUME Shape, Plenty, NEW f \in Flows, Moving(f)
    PROVE  Plenty'
<1> DEFINE w == flow[f]
<1>a. DOMAIN disk = Places /\ DOMAIN flow = Flows
  BY DEF Shape
<1>b. Transferred(w)
  BY MovingShape
<1>c. w.pc \in Transfers /\ w.from \in Places /\ w.to \in Places
  BY <1>b DEF Transferred
<1>d. Free.pc \notin Transfers
  BY DEF Free, Transfers
<1> SUFFICES ASSUME NEW c \in Contents, c \notin Gone' PROVE Enough(disk', flow', c)
  BY DEF Plenty
<1>1. ASSUME End(f) PROVE Owed(flow', c) \subseteq Owed(flow, c)
  <2>1. flow' = [flow EXCEPT ![f] = Free]
    BY <1>1 DEF End
  <2> HIDE DEF Free
  <2> QED
    BY <1>a, <1>d, <2>1, OwesNoMore
<1>2. ASSUME NEW n, flow' = [flow EXCEPT ![f] = Failing(w, n)]
      PROVE  Owed(flow', c) \subseteq Owed(flow, c)
  <2>1. Failing(w, n).done = w.done
    BY DEF Failing
  <2> QED
    BY <1>a, <1>c, <1>2, <2>1, OwesNoMore
<1>3. ASSUME NEW todo,
             flow' = [flow EXCEPT ![f] =
                         [Transferring(w, todo, w.listed, w.yes) EXCEPT !.done = w.done]]
      PROVE  Owed(flow', c) \subseteq Owed(flow, c)
  <2> DEFINE v == [Transferring(w, todo, w.listed, w.yes) EXCEPT !.done = w.done]
  <2>1. v.done = w.done
    BY DEF Transferring
  <2>2. flow' = [flow EXCEPT ![f] = v]
    BY <1>3
  <2> HIDE DEF v
  <2> QED
    BY <1>a, <1>c, <2>1, <2>2, OwesNoMore
<1>4. ASSUME UNCHANGED <<disk, tally>>, Owed(flow', c) \subseteq Owed(flow, c)
      PROVE  Enough(disk', flow', c)
  <2>1. Enough(disk, flow, c)
    BY <1>4 DEF Plenty, Gone, tally
  <2>2. IsFiniteSet(Where(disk, c))
    BY <2>1 DEF Enough
  <2>3. Enough(disk, flow', c)
    BY <1>4, <2>1, <2>2, MoreIsEnough
  <2> QED
    BY <1>4, <2>3
<1>5. ASSUME NEW n, Logged(w, n), disk' = Without(w.to, {n}),
             Owed(flow', c) \subseteq Owed(flow, c)
      PROVE  Enough(disk', flow', c)
  <2>1. c \notin Gone /\ (n \in At(w.to) => disk[w.to][n] # c)
    BY <1>5, LoggedSpares
  <2> QED
    BY <1>c, <1>5, <2>1, DroppedPlenty
<1>6. CASE CopyEntry(f)
  <2>1. PICK n : /\ disk' = Put(w.to, w.ren[n], Copied(w, n))
                 /\ Logged(w, w.ren[n])
                 /\ n \in At(w.from)
                 /\ flow' = [flow EXCEPT
                        ![f].todo = @ \ {n},
                        ![f].done = [m \in DOMAIN @ \union {n} |->
                                        IF m = n THEN disk[w.from][n] ELSE @[m]]]
    BY <1>6 DEF CopyEntry
  <2> DEFINE k == Copied(w, n)
             r == w.ren[n]
             done == [m \in DOMAIN w.done \union {n} |->
                         IF m = n THEN disk[w.from][n] ELSE w.done[m]]
  <2>2. c \notin Gone /\ (r \in At(w.to) => disk[w.to][r] # c)
    BY <2>1, LoggedSpares
  <2>3. \A g \in Flows : /\ g # f => flow'[g] = flow[g]
                         /\ flow'[f].done = done
    BY <2>1, <1>a, <1>b DEF Transferred
  <2>4. ASSUME NEW x, x \in Owed(flow', c)
        PROVE  x \in Owed(flow, c) \/ (x = <<f, n>> /\ disk[w.from][n] = c)
    <3>1. PICK g, m : /\ g \in Flows /\ flow'[g].pc \in Transfers
                      /\ m \in DOMAIN flow'[g].done /\ flow'[g].done[m] = c /\ x = <<g, m>>
      BY <2>4 DEF Owed
    <3>2. CASE g # f
      BY <2>3, <3>1, <3>2, InOwed
    <3>3. CASE g = f /\ m # n
      <4>1. m \in DOMAIN w.done /\ w.done[m] = c
        BY <2>3, <3>1, <3>3
      <4> QED
        BY <1>c, <3>1, <3>3, <4>1, InOwed
    <3>4. CASE g = f /\ m = n
      BY <2>3, <3>1, <3>4
    <3> QED
      BY <3>2, <3>3, <3>4
  <2>5. disk[w.from][n] = c => k = c
    <3>1. ASSUME w.from = w.to, r = n, disk[w.from][n] = c PROVE FALSE
      BY <2>1, <2>2, <3>1
    <3> QED
      BY <3>1 DEF Copied
  <2>6. Owed(flow', c) \subseteq Owed(flow, c) \/
            (k = c /\ \E y : Owed(flow', c) \subseteq Owed(flow, c) \union {y})
    <3>1. CASE disk[w.from][n] = c
      <4>1. Owed(flow', c) \subseteq Owed(flow, c) \union {<<f, n>>}
        BY <2>4
      <4> QED
        BY <2>5, <3>1, <4>1
    <3>2. CASE disk[w.from][n] # c
      BY <2>4, <3>2
    <3> QED
      BY <3>1, <3>2
  <2> HIDE DEF k, r
  <2>7. Enough(Put(w.to, r, k), flow', c)
    BY <1>c, <2>2, <2>6, WrittenPlenty
  <2> QED
    BY <2>1, <2>7 DEF k, r
<1>7. CASE ReadFails(f)
  <2>1. PICK n : flow' = [flow EXCEPT ![f] = Failing(w, n)]
    BY <1>7 DEF ReadFails
  <2> QED
    BY <1>2, <1>4, <1>7, <2>1 DEF ReadFails
<1>8. CASE WriteFails(f)
  <2>1. PICK n : /\ disk' = Put(w.to, w.ren[n], junk)
                 /\ Logged(w, w.ren[n])
                 /\ flow' = [flow EXCEPT ![f] = Failing(w, n)]
    BY <1>8 DEF WriteFails
  <2> DEFINE r == w.ren[n]
  <2>2. c \notin Gone /\ (r \in At(w.to) => disk[w.to][r] # c)
    BY <2>1, LoggedSpares
  <2>3. Owed(flow', c) \subseteq Owed(flow, c)
    BY <1>2, <2>1
  <2> HIDE DEF r
  <2>4. Enough(Put(w.to, r, junk), flow', c)
    BY <1>c, <2>2, <2>3, WrittenPlenty
  <2> QED
    BY <2>1, <2>4 DEF r
<1>9. CASE Retry(f)
  <2>1. flow' = [flow EXCEPT ![f] =
                    [Transferring(w, w.todo, w.listed, w.yes) EXCEPT !.done = w.done]]
    BY <1>9, <1>a DEF Retry
  <2> QED
    BY <1>3, <1>4, <1>9, <2>1 DEF Retry
<1>10. CASE Skip(f)
  <2>1. flow' = [flow EXCEPT ![f] =
                    [Transferring(w, w.todo \ {w.at}, w.listed, w.yes) EXCEPT !.done = w.done]]
    BY <1>10 DEF Skip
  <2>2. Owed(flow', c) \subseteq Owed(flow, c)
    BY <1>3, <2>1
  <2>3. DropFailed(w)
    BY <1>10 DEF Skip
  <2> QED
    BY <1>4, <1>5, <2>2, <2>3 DEF DropFailed
<1>11. CASE Abort(f)
  <2>1. Owed(flow', c) \subseteq Owed(flow, c) /\ DropFailed(w)
    BY <1>1, <1>11 DEF Abort
  <2> QED
    BY <1>4, <1>5, <2>1 DEF DropFailed
<1>12. CASE CancelTransfer(f)
  <2>1. Owed(flow', c) \subseteq Owed(flow, c)
    BY <1>1, <1>12 DEF CancelTransfer
  <2>2. \/ UNCHANGED <<disk, tally>>
        \/ \E n : disk' = Without(w.to, {n}) /\ Logged(w, n)
    BY <1>12 DEF CancelTransfer
  <2> QED
    BY <1>4, <1>5, <2>1, <2>2
<1>13. CASE Finish(f)
  <2>1. flow' = [flow EXCEPT ![f] = Free]
    BY <1>13 DEF Finish, End
  <2>2. UNCHANGED <<agreed, silent, unlisted>>
    BY <1>13 DEF Finish
  <2>3. CASE ~w.move
    <3>1. UNCHANGED <<disk, tally>>
      BY <1>13, <2>2, <2>3 DEF Finish, tally
    <3> QED
      BY <1>1, <1>4, <1>13, <3>1 DEF Finish
  <2>4. CASE w.move
    <3>1. PICK gone \in SUBSET (DOMAIN w.done \intersect At(w.from)) :
             /\ disk' = Without(w.from, gone)
             /\ overtaken' = overtaken \union
                    {disk[w.from][n] : n \in {m \in gone : disk[w.from][m] # w.done[m]}}
      BY <1>13, <2>4 DEF Finish
    <3> DEFINE ns == {n \in gone : disk[w.from][n] = c}
               ms == {n \in DOMAIN w.done : w.done[n] = c}
    <3>2. c \notin Gone
      BY <2>2, <3>1 DEF Gone
    <3>3. ns \subseteq ms
      <4> SUFFICES ASSUME NEW n \in gone, disk[w.from][n] = c, w.done[n] # c PROVE FALSE
        BY <3>1
      <4>1. c \in overtaken'
        BY <3>1
      <4> QED
        BY <4>1 DEF Gone
    <3>4. \A x : x \in Where(disk', c) <=> x \in Where(disk, c) /\ ~\E n \in ns : x = <<w.from, n>>
      <4>1. \A x : x \in Where(Without(w.from, gone), c) <=>
                      x \in Where(disk, c) /\ ~\E n \in gone : x = <<w.from, n>>
        BY <1>a, <1>c, WithoutWhere
      <4>2. \A n \in gone : <<w.from, n>> \in Where(disk, c) => n \in ns
        BY DEF Where
      <4> QED
        BY <3>1, <4>1, <4>2
    <3>5. \A x : x \in Owed(flow', c) <=> x \in Owed(flow, c) /\ ~\E n \in ms : x = <<f, n>>
      <4>1. \A g \in Flows : flow'[g] = IF g = f THEN Free ELSE flow[g]
        BY <1>a, <2>1
      <4> TAKE x
      <4>2. ASSUME x \in Owed(flow', c)
            PROVE  x \in Owed(flow, c) /\ ~\E n \in ms : x = <<f, n>>
        <5>1. PICK g, m : /\ g \in Flows /\ flow'[g].pc \in Transfers
                          /\ m \in DOMAIN flow'[g].done /\ flow'[g].done[m] = c /\ x = <<g, m>>
          BY <4>2 DEF Owed
        <5> HIDE DEF Free
        <5>2. g # f
          BY <1>d, <4>1, <5>1
        <5>3. flow'[g] = flow[g]
          BY <4>1, <5>1, <5>2
        <5> QED
          BY <5>1, <5>2, <5>3, InOwed
      <4>3. ASSUME x \in Owed(flow, c), ~\E n \in ms : x = <<f, n>>
            PROVE  x \in Owed(flow', c)
        <5>1. PICK g, m : /\ g \in Flows /\ flow[g].pc \in Transfers
                          /\ m \in DOMAIN flow[g].done /\ flow[g].done[m] = c /\ x = <<g, m>>
          BY <4>3 DEF Owed
        <5>2. g # f
          BY <4>3, <5>1
        <5>3. flow'[g] = flow[g]
          BY <4>1, <5>1, <5>2
        <5> QED
          BY <5>1, <5>3 DEF Owed
      <4> QED
        BY <4>2, <4>3
    <3>6. \A n \in ms : <<f, n>> \in Owed(flow, c)
      BY <1>c, InOwed
    <3>7. Enough(disk, flow, c)
      BY <3>2 DEF Plenty
    <3> DEFINE e == disk'
               p == w.from
    <3>8. \A x : x \in Where(e, c) <=> x \in Where(disk, c) /\ ~\E n \in ns : x = <<p, n>>
      BY <3>4
    <3>9. Less(Where(e, c), Where(disk, c), p, ns) /\ Less(Owed(flow', c), Owed(flow, c), f, ms)
      BY <3>5, <3>8 DEF Less
    <3> HIDE DEF e, p, ns, ms
    <3>10. Enough(e, flow', c)
      BY <3>3, <3>6, <3>7, <3>9, SettledIsEnough
    <3> QED
      BY <3>10 DEF e
  <2> QED
    BY <2>3, <2>4
<1> QED
  BY <1>6, <1>7, <1>8, <1>9, <1>10, <1>11, <1>12, <1>13 DEF Moving

-------------------------------------------------------------------------------
(* Content is kept.                                                          *)

\* The invariant: every flow knows its places, and nothing is short.
IInv == Shape /\ Plenty

\* At the start every content stands somewhere and nothing is owed.
LEMMA InitPlenty == Init => IInv
<1> SUFFICES ASSUME Init PROVE IInv
  OBVIOUS
<1>1. Shape
  BY MoveFlowAssumption DEF Init, Shape, Clipped, FlowOK
<1>2. ASSUME NEW c \in Contents PROVE Enough(disk, flow, c)
  <2>1. \A f \in Flows : flow[f].pc \notin Transfers
    BY DEF Init, Free, Transfers
  <2>2. Owed(flow, c) = {}
    BY <2>1 DEF Owed
  <2>3. Where(disk, c) # {} /\ IsFiniteSet(Where(disk, c))
    BY MoveFlowAssumption DEF Init
  <2>4. Cardinality(Where(disk, c)) \in Nat /\ Cardinality(Where(disk, c)) # 0
    BY <2>3, FS_CardinalityType, FS_EmptySet
  <2> QED
    BY <2>2, <2>3, <2>4, FS_EmptySet DEF Enough
<1> QED
  BY <1>1, <1>2 DEF IInv, Plenty

\* Every step keeps the invariant.
LEMMA StepPlenty == IInv /\ [Next]_vars => IInv'
<1> SUFFICES ASSUME IInv, [Next]_vars PROVE IInv'
  OBVIOUS
<1>a. Shape /\ Plenty
  BY DEF IInv
<1>1. CASE User
  <2>1. UNCHANGED <<disk, flow, tally>>
    BY <1>1 DEF User, Navigate, Take, PasteBack
  <2>2. Plenty'
    BY <1>a, <2>1 DEF Plenty, Gone, tally
  <2> QED
    BY <1>a, <1>1, <2>2, UserShape DEF IInv
<1>2. ASSUME NEW f \in Flows, Asking(f) PROVE IInv'
  BY <1>a, <1>2, AskingShape, AskingPlenty DEF IInv
<1>3. ASSUME NEW f \in Flows, Moving(f) PROVE IInv'
  BY <1>a, <1>3, MovingShape, MovingPlenty DEF IInv
<1>4. CASE UNCHANGED vars
  <2>1. UNCHANGED <<disk, panel, clip, flow, tally>>
    BY <1>4 DEF vars, view
  <2>2. Shape'
    BY <1>a, <2>1 DEF Shape, Clipped
  <2>3. Plenty'
    BY <1>a, <2>1 DEF Plenty, Gone, tally
  <2> QED
    BY <2>2, <2>3 DEF IInv
<1> QED
  BY <1>1, <1>2, <1>3, <1>4 DEF Next

\* Content goes only where something was written over it: for any file systems,
\* places, names and contents, any number of flows that overlap, of navigations in
\* between, of failing reads, writes, renames and deletions.
THEOREM NothingVanishes == Spec => []ContentKept
<1>1. IInv => ContentKept
  <2> SUFFICES ASSUME IInv, NEW c \in Contents, Where(disk, c) = {} PROVE c \in Gone
    BY DEF ContentKept, Lost, Gone
  <2>1. SUFFICES ASSUME Enough(disk, flow, c) PROVE FALSE
    BY DEF IInv, Plenty
  <2>2. Cardinality(Where(disk, c)) = 0
    BY FS_EmptySet
  <2>3. Cardinality(Owed(flow, c)) \in Nat
    BY <2>1, FS_CardinalityType DEF Enough
  <2> QED
    BY <2>1, <2>2, <2>3 DEF Enough
<1> QED
  BY <1>1, InitPlenty, StepPlenty, PTL DEF Spec

-------------------------------------------------------------------------------
(* What a flow knows of its names.                                           *)

Known == Contents \union {junk}

KeepsNames(ren) == \A n \in DOMAIN ren : ren[n] = n

\* What flow w goes on with has a new name and was not declined, and is not
\* done yet.  Only a copy gives names that are new.
Named(w) ==
    /\ w.pc # "free" =>
           /\ {"ren", "move"} \subseteq DOMAIN w
           /\ w.todo \subseteq DOMAIN w.ren
           /\ w.move => KeepsNames(w.ren)
    /\ w.pc = "ask" =>
           /\ {"listed", "asks", "yes"} \subseteq DOMAIN w
           /\ w.asks \subseteq w.listed /\ w.yes \subseteq w.listed
    /\ w.pc \in Transfers =>
           /\ {"listed", "yes"} \subseteq DOMAIN w
           /\ w.yes \subseteq w.listed
           /\ \A n \in w.todo \union DOMAIN w.done : w.ren[n] \in w.listed => w.ren[n] \in w.yes
           /\ \A n \in w.todo : n \notin DOMAIN w.done
    /\ w.pc = "error" => w.at \in w.todo

AllNamed == \A f \in Flows : Named(flow[f])

\* A step of one flow that leaves its names in order leaves them all.
LEMMA OneNamed ==
    ASSUME Shape, AllNamed, NEW f \in Flows, NEW w, flow' = [flow EXCEPT ![f] = w], Named(w)
    PROVE  AllNamed'
<1> SUFFICES ASSUME NEW g \in Flows PROVE Named(flow'[g])
  BY DEF AllNamed
<1>1. flow'[g] = IF g = f THEN w ELSE flow[g]
  BY DEF Shape
<1>2. CASE g = f
  BY <1>1, <1>2
<1>3. CASE g # f
  <2>1. flow'[g] = flow[g] /\ Named(flow[g])
    BY <1>1, <1>3 DEF AllNamed
  <2> QED
    BY <2>1
<1> QED
  BY <1>2, <1>3

\* A flow that is free has no names.
LEMMA FreeNamed == Named(Free)
BY DEF Named, Free, Transfers

\* The end of a flow leaves the names of the others.
LEMMA EndNamed ==
    ASSUME Shape, AllNamed, NEW f \in Flows, flow' = [flow EXCEPT ![f] = Free]
    PROVE  AllNamed'
<1> HIDE DEF Free
<1> QED
  BY FreeNamed, OneNamed

\* Every name planned for a paste is planned for an item of the clipboard.
LEMMA PlannedNames ==
    ASSUME NEW names, NEW taken
    PROVE  DOMAIN PlanNames(names, taken) = names
BY DEF PlanNames

\* A dialog that opens has a new name for everything it was given.
LEMMA OpenNamed ==
    ASSUME Shape, AllNamed, NEW f \in Flows, NEW from, NEW names, NEW ren, NEW side,
           NEW move, NEW cut, Open(f, from, names, ren, side, move, cut),
           names \subseteq DOMAIN ren, move => KeepsNames(ren)
    PROVE  AllNamed'
<1> DEFINE w == [pc |-> "scan", from |-> from, dir |-> panel[side].dir, side |-> side,
                 todo |-> names, ren |-> ren, move |-> move, cut |-> cut]
<1>1. Named(w)
  BY DEF Named, Transfers
<1>2. flow' = [flow EXCEPT ![f] = w]
  BY DEF Open
<1> HIDE DEF w
<1> QED
  BY <1>1, <1>2, OneNamed

\* Whoever lists a destination goes on with names it has.
LEMMA ListingNamed ==
    ASSUME Shape, AllNamed, NEW f \in Flows, flow[f].pc = "confirm", NEW to, NEW rest,
           rest \subseteq flow[f].todo, Listing(f, to, rest)
    PROVE  AllNamed'
<1> DEFINE w == flow[f]
           v == [pc |-> "list", from |-> w.from, to |-> to, todo |-> rest, ren |-> w.ren,
                 move |-> w.move, cut |-> w.cut]
<1>1. w.todo \subseteq DOMAIN w.ren /\ (w.move => KeepsNames(w.ren))
  BY DEF AllNamed, Named
<1>2. Named(v)
  BY <1>1 DEF Named, Transfers
<1>3. flow' = [flow EXCEPT ![f] = v]
  BY DEF Listing, Shape
<1> HIDE DEF v
<1> QED
  BY <1>2, <1>3, OneNamed

\* Nothing that was declined is among what a transfer begins with.
LEMMA TransferNamed ==
    ASSUME NEW w, NEW todo, NEW listed, NEW yes, todo \subseteq DOMAIN w.ren,
           w.move => KeepsNames(w.ren),
           yes \subseteq listed, \A n \in todo : w.ren[n] \in listed => w.ren[n] \in yes
    PROVE  Named(Transferring(w, todo, listed, yes))
<1> DEFINE v == Transferring(w, todo, listed, yes)
<1>1. /\ v.pc = "copy" /\ v.todo = todo /\ v.ren = w.ren /\ v.listed = listed /\ v.yes = yes
      /\ v.move = w.move /\ {"ren", "move", "listed", "yes"} \subseteq DOMAIN v /\ v.done = <<>>
  BY DEF Transferring
<1>2. DOMAIN v.done = {}
  BY <1>1
<1> HIDE DEF v
<1>3. Named(v)
  BY <1>1, <1>2 DEF Named
<1> QED
  BY <1>3 DEF v

\* No step of a dialog leaves a flow with a name it has no new name for, or
\* that was declined.
LEMMA AskingNamed ==
    ASSUME Shape, AllNamed, NEW f \in Flows, Asking(f)
    PROVE  AllNamed'
<1> DEFINE w == flow[f]
<1>a. FlowOK(w) /\ DOMAIN flow = Flows /\ Named(w)
  BY DEF Shape, AllNamed
<1>1. ASSUME NEW s \in Sides, NEW move \in BOOLEAN, FKey(f, s, move) PROVE AllNamed'
  <2>1. PICK names, ren, other, cut :
            /\ Open(f, panel[s], names, ren, other, move, cut)
            /\ ren = [n \in names |-> n]
    BY <1>1 DEF FKey
  <2>2. names \subseteq DOMAIN ren /\ KeepsNames(ren)
    BY <2>1 DEF KeepsNames
  <2> QED
    BY <2>1, <2>2, OpenNamed
<1>2. ASSUME NEW s \in Sides, Paste(f, s) PROVE AllNamed'
  <2> DEFINE ren == IF SamePlace(s) THEN PlanNames(clip.names, At(panel[s]))
                    ELSE [n \in clip.names |-> n]
  <2>1. PICK move, cut : /\ Open(f, clip.from, clip.names, ren, s, move, cut)
                         /\ move = (clip.kind = "cut")
    BY <1>2 DEF Paste
  <2>2. clip.names \subseteq DOMAIN ren
    BY PlannedNames
  <2>3. move => KeepsNames(ren)
    BY <1>2, <2>1 DEF Paste, KeepsNames
  <2> HIDE DEF ren
  <2> QED
    BY <2>1, <2>2, <2>3, OpenNamed
<1>3. ASSUME NEW s \in Sides, Drop(f, s) PROVE AllNamed'
  <2>1. PICK first, names, ren, move, cut :
            /\ Open(f, first, names, ren, s, move, cut)
            /\ ren = [i \in names |-> i]
    BY <1>3 DEF Drop
  <2>2. names \subseteq DOMAIN ren /\ KeepsNames(ren)
    BY <2>1 DEF KeepsNames
  <2> QED
    BY <2>1, <2>2, OpenNamed
<1>4. CASE ScanDone(f)
  <2> DEFINE v == [w EXCEPT !.pc = "confirm"]
  <2>1. w.pc = "scan" /\ Opened(w)
    BY <1>4, <1>a DEF ScanDone, FlowOK, Settling, Transferred, Free, Transfers
  <2>2. v.pc = "confirm" /\ v.todo = w.todo /\ v.ren = w.ren /\ v.move = w.move
        /\ DOMAIN v = DOMAIN w
    BY <2>1 DEF Opened
  <2>3. flow' = [flow EXCEPT ![f] = v]
    BY <1>4, <1>a DEF ScanDone
  <2> HIDE DEF v
  <2>4. Named(v)
    BY <2>1, <2>2, <1>a DEF Named, Transfers
  <2> QED
    BY <2>3, <2>4, OneNamed
<1>5. CASE ScanFails(f)
  <2> DEFINE v == IF w.from.fs \in Local THEN [w EXCEPT !.pc = "confirm", !.todo = {}]
                  ELSE [w EXCEPT !.pc = "stuck"]
  <2>1. w.pc = "scan" /\ Opened(w)
    BY <1>5, <1>a DEF ScanFails, FlowOK, Settling, Transferred, Free, Transfers
  <2>2. v.pc \in {"confirm", "stuck"} /\ v.todo \in {{}, w.todo} /\ v.ren = w.ren
        /\ v.move = w.move /\ DOMAIN v = DOMAIN w
    BY <2>1 DEF Opened
  <2>3. flow' = [flow EXCEPT ![f] = v]
    BY <1>5, <1>a DEF ScanFails
  <2> HIDE DEF v
  <2>4. Named(v)
    BY <2>1, <2>2, <1>a DEF Named, Transfers
  <2> QED
    BY <2>3, <2>4, OneNamed
<1>6. CASE Dismiss(f) \/ ConfirmNothing(f)
  BY <1>6, EndNamed DEF Dismiss, ConfirmNothing
<1>7. CASE Confirm(f)
  BY <1>7, ListingNamed DEF Confirm
<1>8. CASE ConfirmRenaming(f)
  <2>1. w.pc = "confirm"
    BY <1>8 DEF ConfirmRenaming
  <2>2. \/ End(f)
        \/ \E rest \in SUBSET w.todo : Listing(f, Target(f), rest)
    BY <1>8 DEF ConfirmRenaming
  <2> QED
    BY <2>1, <2>2, ListingNamed, EndNamed DEF End
<1>9. CASE Listed(f)
  <2> DEFINE existing == {w.ren[n] : n \in w.todo} \intersect At(w.to)
             a == [pc |-> "ask", from |-> w.from, to |-> w.to, todo |-> w.todo,
                   ren |-> w.ren, move |-> w.move, cut |-> w.cut,
                   listed |-> existing, asks |-> existing, yes |-> {}]
             v == IF existing = {} THEN Transferring(w, w.todo, {}, {}) ELSE a
  <2>1. w.pc = "list" /\ flow' = [flow EXCEPT ![f] = v]
    BY <1>9 DEF Listed
  <2>2. w.todo \subseteq DOMAIN w.ren /\ (w.move => KeepsNames(w.ren))
    BY <2>1, <1>a DEF Named
  <2>3. Named(Transferring(w, w.todo, {}, {}))
    BY <2>2, TransferNamed
  <2>4. Named(a)
    BY <2>2 DEF Named, Transfers
  <2> HIDE DEF existing, a
  <2>5. Named(v)
    BY <2>3, <2>4
  <2> HIDE DEF v
  <2> QED
    BY <2>1, <2>5, OneNamed
<1>10. CASE ListFails(f)
  <2> DEFINE v == Transferring(w, w.todo, {}, {})
  <2>1. w.pc = "list" /\ flow' = [flow EXCEPT ![f] = v]
    BY <1>10 DEF ListFails
  <2>2. Named(v)
    BY <2>1, <1>a, TransferNamed DEF Named
  <2> HIDE DEF v
  <2> QED
    BY <2>1, <2>2, OneNamed
<1>11. ASSUME NEW names, names \subseteq w.asks, NEW overwrite \in BOOLEAN,
              Reply(f, names, overwrite)
       PROVE  AllNamed'
  <2> DEFINE asks == w.asks \ names
             yes == IF overwrite THEN w.yes \union names ELSE w.yes
             v == Asked(w, asks, yes)
             a == [w EXCEPT !.asks = asks, !.yes = yes]
             todo == {n \in w.todo : w.ren[n] \in w.listed => w.ren[n] \in yes}
  <2>1. w.pc = "ask" /\ (End(f) \/ flow' = [flow EXCEPT ![f] = v])
    BY <1>11 DEF Reply
  <2>2. /\ {"listed", "asks", "yes"} \subseteq DOMAIN w
        /\ w.asks \subseteq w.listed /\ w.yes \subseteq w.listed /\ w.todo \subseteq DOMAIN w.ren
        /\ (w.move => KeepsNames(w.ren)) /\ {"ren", "move"} \subseteq DOMAIN w
    BY <2>1, <1>a DEF Named
  <2>3. asks \subseteq w.listed /\ yes \subseteq w.listed
    BY <1>11, <2>2
  <2>4. Settling(w)
    BY <2>1, <1>a DEF FlowOK, Opened, Transferred, Free, Transfers
  <2> HIDE DEF asks, yes
  <2>5. Named(a)
    <3>1. /\ a.pc = "ask" /\ a.todo = w.todo /\ a.ren = w.ren /\ a.move = w.move
          /\ a.asks = asks /\ a.yes = yes /\ a.listed = w.listed /\ DOMAIN a = DOMAIN w
      BY <2>1, <2>2, <2>4 DEF Settling
    <3> HIDE DEF a
    <3> QED
      BY <2>2, <2>3, <3>1 DEF Named, Transfers
  <2>6. Named(Transferring(w, todo, w.listed, yes))
    <3>1. todo \subseteq DOMAIN w.ren /\ \A n \in todo : w.ren[n] \in w.listed => w.ren[n] \in yes
      BY <2>2
    <3> HIDE DEF todo
    <3> QED
      BY <2>2, <2>3, <3>1, TransferNamed
  <2>7. v = IF asks # {} THEN a ELSE Transferring(w, todo, w.listed, yes)
    BY DEF Asked
  <2> HIDE DEF v, a, todo
  <2>8. Named(v)
    BY <2>5, <2>6, <2>7
  <2> QED
    BY <2>1, <2>8, OneNamed, EndNamed DEF End
<1>12. ASSUME NEW overwrite \in BOOLEAN, ReplyOne(f, overwrite) \/ ReplyAll(f, overwrite)
       PROVE  AllNamed'
  <2>1. \E names \in SUBSET w.asks : Reply(f, names, overwrite)
    BY <1>12 DEF ReplyOne, ReplyAll
  <2> QED
    BY <2>1, <1>11
<1>13. CASE CancelAsk(f)
  BY <1>13, EndNamed DEF CancelAsk, End
<1> QED
  BY <1>1, <1>2, <1>3, <1>4, <1>5, <1>6, <1>7, <1>8, <1>9, <1>10, <1>12, <1>13 DEF Asking

\* No step of a transfer takes up a name again that it is done with.
LEMMA MovingNamed ==
    ASSUME Shape, AllNamed, NEW f \in Flows, Moving(f)
    PROVE  AllNamed'
<1> DEFINE w == flow[f]
<1>a. Transferred(w) /\ DOMAIN flow = Flows /\ Named(w)
  BY MovingShape DEF Shape, AllNamed
<1>b. /\ {"ren", "move", "listed", "yes"} \subseteq DOMAIN w /\ (w.move => KeepsNames(w.ren))
      /\ w.todo \subseteq DOMAIN w.ren /\ w.yes \subseteq w.listed
      /\ \A n \in w.todo \union DOMAIN w.done : w.ren[n] \in w.listed => w.ren[n] \in w.yes
      /\ \A n \in w.todo : n \notin DOMAIN w.done
  BY <1>a DEF Transferred, Named, Transfers
<1>1. CASE CopyEntry(f)
  <2>1. PICK n : /\ w.pc = "copy" /\ n \in w.todo
                 /\ flow' = [flow EXCEPT
                        ![f].todo = @ \ {n},
                        ![f].done = [m \in DOMAIN @ \union {n} |->
                                        IF m = n THEN disk[w.from][n] ELSE @[m]]]
    BY <1>1 DEF CopyEntry
  <2> DEFINE v == [w EXCEPT !.todo = @ \ {n},
                            !.done = [m \in DOMAIN @ \union {n} |->
                                        IF m = n THEN disk[w.from][n] ELSE @[m]]]
  <2>2. flow' = [flow EXCEPT ![f] = v]
    BY <2>1, <1>a
  <2>3. /\ v.pc = "copy" /\ v.todo = w.todo \ {n} /\ DOMAIN v.done = DOMAIN w.done \union {n}
        /\ v.ren = w.ren /\ v.move = w.move /\ v.listed = w.listed /\ v.yes = w.yes
        /\ DOMAIN v = DOMAIN w
    BY <1>a, <2>1 DEF Transferred
  <2> HIDE DEF v
  <2>4. Named(v)
    BY <1>b, <2>1, <2>3 DEF Named
  <2> QED
    BY <2>2, <2>4, OneNamed
<1>2. ASSUME NEW n \in w.todo, w.pc = "copy" PROVE Named(Failing(w, n))
  <2> DEFINE v == Failing(w, n)
  <2>1. /\ v.pc = "error" /\ v.todo = w.todo /\ v.done = w.done /\ v.at = n
        /\ v.ren = w.ren /\ v.move = w.move /\ v.listed = w.listed /\ v.yes = w.yes
        /\ {"ren", "move", "listed", "yes"} \subseteq DOMAIN v
    BY DEF Failing
  <2> HIDE DEF v
  <2>2. Named(v)
    BY <1>b, <2>1 DEF Named
  <2> QED
    BY <2>2 DEF v
<1>3. CASE ReadFails(f) \/ WriteFails(f)
  <2>1. PICK n \in w.todo : w.pc = "copy" /\ flow' = [flow EXCEPT ![f] = Failing(w, n)]
    BY <1>3 DEF ReadFails, WriteFails
  <2> QED
    BY <2>1, <1>2, OneNamed
<1>4. CASE Retry(f) \/ Skip(f)
  <2>1. PICK todo \in SUBSET w.todo :
            flow' = [flow EXCEPT ![f] =
                        [Transferring(w, todo, w.listed, w.yes) EXCEPT !.done = w.done]]
    <3>1. CASE Retry(f)
      BY <3>1, <1>a DEF Retry
    <3>2. CASE Skip(f)
      BY <3>2 DEF Skip
    <3> QED
      BY <1>4, <3>1, <3>2
  <2> DEFINE v == [Transferring(w, todo, w.listed, w.yes) EXCEPT !.done = w.done]
  <2>2. flow' = [flow EXCEPT ![f] = v]
    BY <2>1
  <2>3. /\ v.pc = "copy" /\ v.todo = todo /\ v.done = w.done
        /\ v.ren = w.ren /\ v.move = w.move /\ v.listed = w.listed /\ v.yes = w.yes
        /\ {"ren", "move", "listed", "yes"} \subseteq DOMAIN v
    BY DEF Transferring
  <2> HIDE DEF v
  <2>4. Named(v)
    BY <1>b, <2>3 DEF Named
  <2> QED
    BY <2>2, <2>4, OneNamed
<1>5. CASE Abort(f) \/ CancelTransfer(f) \/ Finish(f)
  BY <1>5, EndNamed DEF Abort, CancelTransfer, Finish, End
<1> QED
  BY <1>1, <1>3, <1>4, <1>5 DEF Moving

-------------------------------------------------------------------------------
(* What the variables hold.                                                  *)

\* The entries hold known contents.
Stored == \A p \in Places : \A n \in At(p) : disk[p][n] \in Known

Clipping ==
    \/ clip = NoClip
    \/ {"kind", "names"} \subseteq DOMAIN clip /\ clip.names # {} /\ clip.kind \in {"cut", "copy"}

Counted == ops \in 0..MaxOps /\ moves \in 0..MaxGestures /\ faults \in 0..MaxFaults

\* What was replaced or dropped was known.
Told == Gone \subseteq Known

\* Everything written is known.
LEMMA PutStored ==
    ASSUME DOMAIN disk = Places, Stored, NEW p \in Places, NEW n, NEW k \in Known,
           disk' = Put(p, n, k)
    PROVE  Stored'
<1> SUFFICES ASSUME NEW q \in Places, NEW m \in DOMAIN disk'[q] PROVE disk'[q][m] \in Known
  BY DEF Stored, At, Known
<1>1. CASE q = p
  <2>1. disk'[q] = [j \in At(q) \union {n} |-> IF j = n THEN k ELSE disk[q][j]]
    BY <1>1 DEF Put, At
  <2> QED
    BY <2>1, <1>1 DEF Stored
<1>2. CASE q # p
  BY <1>2 DEF Put, Stored, At
<1> QED
  BY <1>1, <1>2

\* Deleting entries writes nothing.
LEMMA WithoutStored ==
    ASSUME DOMAIN disk = Places, Stored, NEW p \in Places, NEW ns, disk' = Without(p, ns)
    PROVE  Stored'
<1> SUFFICES ASSUME NEW q \in Places, NEW m \in DOMAIN disk'[q] PROVE disk'[q][m] \in Known
  BY DEF Stored, At, Known
<1>1. CASE q = p
  <2>1. disk'[q] = [j \in At(q) \ ns |-> disk[q][j]]
    BY <1>1 DEF Without, At
  <2> QED
    BY <2>1, <1>1 DEF Stored
<1>2. CASE q # p
  BY <1>2 DEF Without, Stored, At
<1> QED
  BY <1>1, <1>2

\* What a flow logs was in an entry.
LEMMA LoggedTold ==
    ASSUME Stored, Told, NEW w, w.to \in Places, NEW n, Logged(w, n)
    PROVE  Told'
<1>1. {disk[w.to][m] : m \in {n} \intersect At(w.to)} \subseteq Known
  BY DEF Stored
<1>2. Gone' = Gone \union {disk[w.to][m] : m \in {n} \intersect At(w.to)}
  BY DEF Logged, Gone
<1> QED
  BY <1>1, <1>2 DEF Told, Known

\* What a transfer reads and writes is known.
LEMMA MovingStored ==
    ASSUME Shape, Stored, Told, NEW f \in Flows, Moving(f)
    PROVE  Stored' /\ Told'
<1> DEFINE w == flow[f]
<1>a. Transferred(w) /\ DOMAIN disk = Places
  BY MovingShape DEF Shape
<1>b. w.from \in Places /\ w.to \in Places
  BY <1>a DEF Transferred
<1>c. ASSUME UNCHANGED <<disk, tally>> PROVE Stored' /\ Told'
  BY <1>c DEF Stored, Told, Gone, tally, At, Known
<1>d. ASSUME NEW n, disk' = Without(w.to, {n}), Logged(w, n) PROVE Stored' /\ Told'
  BY <1>a, <1>b, <1>d, WithoutStored, LoggedTold
<1>e. ASSUME NEW n, NEW k \in Known, disk' = Put(w.to, n, k), Logged(w, n)
      PROVE  Stored' /\ Told'
  BY <1>a, <1>b, <1>e, PutStored, LoggedTold
<1>1. CASE CopyEntry(f)
  <2>1. PICK n : /\ disk' = Put(w.to, w.ren[n], Copied(w, n))
                 /\ Logged(w, w.ren[n]) /\ n \in At(w.from)
    BY <1>1 DEF CopyEntry
  <2>2. Copied(w, n) \in Known
    BY <1>b, <2>1 DEF Copied, Stored, Known
  <2> QED
    BY <1>e, <2>1, <2>2
<1>2. CASE WriteFails(f)
  <2>1. PICK n : disk' = Put(w.to, w.ren[n], junk) /\ Logged(w, w.ren[n])
    BY <1>2 DEF WriteFails
  <2>2. junk \in Known
    BY DEF Known
  <2> QED
    BY <1>e, <2>1, <2>2
<1>3. CASE ReadFails(f) \/ Retry(f)
  BY <1>3, <1>c DEF ReadFails, Retry
<1>4. CASE Skip(f) \/ Abort(f) \/ CancelTransfer(f)
  <2>1. \/ UNCHANGED <<disk, tally>>
        \/ \E n : disk' = Without(w.to, {n}) /\ Logged(w, n)
    BY <1>4 DEF Skip, Abort, CancelTransfer, DropFailed
  <2> QED
    BY <1>c, <1>d, <2>1
<1>5. CASE Finish(f)
  <2>1. CASE ~w.move
    <3>1. UNCHANGED <<disk, tally>>
      BY <1>5, <2>1 DEF Finish, tally
    <3> QED
      BY <1>c, <3>1
  <2>2. CASE w.move
    <3>1. PICK gone \in SUBSET (DOMAIN w.done \intersect At(w.from)) :
             /\ disk' = Without(w.from, gone)
             /\ overtaken' = overtaken \union
                    {disk[w.from][n] : n \in {m \in gone : disk[w.from][m] # w.done[m]}}
      BY <1>5, <2>2 DEF Finish
    <3>2. {disk[w.from][n] : n \in {m \in gone : disk[w.from][m] # w.done[m]}} \subseteq Known
      BY <1>b, <3>1 DEF Stored
    <3>3. UNCHANGED <<agreed, silent, unlisted>>
      BY <1>5 DEF Finish
    <3>4. Told'
      BY <3>1, <3>2, <3>3 DEF Told, Gone, Known
    <3> QED
      BY <1>a, <1>b, <3>1, <3>4, WithoutStored
  <2> QED
    BY <2>1, <2>2
<1> QED
  BY <1>1, <1>2, <1>3, <1>4, <1>5 DEF Moving

\* A rename moves what is known.
LEMMA AskingStored ==
    ASSUME Shape, Stored, Told, NEW f \in Flows, Asking(f)
    PROVE  Stored' /\ Told'
<1>a. DOMAIN disk = Places
  BY DEF Shape
<1>1. ASSUME UNCHANGED <<disk, tally>> PROVE Stored' /\ Told'
  BY <1>1 DEF Stored, Told, Gone, tally, At, Known
<1>2. CASE ConfirmRenaming(f)
  <2> DEFINE from == flow[f].from
             to == Target(f)
  <2>1. from \in Places /\ to \in Places
    <3>1. Opened(flow[f])
      BY <1>2 DEF ConfirmRenaming, Shape, FlowOK, Settling, Transferred, Free, Transfers
    <3>2. panel[flow[f].side].fs \in FileSystems
      BY <3>1 DEF Opened, Shape, Places
    <3> QED
      BY <3>1, <3>2 DEF Opened, Target, Places
  <2>2. CASE from = to
    <3>1. UNCHANGED <<disk, tally>>
      BY <1>2, <2>2 DEF ConfirmRenaming, tally
    <3> QED
      BY <1>1, <3>1
  <2>3. CASE from # to
    <3>1. PICK moved \in SUBSET At(from) :
             /\ disk' = [p \in Places |->
                    CASE p = from -> [n \in At(p) \ moved |-> disk[p][n]]
                      [] p = to -> [n \in At(p) \union moved |->
                                        IF n \in moved THEN disk[from][n] ELSE disk[p][n]]
                      [] OTHER -> disk[p]]
             /\ silent' = silent \union {disk[to][n] : n \in moved \intersect At(to)}
      BY <1>2, <2>3 DEF ConfirmRenaming
    <3> HIDE DEF from, to
    <3>2. Stored'
      <4> SUFFICES ASSUME NEW q \in Places, NEW m \in DOMAIN disk'[q]
                   PROVE  disk'[q][m] \in Known
        BY DEF Stored, At, Known
      <4>1. CASE q = from
        <5>1. disk'[q] = [n \in At(q) \ moved |-> disk[q][n]]
          BY <2>3, <3>1, <4>1
        <5> QED
          BY <5>1 DEF Stored
      <4>2. CASE q = to
        <5>1. disk'[q] = [n \in At(q) \union moved |->
                              IF n \in moved THEN disk[from][n] ELSE disk[q][n]]
          BY <2>3, <3>1, <4>2
        <5> QED
          BY <2>1, <3>1, <5>1 DEF Stored
      <4>3. CASE q # from /\ q # to
        <5>1. disk'[q] = disk[q]
          BY <3>1, <4>3
        <5> QED
          BY <5>1 DEF Stored, At
      <4> QED
        BY <4>1, <4>2, <4>3
    <3>3. {disk[to][n] : n \in moved \intersect At(to)} \subseteq Known
      BY <2>1 DEF Stored
    <3>4. UNCHANGED <<agreed, unlisted, overtaken>>
      BY <1>2 DEF ConfirmRenaming
    <3> QED
      BY <3>1, <3>2, <3>3, <3>4 DEF Told, Gone, Known
  <2> QED
    BY <2>2, <2>3
<1>3. CASE ~ConfirmRenaming(f)
  <2>1. UNCHANGED <<disk, tally>>
    BY <1>3 DEF Asking, FKey, Paste, Drop, ScanDone, ScanFails, Dismiss, ConfirmNothing, Confirm,
                Listed, ListFails, ReplyOne, ReplyAll, Reply, CancelAsk
  <2> QED
    BY <1>1, <2>1
<1> QED
  BY <1>2, <1>3

\* A flow counts what it opens and what fails, and what it does to the
\* clipboard leaves names in it.
LEMMA FlowCounts ==
    ASSUME Counted, Clipping, NEW f \in Flows, Asking(f) \/ Moving(f)
    PROVE  Counted' /\ Clipping'
<1>a. {MaxOps, MaxGestures, MaxFaults} \subseteq Nat
  BY MoveFlowAssumption
<1>1. ASSUME UNCHANGED <<ops, moves>>, UNCHANGED faults \/ Fault PROVE Counted'
  BY <1>a, <1>1 DEF Counted, Fault
<1>2. UNCHANGED clip \/ EndClears(f) => Clipping'
  BY DEF Clipping, EndClears
<1>3. ASSUME NEW from, NEW names, NEW ren, NEW side, NEW move, NEW cut,
             Open(f, from, names, ren, side, move, cut), UNCHANGED faults, UNCHANGED moves \/ Move
      PROVE  Counted'
  BY <1>a, <1>3 DEF Counted, Open, Move
<1>4. ASSUME NEW s \in Sides, NEW move \in BOOLEAN, FKey(f, s, move) PROVE Counted' /\ Clipping'
  <2>1. UNCHANGED <<moves, faults, clip>>
    BY <1>4 DEF FKey, view
  <2>2. \E from, names, ren, side, m, cut : Open(f, from, names, ren, side, m, cut)
    BY <1>4 DEF FKey
  <2> QED
    BY <2>1, <2>2, <1>2, <1>3
<1>5. ASSUME NEW s \in Sides, Paste(f, s) PROVE Counted' /\ Clipping'
  <2>1. UNCHANGED <<moves, faults, clip>>
    BY <1>5 DEF Paste, view
  <2>2. \E from, names, ren, side, m, cut : Open(f, from, names, ren, side, m, cut)
    BY <1>5 DEF Paste
  <2> QED
    BY <2>1, <2>2, <1>2, <1>3
<1>6. ASSUME NEW s \in Sides, Drop(f, s) PROVE Counted' /\ Clipping'
  <2>1. Move /\ UNCHANGED <<faults, clip>>
    BY <1>6 DEF Drop
  <2>2. \E from, names, ren, side, m, cut : Open(f, from, names, ren, side, m, cut)
    BY <1>6 DEF Drop
  <2> QED
    BY <2>1, <2>2, <1>2, <1>3
<1>7. CASE \/ ScanDone(f) \/ ScanFails(f) \/ Dismiss(f) \/ ConfirmNothing(f) \/ Confirm(f)
           \/ Listed(f) \/ ListFails(f)
  <2>1. UNCHANGED <<ops, moves, clip>> /\ (UNCHANGED faults \/ Fault)
    BY <1>7 DEF ScanDone, ScanFails, Dismiss, ConfirmNothing, Confirm, Listed, ListFails, view
  <2> QED
    BY <2>1, <1>1, <1>2
<1>8. CASE ConfirmRenaming(f)
  <2>1. UNCHANGED <<ops, moves>> /\ (UNCHANGED faults \/ Fault)
    BY <1>8 DEF ConfirmRenaming, view
  <2>2. UNCHANGED clip \/ EndClears(f)
    BY <1>8 DEF ConfirmRenaming, End
  <2> QED
    BY <2>1, <2>2, <1>1, <1>2
<1>9. CASE CancelAsk(f)
  <2>1. UNCHANGED <<ops, moves, faults>> /\ (UNCHANGED clip \/ EndClears(f))
    BY <1>9 DEF CancelAsk, End, view
  <2> QED
    BY <2>1, <1>1, <1>2
<1>10. CASE \E overwrite \in BOOLEAN : ReplyOne(f, overwrite) \/ ReplyAll(f, overwrite)
  <2>1. \E overwrite \in BOOLEAN : \E names : Reply(f, names, overwrite)
    BY <1>10 DEF ReplyOne, ReplyAll
  <2>2. UNCHANGED <<ops, moves, faults>> /\ (UNCHANGED clip \/ EndClears(f))
    BY <2>1 DEF Reply, End, view
  <2> QED
    BY <2>2, <1>1, <1>2
<1>11. CASE Moving(f)
  <2>1. UNCHANGED <<ops, moves>> /\ (UNCHANGED faults \/ Fault) /\ (UNCHANGED clip \/ EndClears(f))
    BY <1>11 DEF Moving, CopyEntry, ReadFails, WriteFails, Retry, Skip, Abort, CancelTransfer,
                 Finish, End, view
  <2> QED
    BY <2>1, <1>1, <1>2
<1> QED
  BY <1>4, <1>5, <1>6, <1>7, <1>8, <1>9, <1>10, <1>11 DEF Asking

\* The strengthening of the types: the shape of the flows and their names.
Types == Shape /\ AllNamed /\ Stored /\ Told /\ Counted /\ Clipping

\* At the start no flow is open and every content is known.
LEMMA InitTypes == Init => Types
<1> SUFFICES ASSUME Init PROVE Types
  OBVIOUS
<1>1. Shape
  BY InitPlenty DEF IInv
<1>2. AllNamed
  BY FreeNamed DEF Init, AllNamed
<1>3. Stored
  BY MoveFlowAssumption DEF Init, Stored, At, Known
<1>4. Told /\ Clipping
  BY DEF Init, Told, Gone, Clipping
<1>5. Counted
  BY MoveFlowAssumption DEF Init, Counted
<1> QED
  BY <1>1, <1>2, <1>3, <1>4, <1>5 DEF Types

\* Every step keeps the types.
LEMMA StepKeepsTypes == Types /\ [Next]_vars => Types'
<1> SUFFICES ASSUME Types, [Next]_vars PROVE Types'
  OBVIOUS
<1>a. Shape /\ AllNamed /\ Stored /\ Told /\ Counted /\ Clipping
  BY DEF Types
<1>b. ASSUME UNCHANGED <<disk, tally, flow>> PROVE AllNamed' /\ Stored' /\ Told'
  BY <1>a, <1>b DEF AllNamed, Stored, Told, Gone, tally, At, Known
<1>1. CASE User
  <2>1. UNCHANGED <<disk, flow, tally, ops, faults>> /\ (Move \/ UNCHANGED moves)
    BY <1>1 DEF User, Navigate, Take, PasteBack, view
  <2>2. Counted'
    BY <1>a, <2>1, MoveFlowAssumption DEF Counted, Move
  <2>3. Clipping'
    <3>1. ASSUME NEW s \in Sides, NEW p \in Places, Navigate(s, p) PROVE Clipping'
      <4>1. \/ UNCHANGED clip \/ clip' = NoClip
            \/ clip.kind # "none" /\ clip' = [clip EXCEPT !.anchored = FALSE]
        BY <3>1 DEF Navigate
      <4> QED
        BY <1>a, <4>1 DEF Clipping, NoClip
    <3>2. ASSUME NEW s \in Sides, NEW kind \in {"cut", "copy"}, Take(s, kind) PROVE Clipping'
      BY <3>2 DEF Clipping, Take
    <3>3. ASSUME NEW s \in Sides, PasteBack(s) PROVE Clipping'
      BY <3>3 DEF Clipping, PasteBack
    <3> QED
      BY <1>1, <3>1, <3>2, <3>3 DEF User
  <2>4. Shape'
    BY <1>a, <1>1, UserShape
  <2> QED
    BY <1>b, <2>1, <2>2, <2>3, <2>4 DEF Types
<1>2. ASSUME NEW f \in Flows, Asking(f) PROVE Types'
  BY <1>a, <1>2, AskingShape, AskingNamed, AskingStored, FlowCounts DEF Types
<1>3. ASSUME NEW f \in Flows, Moving(f) PROVE Types'
  BY <1>a, <1>3, MovingShape, MovingNamed, MovingStored, FlowCounts DEF Types
<1>4. CASE UNCHANGED vars
  <2>1. UNCHANGED <<disk, flow, tally, ops, faults, clip, panel, moves>>
    BY <1>4 DEF vars, view
  <2>2. Shape'
    BY <1>a, <2>1 DEF Shape, Clipped
  <2>3. Counted' /\ Clipping'
    BY <1>a, <2>1 DEF Counted, Clipping
  <2> QED
    BY <1>b, <2>1, <2>2, <2>3 DEF Types
<1> QED
  BY <1>1, <1>2, <1>3, <1>4 DEF Next

\* The types hold of every behaviour.
LEMMA TypesKept == Spec => []Types
BY InitTypes, StepKeepsTypes, PTL DEF Spec

\* The variables have their types: the places hold known contents only, every item of
\* a flow has a new name, and none is both done and to be done, for any places, names
\* and contents and any number of flows that overlap.
THEOREM FlowTypes == Spec => []TypeOK
<1>1. Types => TypeOK
  <2> SUFFICES ASSUME Types PROVE TypeOK
    OBVIOUS
  <2>1. \A p \in Places : {disk[p][n] : n \in At(p)} \subseteq Contents \union {junk}
    BY DEF Types, Stored, Known
  <2>2. panel \in [Sides -> Places]
    BY DEF Types, Shape
  <2>3. clip = NoClip \/ (clip.from \in Places /\ clip.names # {} /\ clip.kind \in {"cut", "copy"})
    BY DEF Types, Shape, Clipped, Clipping
  <2>4. ASSUME NEW f \in Flows
        PROVE  /\ flow[f].pc \in
                      {"free", "scan", "stuck", "confirm", "list", "ask", "copy", "error"}
               /\ flow[f].pc \in {"list", "ask", "copy", "error"} =>
                      flow[f].to \in Places /\ flow[f].todo \subseteq DOMAIN flow[f].ren
               /\ flow[f].pc \in {"copy", "error"} =>
                      /\ flow[f].yes \subseteq flow[f].listed
                      /\ flow[f].todo \intersect DOMAIN flow[f].done = {}
    <3>1. FlowOK(flow[f]) /\ Named(flow[f])
      BY DEF Types, Shape, AllNamed
    <3>2. flow[f].pc \in {"free", "scan", "stuck", "confirm", "list", "ask", "copy", "error"}
      BY <3>1 DEF FlowOK, Opened, Settling, Transferred, Free, Transfers
    <3>3. flow[f].pc \in {"list", "ask", "copy", "error"} => flow[f].to \in Places
      BY <3>1 DEF FlowOK, Opened, Settling, Transferred, Free, Transfers
    <3> QED
      BY <3>1, <3>2, <3>3 DEF Named, Transfers
  <2>5. /\ ops \in 0..MaxOps /\ moves \in 0..MaxGestures /\ faults \in 0..MaxFaults
        /\ agreed \union silent \union unlisted \union overtaken \subseteq Contents \union {junk}
    BY DEF Types, Counted, Told, Gone, Known
  <2> QED
    BY <2>1, <2>2, <2>3, <2>4, <2>5 DEF TypeOK
<1> QED
  BY <1>1, TypesKept, PTL

-------------------------------------------------------------------------------
(* What was declined stays.                                                  *)

\* Writing or dropping another entry leaves this one.
LEMMA OthersSame ==
    ASSUME DOMAIN disk = Places, NEW p \in Places, NEW q \in Places, NEW n, NEW ns, NEW k, NEW m,
           \/ disk' = Put(p, m, k) /\ (q = p => n # m)
           \/ disk' = Without(p, ns) /\ (q = p => n \notin ns)
    PROVE  Same(q, n)
<1>1. CASE q # p
  BY <1>1 DEF Put, Without, Same, At
<1>2. CASE q = p /\ disk' = Put(p, m, k) /\ n # m
  <2>1. disk'[q] = [j \in At(q) \union {m} |-> IF j = m THEN k ELSE disk[q][j]]
    BY <1>2 DEF Put, At
  <2> QED
    BY <2>1, <1>2 DEF Same, At
<1>3. CASE q = p /\ disk' = Without(p, ns) /\ n \notin ns
  <2>1. disk'[q] = [j \in At(q) \ ns |-> disk[q][j]]
    BY <1>3 DEF Without, At
  <2> QED
    BY <2>1, <1>3 DEF Same, At
<1> QED
  BY <1>1, <1>2, <1>3

\* What flow w does not touch when it declined n.
Spared(w, n) == Same(w.to, w.ren[n]) /\ (Same(w.from, n) \/ NameGiven(w, n))

\* A step of a transfer spares what its user declined.
LEMMA MovingSpares ==
    ASSUME Shape, AllNamed, NEW f \in Flows, Moving(f), NEW n \in Declined(flow[f])
    PROVE  Spared(flow[f], n)
<1> DEFINE w == flow[f]
<1>a. Transferred(w) /\ DOMAIN disk = Places /\ Named(w)
  BY MovingShape DEF Shape, AllNamed
<1>b. /\ w.from \in Places /\ w.to \in Places /\ w.pc \in Transfers
      /\ w.todo \subseteq DOMAIN w.ren /\ (w.move => KeepsNames(w.ren))
      /\ \A m \in w.todo \union DOMAIN w.done : w.ren[m] \in w.listed => w.ren[m] \in w.yes
  BY <1>a DEF Transferred, Named, Transfers
<1>c. n \in DOMAIN w.ren /\ w.ren[n] \in w.listed /\ w.ren[n] \notin w.yes
  BY DEF Declined
<1>1. ASSUME UNCHANGED disk PROVE Spared(w, n)
  BY <1>1 DEF Spared, Same, At
<1>2. ASSUME NEW m \in w.todo,
             \/ \E k : disk' = Put(w.to, w.ren[m], k)
             \/ disk' = Without(w.to, {w.ren[m]})
      PROVE  Spared(w, n)
  <2>1. w.ren[m] # w.ren[n] /\ m # n /\ m \in DOMAIN w.ren
    BY <1>b, <1>c
  <2>2. ASSUME NEW q \in Places, NEW j, q = w.to => j # w.ren[m] PROVE Same(q, j)
    <3>1. CASE \E k : disk' = Put(w.to, w.ren[m], k)
      BY <1>a, <1>b, <2>2, <3>1, OthersSame
    <3>2. CASE disk' = Without(w.to, {w.ren[m]})
      <4>1. q = w.to => j \notin {w.ren[m]}
        BY <2>2
      <4> QED
        BY <1>a, <1>b, <3>2, <4>1, OthersSame
    <3> QED
      BY <1>2, <3>1, <3>2
  <2>3. Same(w.to, w.ren[n])
    BY <1>b, <2>1, <2>2
  <2>4. CASE w.from = w.to /\ w.ren[m] = n
    BY <2>1, <2>3, <2>4 DEF Spared, NameGiven
  <2>5. CASE ~(w.from = w.to /\ w.ren[m] = n)
    BY <1>b, <2>2, <2>3, <2>5 DEF Spared
  <2> QED
    BY <2>4, <2>5
<1>3. CASE CopyEntry(f) \/ WriteFails(f)
  <2>1. \E m \in w.todo : \E k : disk' = Put(w.to, w.ren[m], k)
    BY <1>3 DEF CopyEntry, WriteFails
  <2> QED
    BY <2>1, <1>2
<1>4. CASE ReadFails(f) \/ Retry(f)
  BY <1>1, <1>4 DEF ReadFails, Retry
<1>5. CASE Skip(f) \/ Abort(f)
  <2>1. w.at \in w.todo
    BY <1>5, <1>a DEF Skip, Abort, Named
  <2>2. UNCHANGED disk \/ disk' = Without(w.to, {w.ren[w.at]})
    BY <1>5 DEF Skip, Abort, DropFailed
  <2> QED
    BY <2>1, <2>2, <1>1, <1>2
<1>6. CASE CancelTransfer(f)
  <2>1. UNCHANGED disk \/ \E m \in w.todo : disk' = Without(w.to, {w.ren[m]})
    BY <1>6 DEF CancelTransfer
  <2> QED
    BY <2>1, <1>1, <1>2
<1>7. CASE Finish(f)
  <2>1. UNCHANGED disk \/ \E gone \in SUBSET DOMAIN w.done : w.move /\ disk' = Without(w.from, gone)
    BY <1>7 DEF Finish
  <2>2. ASSUME NEW gone \in SUBSET DOMAIN w.done, w.move, disk' = Without(w.from, gone)
        PROVE  Spared(w, n)
    <3>1. n \notin gone /\ w.ren[n] = n
      BY <1>b, <1>c, <2>2 DEF KeepsNames
    <3>2. Same(w.from, n)
      BY <1>a, <1>b, <2>2, <3>1, OthersSame
    <3>3. Same(w.to, w.ren[n])
      BY <1>a, <1>b, <2>2, <3>1, OthersSame
    <3> QED
      BY <3>2, <3>3 DEF Spared
  <2> QED
    BY <2>1, <2>2, <1>1
<1> QED
  BY <1>3, <1>4, <1>5, <1>6, <1>7 DEF Moving

\* A flow is changed by its own steps only.
LEMMA OwnStep ==
    ASSUME Shape, NEW f \in Flows, NEW g \in Flows, Asking(g) \/ Moving(g), flow'[f] # flow[f]
    PROVE  f = g
<1>1. SUFFICES ASSUME NEW w, flow' = [flow EXCEPT ![g] = w] PROVE f = g
  <2>1. \E w : flow' = [flow EXCEPT ![g] = w]
    BY DEF Asking, FKey, Paste, Drop, Open, ScanDone, ScanFails, Dismiss, ConfirmNothing,
           Confirm, ConfirmRenaming, Listing, End, Listed, ListFails, ReplyOne, ReplyAll, Reply,
           CancelAsk, Moving, CopyEntry, ReadFails, WriteFails, Retry, Skip, Abort,
           CancelTransfer, Finish, Shape
  <2> QED
    BY <1>1, <2>1
<1> QED
  BY <1>1 DEF Shape

\* What the user declined to overwrite stays at both sides of the transfer that
\* asked, for any number of flows, except where it is pasted beside itself and its
\* name was given to another.
THEOREM DeclinedAreSpared == Spec => DeclinedStay
<1> DEFINE Spares == \A f \in Flows :
        flow'[f] # flow[f] /\ flow[f].pc \in {"copy", "error"} =>
            \A n \in Declined(flow[f]) :
                /\ Same(flow[f].to, flow[f].ren[n])
                /\ Same(flow[f].from, n) \/ NameGiven(flow[f], n)
<1>1. Types /\ [Next]_vars => [Spares]_vars
  <2> SUFFICES ASSUME Types, Next, NEW f \in Flows, flow'[f] # flow[f], flow[f].pc \in Transfers,
                      NEW n \in Declined(flow[f])
               PROVE  Spared(flow[f], n)
    BY DEF Spared, Transfers
  <2>1. Shape /\ AllNamed
    BY DEF Types
  <2>2. ~User
    BY DEF User, Navigate, Take, PasteBack
  <2>3. PICK g \in Flows : Asking(g) \/ Moving(g)
    BY <2>2 DEF Next
  <2>4. f = g
    BY <2>1, <2>3, OwnStep
  <2>5. ~Asking(f)
    <3>1. flow[f].pc \notin {"free", "scan", "stuck", "confirm", "list", "ask"}
      BY DEF Transfers
    <3> QED
      BY <3>1 DEF Asking, FKey, Paste, Drop, ScanDone, ScanFails, Dismiss, ConfirmNothing, Confirm,
             ConfirmRenaming, Listed, ListFails, ReplyOne, ReplyAll, CancelAsk
  <2> QED
    BY <2>1, <2>3, <2>4, <2>5, MovingSpares
<1> QED
  BY <1>1, TypesKept, PTL DEF Spec, DeclinedStay

===============================================================================
