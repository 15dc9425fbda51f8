-------------------------------- MODULE MoveFlow --------------------------------
(***************************************************************************)
(* Copying and moving from the user's side: F5, F6, Cut, Copy and Paste,   *)
(* the dialog that scans and asks for confirmation, the attempt to rename, *)
(* the questions about existing entries, the transfer and what its end     *)
(* does to the clipboard.                                                  *)
(*                                                                         *)
(* A place is a directory of a file system, an entry is a name and the     *)
(* content it stands for.  The transfer itself, modelled step by step in   *)
(* Transfer, is reduced here to entries: one is copied, fails, is skipped, *)
(* and the sweep deletes what was copied.  Flows overlap: F5 and F6 open   *)
(* one whatever is on the screen, and while a destination is listed or a   *)
(* transfer runs on behind its closed dialog there is no dialog at all.    *)
(***************************************************************************)
EXTENDS Naturals, Sequences, FiniteSets, SequencesExt

CONSTANTS
    FileSystems, Dirs,
    Local,          \* the file systems whose provider says is_local()
    Rebuildable,    \* those an EndpointPlan can reopen: not archives, not peers
    Contents,       \* what the entries hold at the start
    junk,           \* the content of an entry written in part, or truncated
    Flows,          \* flows that may be open at the same time
    Entries,        \* Entries[p]: names and contents at the start
    Start,          \* Start[s]: where the panel on side s is at the start
    MaxOps,         \* bound on the flows opened in one behaviour
    MaxGestures,    \* bound on those, navigations, uses of Cut and Copy, and drops
    MaxFaults       \* bound on failing I/O and failing renames

Sides == {"left", "right"}
Places == [fs : FileSystems, dir : Dirs]

\* The entries whose content is c, where d says what every place holds.
Where(d, c) ==
    UNION {{<<p, n>> : n \in {m \in DOMAIN d[p] : d[p][m] = c}} : p \in Places}

ASSUME MoveFlowAssumption ==
    /\ Local \subseteq FileSystems
    /\ Rebuildable \subseteq FileSystems
    /\ junk \notin Contents
    /\ DOMAIN Entries = Places
    /\ \A p \in Places : \A n \in DOMAIN Entries[p] : Entries[p][n] \in Contents
    /\ \A c \in Contents : Where(Entries, c) # {} /\ IsFiniteSet(Where(Entries, c))
    /\ Start \in [Sides -> Places]
    /\ {MaxOps, MaxGestures, MaxFaults} \subseteq Nat

VARIABLES
    disk,       \* disk[p]: the entries of place p, a function from names to contents
    panel,      \* the place each panel shows
    clip,       \* the clipboard: NoClip or what was cut or copied
    flow,       \* one record for every flow
    ops, moves, faults,
    agreed,     \* contents replaced or dropped after a Yes to their name
    silent,     \* contents replaced by the renames that come before any question
    unlisted,   \* contents replaced or dropped whose name the listing did not show
    overtaken   \* contents that arrived at a source entry after it was copied,
                \* and were deleted with it

tally == <<agreed, silent, unlisted, overtaken>>
view == <<panel, moves>>
vars == <<disk, view, clip, flow, ops, faults, tally>>

NoClip == [kind |-> "none"]
Free == [pc |-> "free"]

At(p) == DOMAIN disk[p]
Put(p, n, k) == [disk EXCEPT ![p] = [m \in DOMAIN @ \union {n} |-> IF m = n THEN k ELSE @[m]]]
Without(p, names) == [disk EXCEPT ![p] = [m \in DOMAIN @ \ names |-> @[m]]]

Fault == faults < MaxFaults /\ faults' = faults + 1

Move == ops + moves < MaxGestures /\ moves' = moves + 1

\* The flows whose dialog is up for certain.  There is none while a
\* destination is listed; Escape closes the dialog of a running transfer,
\* which goes on without it, and the one about an error comes up later than
\* the error.
Blocked == \E f \in Flows : flow[f].pc \in {"scan", "stuck", "confirm", "ask"}

-------------------------------------------------------------------------------
(* The clipboard.                                                            *)

\* keep_or_number: a name that is taken gets the least counter that is free.
KeepOrNumber(n, taken) ==
    IF n \notin taken THEN n
    ELSE Append(n, CHOOSE k \in 1..(Cardinality(taken) + 1) :
                       /\ Append(n, k) \notin taken
                       /\ \A j \in 1..(k - 1) : Append(n, j) \in taken)

\* plan_names: one item after the other, each new name taken for the next.
PlanNames(names, taken) ==
    LET order == SetToSeq(names)
        name[i \in 1..Len(order)] == KeepOrNumber(order[i], taken \union {name[j] : j \in 1..(i - 1)})
    IN  [n \in names |-> name[CHOOSE i \in 1..Len(order) : order[i] = n]]

Take(s, kind) ==
    /\ ~Blocked
    /\ \E names \in (SUBSET At(panel[s])) \ {{}} :
           clip' = [kind |-> kind, side |-> s, from |-> panel[s], names |-> names, anchored |-> TRUE]
    /\ Move
    /\ UNCHANGED <<disk, panel, flow, ops, faults, tally>>

\* A panel goes elsewhere, at the user's request or by the remote API.  What
\* the clipboard was taken through may go with the old levels; a clip that
\* cannot be reopened is dropped with them.
Navigate(s, p) ==
    /\ panel[s] # p
    /\ Move
    /\ panel' = [panel EXCEPT ![s] = p]
    /\ IF clip.kind # "none" /\ clip.side = s /\ clip.from = panel[s]
       THEN \/ UNCHANGED clip
            \/ clip' = IF clip.from.fs \in Rebuildable THEN [clip EXCEPT !.anchored = FALSE] ELSE NoClip
       ELSE UNCHANGED clip
    /\ UNCHANGED <<disk, flow, ops, faults, tally>>

SamePlace(s) ==
    /\ clip.from = panel[s]
    /\ clip.anchored
    /\ clip.from.fs \in Local \/ clip.side = s

-------------------------------------------------------------------------------
(* Opening the dialog.                                                       *)

\* show_transfer_dialog: the destination directory is fixed here, the file
\* system it lies on only when the dialog is confirmed.
Open(f, from, names, ren, side, move, cut) ==
    /\ ops < MaxOps
    /\ ops + moves < MaxGestures
    /\ ops' = ops + 1
    /\ flow' = [flow EXCEPT ![f] =
           [pc |-> "scan", from |-> from, dir |-> panel[side].dir, side |-> side,
            todo |-> names, ren |-> ren, move |-> move, cut |-> cut]]

\* F5 and F6 are taken at the window before any dialog sees them.
FKey(f, s, move) ==
    /\ flow[f].pc = "free"
    /\ \E names \in (SUBSET At(panel[s])) \ {{}} :
           Open(f, panel[s], names, [n \in names |-> n], CHOOSE o \in Sides : o # s, move, FALSE)
    /\ UNCHANGED <<disk, view, clip, faults, tally>>

\* Files dropped from another program are looked up in the directory of the
\* first one, under the local provider, and copied.
Drop(f, s) ==
    /\ flow[f].pc = "free" /\ ~Blocked
    /\ \E first, other \in {p \in Places : p.fs \in Local} : \E n \in At(first), m \in At(other) :
           Open(f, first, {n, m}, [i \in {n, m} |-> i], s, FALSE, FALSE)
    /\ Move
    /\ UNCHANGED <<disk, panel, clip, faults, tally>>

\* A Cut pasted where it was taken is only forgotten.
PasteBack(s) ==
    /\ ~Blocked
    /\ clip.kind = "cut" /\ SamePlace(s)
    /\ clip' = NoClip
    /\ UNCHANGED <<disk, view, flow, ops, faults, tally>>

Paste(f, s) ==
    /\ flow[f].pc = "free" /\ ~Blocked
    /\ clip.kind # "none"
    /\ ~(clip.kind = "cut" /\ SamePlace(s))
    /\ Open(f, clip.from, clip.names,
            IF SamePlace(s) THEN PlanNames(clip.names, At(panel[s])) ELSE [n \in clip.names |-> n],
            s, clip.kind = "cut", clip.kind = "cut")
    /\ UNCHANGED <<disk, view, clip, faults, tally>>

ScanDone(f) ==
    /\ flow[f].pc = "scan"
    /\ flow' = [flow EXCEPT ![f].pc = "confirm"]
    /\ UNCHANGED <<disk, view, clip, ops, faults, tally>>

\* A failed local scan ends like one that found nothing; after a failed
\* remote one the dialog can only be dismissed.
ScanFails(f) ==
    /\ flow[f].pc = "scan"
    /\ Fault
    /\ flow' = [flow EXCEPT ![f] =
           IF flow[f].from.fs \in Local
           THEN [@ EXCEPT !.pc = "confirm", !.todo = {}]
           ELSE [@ EXCEPT !.pc = "stuck"]]
    /\ UNCHANGED <<disk, view, clip, ops, tally>>

Dismiss(f) ==
    /\ flow[f].pc \in {"scan", "confirm", "stuck"}
    /\ flow' = [flow EXCEPT ![f] = Free]
    /\ UNCHANGED <<disk, view, clip, ops, faults, tally>>

-------------------------------------------------------------------------------
(* Confirmed: rename what can be renamed, then list the destination.         *)

\* on_done of a pasted Cut: the clipboard is emptied whatever it holds.
EndClears(f) == clip' = IF flow[f].cut THEN NoClip ELSE clip
End(f) == flow' = [flow EXCEPT ![f] = Free] /\ EndClears(f)

Target(f) == [fs |-> panel[flow[f].side].fs, dir |-> flow[f].dir]

ConfirmNothing(f) ==
    /\ flow[f].pc = "confirm"
    /\ flow[f].todo = {}
    /\ flow' = [flow EXCEPT ![f] = Free]
    /\ UNCHANGED <<disk, view, clip, ops, faults, tally>>

RenamesFirst(f) == flow[f].move /\ {flow[f].from.fs, Target(f).fs} \subseteq Local

Listing(f, to, rest) ==
    flow' = [flow EXCEPT ![f] =
        [pc |-> "list", from |-> @.from, to |-> to, todo |-> rest, ren |-> @.ren,
         move |-> @.move, cut |-> @.cut]]

Confirm(f) ==
    /\ flow[f].pc = "confirm"
    /\ flow[f].todo # {}
    /\ ~RenamesFirst(f)
    /\ Listing(f, Target(f), flow[f].todo)
    /\ UNCHANGED <<disk, view, clip, ops, faults, tally>>

\* Renames of the selected names, on the GUI thread: an entry that is there
\* is replaced.  Those that fail go on to the questions and the transfer.
ConfirmRenaming(f) ==
    LET from == flow[f].from
        to == Target(f)
    IN
    /\ flow[f].pc = "confirm"
    /\ flow[f].todo # {}
    /\ RenamesFirst(f)
    /\ \E failed \in SUBSET flow[f].todo :
           LET moved == flow[f].todo \ failed IN
           /\ moved \subseteq At(from)
           /\ IF failed \intersect At(from) = {} THEN UNCHANGED faults ELSE Fault
           /\ IF from = to
              THEN UNCHANGED <<disk, silent>>
              ELSE /\ disk' = [p \in Places |->
                          CASE p = from -> [n \in At(p) \ moved |-> disk[p][n]]
                            [] p = to -> [n \in At(p) \union moved |->
                                              IF n \in moved THEN disk[from][n] ELSE disk[p][n]]
                            [] OTHER -> disk[p]]
                   /\ silent' = silent \union {disk[to][n] : n \in moved \intersect At(to)}
           /\ IF failed = {}
              THEN End(f)
              ELSE Listing(f, to, failed) /\ UNCHANGED clip
    /\ UNCHANGED <<view, ops, agreed, unlisted, overtaken>>

-------------------------------------------------------------------------------
(* resolve_conflicts.                                                        *)

\* What a flow with nothing left to ask carries from here.
Transferring(w, todo, listed, yes) ==
    [pc |-> "copy", from |-> w.from, to |-> w.to, todo |-> todo, ren |-> w.ren, move |-> w.move,
     cut |-> w.cut, listed |-> listed, yes |-> yes, done |-> <<>>]

Listed(f) ==
    LET w == flow[f]
        existing == {w.ren[n] : n \in w.todo} \intersect At(w.to)
    IN
    /\ w.pc = "list"
    /\ flow' = [flow EXCEPT ![f] =
           IF existing = {}
           THEN Transferring(w, w.todo, {}, {})
           ELSE [pc |-> "ask", from |-> w.from, to |-> w.to, todo |-> w.todo, ren |-> w.ren,
                 move |-> w.move, cut |-> w.cut,
                 listed |-> existing, asks |-> existing, yes |-> {}]]
    /\ UNCHANGED <<disk, view, clip, ops, faults, tally>>

\* A destination that cannot be listed is taken for an empty one.
ListFails(f) ==
    /\ flow[f].pc = "list"
    /\ Fault
    /\ flow' = [flow EXCEPT ![f] = Transferring(flow[f], flow[f].todo, {}, {})]
    /\ UNCHANGED <<disk, view, clip, ops, tally>>

\* Mutant of Asked: what was declined goes on with the rest.
AskedInVain(w, asks, yes) ==
    IF asks # {}
    THEN [w EXCEPT !.asks = asks, !.yes = yes]
    ELSE Transferring(w, w.todo, w.listed, yes)

\* The items that go on: those whose name nobody declined.
Asked(w, asks, yes) ==
    IF asks # {}
    THEN [w EXCEPT !.asks = asks, !.yes = yes]
    ELSE Transferring(w, {n \in w.todo : w.ren[n] \in w.listed => w.ren[n] \in yes}, w.listed, yes)

\* Yes and Skip settle one name, Yes to All and Skip All every name left.
Reply(f, names, overwrite) ==
    LET w == Asked(flow[f], flow[f].asks \ names,
                   IF overwrite THEN flow[f].yes \union names ELSE flow[f].yes)
    IN
    /\ flow[f].pc = "ask"
    /\ IF w.pc = "copy" /\ w.todo = {}
       THEN End(f)
       ELSE flow' = [flow EXCEPT ![f] = w] /\ UNCHANGED clip
    /\ UNCHANGED <<disk, view, ops, faults, tally>>

ReplyOne(f, overwrite) == flow[f].pc = "ask" /\ \E n \in flow[f].asks : Reply(f, {n}, overwrite)
ReplyAll(f, overwrite) == flow[f].pc = "ask" /\ Reply(f, flow[f].asks, overwrite)

CancelAsk(f) ==
    /\ flow[f].pc = "ask"
    /\ End(f)
    /\ UNCHANGED <<disk, view, ops, faults, tally>>

-------------------------------------------------------------------------------
(* execute_transfer, entry by entry.                                         *)

LocalRun(w) == {w.from.fs, w.to.fs} \subseteq Local

\* What stood at an entry that is written or dropped by flow w.
Logged(w, n) ==
    LET old == {disk[w.to][m] : m \in {n} \intersect At(w.to)} IN
    IF n \in w.yes
    THEN agreed' = agreed \union old /\ UNCHANGED <<silent, unlisted, overtaken>>
    ELSE unlisted' = unlisted \union old /\ UNCHANGED <<agreed, silent, overtaken>>

\* Between two local sides the destination is truncated while the source is
\* open: a file copied onto itself ends up empty.
Copied(w, n) ==
    IF LocalRun(w) /\ w.from = w.to /\ w.ren[n] = n THEN junk ELSE disk[w.from][n]

\* Mutant of CopyEntry: the entry stays among those to be copied.
CopyEntryAgain(f) ==
    LET w == flow[f] IN
    /\ w.pc = "copy"
    /\ \E n \in w.todo \intersect At(w.from) :
           /\ disk' = Put(w.to, w.ren[n], Copied(w, n))
           /\ Logged(w, w.ren[n])
           /\ flow' = [flow EXCEPT
                  ![f].done = [m \in DOMAIN @ \union {n} |-> IF m = n THEN disk[w.from][n] ELSE @[m]]]
    /\ UNCHANGED <<view, clip, ops, faults>>

CopyEntry(f) ==
    LET w == flow[f] IN
    /\ w.pc = "copy"
    /\ \E n \in w.todo \intersect At(w.from) :
           /\ disk' = Put(w.to, w.ren[n], Copied(w, n))
           /\ Logged(w, w.ren[n])
           /\ flow' = [flow EXCEPT
                  ![f].todo = @ \ {n},
                  ![f].done = [m \in DOMAIN @ \union {n} |-> IF m = n THEN disk[w.from][n] ELSE @[m]]]
    /\ UNCHANGED <<view, clip, ops, faults>>

Failing(w, n) ==
    [pc |-> "error", from |-> w.from, to |-> w.to, todo |-> w.todo, ren |-> w.ren, move |-> w.move,
     cut |-> w.cut, listed |-> w.listed, yes |-> w.yes, done |-> w.done, at |-> n]

\* The source entry cannot be read, for one because another flow moved it.
ReadFails(f) ==
    LET w == flow[f] IN
    /\ w.pc = "copy"
    /\ \E n \in w.todo :
           /\ IF n \in At(w.from) THEN Fault ELSE UNCHANGED faults
           /\ flow' = [flow EXCEPT ![f] = Failing(w, n)]
    /\ UNCHANGED <<disk, view, clip, ops, tally>>

\* The write fails after the destination was touched.  With Retry after it,
\* this is also a copy that another flow finds half done.
WriteFails(f) ==
    LET w == flow[f] IN
    /\ w.pc = "copy"
    /\ \E n \in w.todo \intersect At(w.from) :
           /\ disk' = Put(w.to, w.ren[n], junk)
           /\ Logged(w, w.ren[n])
           /\ flow' = [flow EXCEPT ![f] = Failing(w, n)]
    /\ Fault
    /\ UNCHANGED <<view, clip, ops>>

Retry(f) ==
    /\ flow[f].pc = "error"
    /\ flow' = [flow EXCEPT ![f] = [Transferring(@, @.todo, @.listed, @.yes) EXCEPT !.done = flow[f].done]]
    /\ UNCHANGED <<disk, view, clip, ops, faults, tally>>

\* Skip and Abort delete the entry of the failed item at a destination that
\* is not local; that this may fail is ignored.
DropFailed(w) ==
    \/ UNCHANGED <<disk, tally>>
    \/ /\ w.to.fs \notin Local
       /\ disk' = Without(w.to, {w.ren[w.at]})
       /\ Logged(w, w.ren[w.at])

Skip(f) ==
    LET w == flow[f] IN
    /\ w.pc = "error"
    /\ DropFailed(w)
    /\ flow' = [flow EXCEPT ![f] = [Transferring(w, w.todo \ {w.at}, w.listed, w.yes) EXCEPT !.done = w.done]]
    /\ UNCHANGED <<view, clip, ops, faults>>

Abort(f) ==
    /\ flow[f].pc = "error"
    /\ DropFailed(flow[f])
    /\ End(f)
    /\ UNCHANGED <<view, ops, faults>>

\* Cancel between two entries or, between local sides, within one, whose
\* unfinished copy is removed.
CancelTransfer(f) ==
    LET w == flow[f] IN
    /\ w.pc = "copy"
    /\ \/ UNCHANGED <<disk, tally>>
       \/ \E n \in w.todo \intersect At(w.from) :
              /\ LocalRun(w)
              /\ disk' = Without(w.to, {w.ren[n]})
              /\ Logged(w, w.ren[n])
    /\ End(f)
    /\ UNCHANGED <<view, ops, faults>>

\* Mutant of Finish: the sweep takes skipped entries along.
FinishAll(f) ==
    LET w == flow[f] IN
    /\ w.pc = "copy"
    /\ w.todo = {}
    /\ disk' = IF w.move THEN Without(w.from, DOMAIN w.ren) ELSE disk
    /\ End(f)
    /\ UNCHANGED <<view, ops, faults, tally>>

\* The end: a move deletes by name what it copied, as far as no deletion
\* fails, whatever the name stands for by then.
Finish(f) ==
    LET w == flow[f] IN
    /\ w.pc = "copy"
    /\ w.todo = {}
    /\ IF w.move
       THEN \E gone \in SUBSET (DOMAIN w.done \intersect At(w.from)) :
                /\ IF gone = DOMAIN w.done \intersect At(w.from) THEN UNCHANGED faults ELSE Fault
                /\ disk' = Without(w.from, gone)
                /\ overtaken' = overtaken \union
                       {disk[w.from][n] : n \in {m \in gone : disk[w.from][m] # w.done[m]}}
       ELSE UNCHANGED <<disk, faults, overtaken>>
    /\ End(f)
    /\ UNCHANGED <<view, ops, agreed, silent, unlisted>>

-------------------------------------------------------------------------------
Init ==
    /\ disk = Entries
    /\ panel = Start
    /\ clip = NoClip
    /\ flow = [f \in Flows |-> Free]
    /\ ops = 0 /\ moves = 0 /\ faults = 0
    /\ agreed = {} /\ silent = {} /\ unlisted = {} /\ overtaken = {}

User ==
    \/ \E s \in Sides, p \in Places : Navigate(s, p)
    \/ \E s \in Sides : Take(s, "cut")
    \/ \E s \in Sides : Take(s, "copy")
    \/ \E s \in Sides : PasteBack(s)

Asking(f) ==
    \/ \E s \in Sides, move \in BOOLEAN : FKey(f, s, move)
    \/ \E s \in Sides : Paste(f, s)
    \/ \E s \in Sides : Drop(f, s)
    \/ ScanDone(f)
    \/ ScanFails(f)
    \/ Dismiss(f)
    \/ ConfirmNothing(f)
    \/ Confirm(f)
    \/ ConfirmRenaming(f)
    \/ Listed(f)
    \/ ListFails(f)
    \/ \E overwrite \in BOOLEAN : ReplyOne(f, overwrite) \/ ReplyAll(f, overwrite)
    \/ CancelAsk(f)

Moving(f) ==
    \/ CopyEntry(f)
    \/ ReadFails(f)
    \/ WriteFails(f)
    \/ Retry(f)
    \/ Skip(f)
    \/ Abort(f)
    \/ CancelTransfer(f)
    \/ Finish(f)

Next == User \/ \E f \in Flows : Asking(f) \/ Moving(f)

Spec == Init /\ [][Next]_vars

-------------------------------------------------------------------------------
(* Correctness.                                                              *)

\* Every variable has its type: places hold only known contents, a flow past
\* its confirmation has a destination, and never more names done than scanned.
TypeOK ==
    /\ \A p \in Places : {disk[p][n] : n \in At(p)} \subseteq Contents \union {junk}
    /\ panel \in [Sides -> Places]
    /\ clip = NoClip \/ (clip.from \in Places /\ clip.names # {} /\ clip.kind \in {"cut", "copy"})
    /\ \A f \in Flows :
        /\ flow[f].pc \in {"free", "scan", "stuck", "confirm", "list", "ask", "copy", "error"}
        /\ flow[f].pc \in {"list", "ask", "copy", "error"} =>
               /\ flow[f].to \in Places
               /\ flow[f].todo \subseteq DOMAIN flow[f].ren
        /\ flow[f].pc \in {"copy", "error"} =>
               flow[f].yes \subseteq flow[f].listed /\ flow[f].todo \intersect DOMAIN flow[f].done = {}
    /\ ops \in 0..MaxOps /\ moves \in 0..MaxGestures /\ faults \in 0..MaxFaults
    /\ agreed \union silent \union unlisted \union overtaken \subseteq Contents \union {junk}

Lost == {c \in Contents : Where(disk, c) = {}}

\* Content goes only where something was written over it or its entry was
\* dropped after a failed write, never because a move deleted the last copy
\* (the sweep of execute_transfer and the renames of show_progress_dialog).
ContentKept == Lost \subseteq agreed \union silent \union unlisted \union overtaken

\* What the user declined to overwrite is not touched by the transfer that
\* asked, and its source entry is still there when a move has swept
\* (resolve_conflicts filters the items, execute_transfer sees the rest).  But
\* where entries are pasted beside themselves, one may get the name of another
\* that was gone when plan_names looked.
Declined(w) == {n \in DOMAIN w.ren : w.ren[n] \in w.listed \ w.yes}
Same(p, n) == n \in At(p) => n \in DOMAIN disk'[p] /\ disk'[p][n] = disk[p][n]
NameGiven(w, n) == w.from = w.to /\ \E m \in DOMAIN w.ren \ {n} : w.ren[m] = n
DeclinedStay ==
    [][\A f \in Flows :
        flow'[f] # flow[f] /\ flow[f].pc \in {"copy", "error"} =>
            \A n \in Declined(flow[f]) :
                /\ Same(flow[f].to, flow[f].ren[n])
                /\ Same(flow[f].from, n) \/ NameGiven(flow[f], n)]_vars

===============================================================================
