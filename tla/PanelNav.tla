------------------------------- MODULE PanelNav -------------------------------
(***************************************************************************)
(* Where a panel is and how it gets there: RouterState, History and NavPath *)
(* of panel-core, driven through guarded_load of panel-router.             *)
(*                                                                         *)
(* A panel's path is a list of levels, root first.  Every level says which *)
(* file system it is in, where, and of which directory the entries it shows *)
(* are.  Navigation runs as tasks on one thread that interleave wherever a *)
(* task awaits a listing: the panel's own message loop is one task, and    *)
(* keys, drive buttons, finished transfers and the remote API spawn more.  *)
(*                                                                         *)
(* A file system is the base it starts from followed by the archives       *)
(* entered, each by its path in the one before it.  Entries are abstracted *)
(* to the place they were listed from; the cursor and the selection that   *)
(* levels remember are left out.                                           *)
(***************************************************************************)
EXTENDS Integers, Sequences, FiniteSets

CONSTANTS
    Names,          \* directory and archive names
    Archives,       \* the names that open as a file system of their own
    Bases,          \* local, remote, ...: the file systems a panel can show
    Base, Local,    \* base_provider and local_provider of the RouterState
    RootFs,         \* the bases that only list drives
    Networked,      \* the bases whose listings are given up after a while
    Tasks,          \* tasks navigating the panel
    MaxDepth,       \* bound on the names in a path
    MaxRequests,    \* bound on the requests of one behaviour
    MaxOverlapping  \* and of one in which tasks overlap

ASSUME PanelNavAssumption ==
    /\ Archives \subseteq Names
    /\ {Base, Local} \subseteq Bases
    /\ RootFs \subseteq Bases
    /\ Networked \subseteq Bases
    /\ MaxDepth \in Nat
    /\ MaxRequests \in Nat
    /\ MaxOverlapping \in 0..MaxRequests

VARIABLES
    path,           \* RouterState.path
    snapshots,      \* History.snapshots
    index,          \* History.index, counted from 1
    resolving,      \* RouterState.resolving
    phase,          \* phase[t]: what task t awaits
    at,             \* at[t]: the place whose listing it awaits
    want,           \* want[t]: what it does once that listing is there
    bounded,        \* bounded[t]: guarded_load gives up on it after a while
    typed,          \* typed[t]: the address it resolves, and how far it got
    requests,       \* requests so far
    past            \* "overlapped" once two tasks were under way at a time, "given_up"
                    \* once an address being resolved was given up on

history == <<snapshots, index>>
taskVars == <<phase, at, want, bounded, typed>>
vars == <<path, history, resolving, taskVars, requests, past>>

Addresses == UNION {[1..n -> Names] : n \in 0..MaxDepth}
Place(l) == [fs |-> l.fs, rel |-> l.rel]
Nowhere == [fs |-> <<>>, rel |-> <<>>]
NoAddress == [names |-> <<>>, seg |-> 0, origin |-> Base, walk |-> Base]

Active(p) == p[Len(p)]
Display(p) == [i \in 1..(Len(p) - 1) |-> p[i + 1].name]
Loaded(l) == l.listed # Nowhere

RootLevel(b) == [name |-> b, fs |-> <<b>>, rel |-> <<>>, listed |-> Nowhere]

\* build_levels: one pass over the address, starting a new file system after
\* every archive.
Rooted(a, b) ==
    LET pass[i \in 0..Len(a)] ==
          IF i = 0 THEN [fs |-> <<b>>, from |-> 1]
          ELSE IF a[i] \in Archives
          THEN [fs |-> Append(pass[i - 1].fs, SubSeq(a, pass[i - 1].from, i)), from |-> i + 1]
          ELSE pass[i - 1]
    IN  pass

BuildLevels(a, b) ==
    LET pass == Rooted(a, b)
    IN  [i \in 1..(Len(a) + 1) |->
           IF i = 1 THEN RootLevel(b)
           ELSE [name |-> a[i - 1], fs |-> pass[i - 1].fs,
                 rel |-> SubSeq(a, pass[i - 1].from, i - 1), listed |-> Nowhere]]

\* Mutant of Entered: an archive is entered at the path it has outside.
EnteredOutside(l, n) ==
    [name |-> n, fs |-> IF n \in Archives THEN Append(l.fs, Append(l.rel, n)) ELSE l.fs,
     rel |-> Append(l.rel, n), listed |-> Nowhere]

\* Mutant of Entered: the new level starts with the entries of its parent.
EnteredWithEntries(l, n) ==
    IF n \in Archives
    THEN [name |-> n, fs |-> Append(l.fs, Append(l.rel, n)), rel |-> <<>>, listed |-> l.listed]
    ELSE [name |-> n, fs |-> l.fs, rel |-> Append(l.rel, n), listed |-> l.listed]

\* The level that enter pushes for the entry n of level l.
Entered(l, n) ==
    IF n \in Archives
    THEN [name |-> n, fs |-> Append(l.fs, Append(l.rel, n)), rel |-> <<>>, listed |-> Nowhere]
    ELSE [name |-> n, fs |-> l.fs, rel |-> Append(l.rel, n), listed |-> Nowhere]

\* Only the network providers bound the wait; the archive inside one does not.
WaitBounded(l) == Len(l.fs) = 1 /\ l.fs[1] \in Networked

-------------------------------------------------------------------------------
(* History.                                                                  *)

\* What a new snapshot goes after.
Kept == IF snapshots = <<>> THEN <<>> ELSE SubSeq(snapshots, 1, index)

\* Mutant of Record: the same place is recorded again.
RecordAgain(p) ==
    /\ snapshots' = Append(Kept, p)
    /\ index' = Len(snapshots')

\* The same path replaces the current snapshot; another one is pushed after it
\* and drops whatever Forward could reach.
Record(p) ==
    IF index <= Len(snapshots) /\ Display(snapshots[index]) = Display(p)
    THEN /\ snapshots' = [snapshots EXCEPT ![index] = p]
         /\ UNCHANGED index
    ELSE /\ snapshots' = Append(Kept, p)
         /\ index' = Len(snapshots')

CanBack == snapshots # <<>> /\ index > 1
CanForward == index < Len(snapshots)

-------------------------------------------------------------------------------
(* What a task does.                                                         *)

Request(t) ==
    /\ phase[t] = "idle"
    /\ past' = IF \E u \in Tasks : phase[u] # "idle" THEN past \union {"overlapped"} ELSE past
    /\ requests < IF "overlapped" \in past' THEN MaxOverlapping ELSE MaxRequests
    /\ requests' = requests + 1

\* The task has finished, or was dropped.
Idle(t) ==
    /\ phase' = [phase EXCEPT ![t] = "idle"]
    /\ at' = [at EXCEPT ![t] = Nowhere]
    /\ want' = [want EXCEPT ![t] = "show"]
    /\ typed' = [typed EXCEPT ![t] = NoAddress]
    /\ bounded' = [bounded EXCEPT ![t] = FALSE]

\* list_active up to its await: remember the place, ask for its listing.
AwaitListing(t, p, then, limit) ==
    /\ path' = p
    /\ phase' = [phase EXCEPT ![t] = "listing"]
    /\ at' = [at EXCEPT ![t] = Place(Active(p))]
    /\ want' = [want EXCEPT ![t] = then]
    /\ bounded' = [bounded EXCEPT ![t] = limit]
    /\ UNCHANGED typed

\* show_active: entries that are there already are shown without asking again.
Show(t, p, then) ==
    IF Loaded(Active(p))
    THEN /\ path' = p
         /\ IF then = "record" THEN Record(p) ELSE UNCHANGED history
         /\ UNCHANGED taskVars
    ELSE /\ AwaitListing(t, p, then, WaitBounded(Active(path)))
         /\ UNCHANGED history

Refresh(t) ==
    /\ Request(t)
    /\ AwaitListing(t, path, "show", WaitBounded(Active(path)))
    /\ UNCHANGED <<history, resolving>>

Enter(t, n) ==
    /\ Request(t)
    /\ Len(path) <= MaxDepth
    /\ AwaitListing(t, Append(path, Entered(Active(path), n)), "record",
                    WaitBounded(Active(path)))
    /\ UNCHANGED <<history, resolving>>

GoUp(t) ==
    /\ Request(t)
    /\ Len(path) > 1
    /\ Show(t, SubSeq(path, 1, Len(path) - 1), "record")
    /\ UNCHANGED resolving

GoToLevel(t, k) ==
    /\ Request(t)
    /\ Show(t, SubSeq(path, 1, k), "record")
    /\ UNCHANGED resolving

\* Back and Forward put the saved path back and move the index, not the history.
Restore(t, i) ==
    /\ Request(t)
    /\ index' = i
    /\ IF Loaded(Active(snapshots[i]))
       THEN path' = snapshots[i] /\ UNCHANGED taskVars
       ELSE AwaitListing(t, snapshots[i], "show", WaitBounded(Active(path)))
    /\ UNCHANGED <<snapshots, resolving>>

GoBack(t) == CanBack /\ Restore(t, index - 1)
GoForward(t) == CanForward /\ Restore(t, index + 1)

\* mount_provider and open_local_path switch the root at once and spawn the
\* navigation to the address; reset_to_base spawns a listing of the root.
Switch(t, b) ==
    /\ Request(t)
    /\ path' = <<RootLevel(b)>>
    /\ phase' = [phase EXCEPT ![t] = "spawned"]
    /\ \/ /\ \E a \in Addresses : typed' = [typed EXCEPT ![t] = [NoAddress EXCEPT !.names = a]]
          /\ want' = [want EXCEPT ![t] = "type"]
       \/ UNCHANGED <<typed, want>>
    /\ UNCHANGED <<history, resolving, at, bounded>>

RunRelist(t) ==
    /\ phase[t] = "spawned"
    /\ want[t] = "show"
    /\ AwaitListing(t, path, "show", WaitBounded(Active(path)))
    /\ UNCHANGED <<history, resolving, requests, past>>

\* Mutant of ClearHistory: the index stays where it was.
ClearHistoryKeepingIndex ==
    /\ requests < MaxRequests
    /\ requests' = requests + 1
    /\ snapshots' = <<>>
    /\ UNCHANGED <<index, path, resolving, taskVars, past>>

\* Leaving for the source selector forgets the history.
ClearHistory ==
    /\ requests < MaxRequests
    /\ requests' = requests + 1
    /\ snapshots' = <<>>
    /\ index' = 1
    /\ UNCHANGED <<path, resolving, taskVars, past>>

-------------------------------------------------------------------------------
(* navigate_typed: list every prefix of the address, keep the longest one    *)
(* that exists.                                                              *)

WalkBase(b) == IF b \in RootFs THEN Local ELSE b

\* Levels up to segment n replace the path, and the last one is listed.
Commit(t, n, origin, walk, limit) ==
    LET names == SubSeq(typed'[t].names, 1, n)
        p == BuildLevels(names, IF n = 0 THEN origin ELSE walk)
    IN  /\ path' = p
        /\ phase' = [phase EXCEPT ![t] = "listing"]
        /\ at' = [at EXCEPT ![t] = Place(Active(p))]
        /\ want' = [want EXCEPT ![t] = "finish"]
        /\ bounded' = [bounded EXCEPT ![t] = limit]

\* Past the test of `resolving'; a root address has nothing to walk.
Resolve(t, a) ==
    LET origin == path[1].fs[1]
        walk == WalkBase(origin)
        limit == WaitBounded(Active(path))
    IN  /\ resolving' = TRUE
        /\ typed' = [typed EXCEPT ![t] =
                       [names |-> a, seg |-> 1, origin |-> origin, walk |-> walk]]
        /\ IF a = <<>>
           THEN Commit(t, 0, origin, walk, limit)
           ELSE /\ phase' = [phase EXCEPT ![t] = "walk"]
                /\ at' = [at EXCEPT ![t] = Place(Active(BuildLevels(SubSeq(a, 1, 1), walk)))]
                /\ bounded' = [bounded EXCEPT ![t] = limit]
                /\ UNCHANGED <<path, want>>
        /\ UNCHANGED history

NavigateTyped(t, a) ==
    /\ Request(t)
    /\ ~resolving
    /\ Resolve(t, a)

RunTyped(t) ==
    /\ phase[t] = "spawned"
    /\ want[t] = "type"
    /\ ~resolving
    /\ Resolve(t, typed[t].names)
    /\ UNCHANGED <<requests, past>>

\* While another address is being resolved the request is dropped.
RefuseTyped(t) ==
    /\ phase[t] = "spawned"
    /\ want[t] = "type"
    /\ resolving
    /\ Idle(t)
    /\ UNCHANGED <<path, history, resolving, requests, past>>

WalkFound(t) ==
    /\ phase[t] = "walk"
    /\ LET w == typed[t] IN
       IF w.seg < Len(w.names)
       THEN /\ typed' = [typed EXCEPT ![t].seg = w.seg + 1]
            /\ at' = [at EXCEPT ![t] =
                        Place(Active(BuildLevels(SubSeq(w.names, 1, w.seg + 1), w.walk)))]
            /\ UNCHANGED <<path, phase, want, bounded>>
       ELSE /\ UNCHANGED typed
            /\ Commit(t, w.seg, w.origin, w.walk, bounded[t])
    /\ UNCHANGED <<history, resolving, requests, past>>

WalkMissing(t) ==
    /\ phase[t] = "walk"
    /\ UNCHANGED typed
    /\ Commit(t, typed[t].seg - 1, typed[t].origin, typed[t].walk, bounded[t])
    /\ UNCHANGED <<history, resolving, requests, past>>

-------------------------------------------------------------------------------
(* The answer to a listing.                                                  *)

\* The entries go to the level that is active now.
Listed(t) ==
    /\ phase[t] = "listing"
    /\ path' = [path EXCEPT ![Len(path)].listed = at[t]]
    /\ IF want[t] = "show" THEN UNCHANGED history ELSE Record(path')
    /\ resolving' = (resolving /\ want[t] # "finish")
    /\ Idle(t)
    /\ UNCHANGED <<requests, past>>

\* Mutant of ListingFailed: a place that could not be listed is recorded.
ListingFailedRecorded(t) ==
    /\ phase[t] = "listing"
    /\ IF want[t] = "show" THEN UNCHANGED history ELSE Record(path)
    /\ resolving' = (resolving /\ want[t] # "finish")
    /\ Idle(t)
    /\ UNCHANGED <<path, requests, past>>

\* Mutant of ListingFailed: the error escapes before the flag is cleared.
ListingFailedEarly(t) ==
    /\ phase[t] = "listing"
    /\ Idle(t)
    /\ UNCHANGED <<path, history, resolving, requests, past>>

ListingFailed(t) ==
    /\ phase[t] = "listing"
    /\ resolving' = (resolving /\ want[t] # "finish")
    /\ Idle(t)
    /\ UNCHANGED <<path, history, requests, past>>

\* guarded_load stops waiting and drops the task where it stands.
TimedOut(t) ==
    /\ phase[t] \in {"listing", "walk"}
    /\ bounded[t]
    /\ Idle(t)
    /\ past' = IF phase[t] = "walk" \/ want[t] = "finish" THEN past \union {"given_up"} ELSE past
    /\ UNCHANGED <<path, history, resolving, requests>>

-------------------------------------------------------------------------------
Init ==
    /\ path = <<RootLevel(Base)>>
    /\ snapshots = <<>>
    /\ index = 1
    /\ resolving = FALSE
    /\ phase = [t \in Tasks |-> "idle"]
    /\ at = [t \in Tasks |-> Nowhere]
    /\ want = [t \in Tasks |-> "show"]
    /\ bounded = [t \in Tasks |-> FALSE]
    /\ typed = [t \in Tasks |-> NoAddress]
    /\ requests = 0
    /\ past = {}

Ask(t) ==
    \/ Refresh(t) \/ GoUp(t) \/ GoBack(t) \/ GoForward(t)
    \/ \E n \in Names : Enter(t, n)
    \/ \E k \in 1..Len(path) : GoToLevel(t, k)
    \/ \E b \in Bases : Switch(t, b)
    \/ \E a \in Addresses : NavigateTyped(t, a)

Answer(t) ==
    \/ RunRelist(t) \/ RunTyped(t) \/ RefuseTyped(t)
    \/ WalkFound(t) \/ WalkMissing(t)
    \/ Listed(t) \/ ListingFailed(t)

Next ==
    \/ ClearHistory
    \/ \E t \in Tasks : Ask(t) \/ Answer(t) \/ TimedOut(t)

Spec == Init /\ [][Next]_vars

-------------------------------------------------------------------------------
TypeOK ==
    /\ path # <<>>
    /\ \A i \in 1..Len(path) : path[i].rel \in Seq(Names) /\ path[i].name \in Names \union Bases
    /\ index \in 1..(Len(snapshots) + 1)
    /\ resolving \in BOOLEAN
    /\ phase \in [Tasks -> {"idle", "spawned", "listing", "walk"}]
    /\ want \in [Tasks -> {"show", "record", "type", "finish"}]
    /\ bounded \in [Tasks -> BOOLEAN]
    /\ \A t \in Tasks : typed[t].names \in Addresses
    /\ requests \in 0..MaxRequests
    /\ past \subseteq {"overlapped", "given_up"}

\* What typing the address of path p commits, as Commit has it.
Typing(p) ==
    BuildLevels(Display(p), IF Len(p) = 1 THEN p[1].fs[1] ELSE WalkBase(p[1].fs[1]))

AsTyped(p) ==
    LET built == Typing(p) IN
    \A i \in 1..Len(p) :
        /\ p[i].rel = built[i].rel
        /\ Tail(p[i].fs) = Tail(built[i].fs)
        /\ p[1].fs[1] \notin RootFs => p[i].fs = built[i].fs

\* Stepping into a child, going up, jumping to a level and going back land on
\* the levels that typing the full address would build, whatever archives lie
\* on the way and whatever tasks interleave: at the same relative paths, in the
\* same archives and in the same file system.  But on a list of drives, where
\* enter stays in the list and navigate_typed goes to the local file system,
\* the bases differ.
LevelsAsTyped ==
    /\ AsTyped(path)
    /\ \A i \in 1..Len(snapshots) : AsTyped(snapshots[i])

\* The history never holds the same path twice in a row, so one Back always
\* moves the panel, and its index stays on a snapshot.
HistoryMoves ==
    /\ snapshots # <<>> => index \in 1..Len(snapshots)
    /\ \A i \in 1..(Len(snapshots) - 1) : Display(snapshots[i]) # Display(snapshots[i + 1])

\* As long as tasks came one after the other, the entries a level shows are the entries
\* of its place, whatever was given up on or failed before (list_active).
EntriesOfLevel ==
    "overlapped" \notin past =>
        \A i \in 1..Len(path) : Loaded(path[i]) => path[i].listed = Place(path[i])

\* And every place in the history was listed when it was recorded: Back and Forward
\* show it without asking again.
HistoryListed ==
    "overlapped" \notin past => \A i \in 1..Len(snapshots) : Loaded(Active(snapshots[i]))

\* A typed address is only ignored while another one is being resolved: the
\* flag is up only as long as some task will take it down.
TypedOnlyWhileResolving ==
    resolving => \E t \in Tasks :
        phase[t] = "walk" \/ (phase[t] = "listing" /\ want[t] = "finish")

\* Nothing but a time-out in the middle of an address leaves the flag up.
TypedUnlessGivenUp == "given_up" \in past \/ TypedOnlyWhileResolving

===============================================================================
