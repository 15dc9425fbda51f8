-------------------------------- MODULE PanelApi --------------------------------
(***************************************************************************)
(* The commands by which web clients work on the files of the two panels.  *)
(* A client shows the panels as they were when it last heard of them; its  *)
(* commands carry paths, and the file system they are about is the one the *)
(* panel stands on when the command is handled.  Every command is a task   *)
(* of its own, and nobody is asked about anything.                         *)
(*                                                                         *)
(* The backends of the desktop and of the web server do the same; only the *)
(* desktop lists its transfers, so that they can be cancelled.             *)
(***************************************************************************)
EXTENDS Naturals, Sequences, FiniteSets, Functions

CONSTANTS
    Clients,
    Systems, Dirs, Names,
    Contents,       \* what the entries hold at the start
    Drafts,         \* those of them that clients write as well
    none, junk,     \* no entry; one written in part
    FirstTree,      \* the entries at the start
    FirstStand,     \* where the panels stand at the start
    MaxCommands,    \* bound on the commands sent
    MaxHops         \* bound on the navigations

Panels == {"left", "right"}
Other(s) == IF s = "left" THEN "right" ELSE "left"

Stands == Systems \X Dirs
Paths == Dirs \X Names
Files == Systems \X Paths

ASSUME ApiAssumption ==
    /\ Drafts \subseteq Contents
    /\ none \notin Contents /\ junk \notin Contents /\ none # junk
    /\ FirstTree \in [Files -> Contents \union {none}]
    /\ \A c \in Contents : \E f \in Files : FirstTree[f] = c
    /\ FirstStand \in [Panels -> Stands]
    /\ {MaxCommands, MaxHops} \subseteq Nat

VARIABLES
    tree,           \* what stands at each file of each system
    stand,          \* stand[s]: file system and folder of panel s
    been,           \* been[s]: everywhere panel s has stood
    seen,           \* seen[c][s]: where client c shows panel s
    commands,       \* the commands sent, one record each
    hops,           \* navigations made
    asked,          \* contents deleted by a client's Delete
    replaced,       \* contents written over, or renamed over
    crossed,        \* contents written where a move was about to delete them
    unread          \* contents a move deleted that were not what it had read

losses == <<asked, replaced, crossed, unread>>
panels == <<stand, been>>
apiVars == <<tree, panels, seen, commands, hops, losses>>

Transfers == {"copy", "move"}

\* The file the task works on, and the one it writes to.
Current(r) == <<r.from, Head(r.paths)>>
Target(r) ==
    IF r.kind = "rename" THEN <<r.from, <<Head(r.paths)[1], r.name>>>>
    ELSE <<r.to[1], <<r.to[2], Head(r.paths)[2]>>>>

\* The task touches f, in what should be the folder of panel s.
Stand(f) == <<f[1], f[2][1]>>
Touch(r, s, f) == [r EXCEPT !.touched = @ \union {<<s, Stand(f)>>}]
Empties(r) == Touch(r, r.side, Current(r))
Fills(r) == Touch(r, IF r.kind \in Transfers THEN Other(r.side) ELSE r.side, Target(r))

\* Of a command that has ended, what it meant and what it touched is remembered.
Ended(r) == [phase |-> "done", meant |-> r.meant, astray |-> r.astray, touched |-> r.touched]
Onward(r) ==
    IF Tail(r.paths) = <<>> THEN Ended(r)
    ELSE [r EXCEPT !.phase = "items", !.paths = Tail(@), !.data = none]

\* What moves are about to delete as their copy of c, with the commands cs.
Doomed(cs, c) ==
    {Current(cs[k]) : k \in {j \in DOMAIN cs : cs[j].phase = "remove" /\ cs[j].data = c}}

\* c is written to f, where t is what stands elsewhere.
Put(t, f, c) ==
    /\ tree' = [t EXCEPT ![f] = c]
    /\ replaced' = replaced \union ({tree[f]} \ {c, none, junk})
    /\ crossed' = crossed \union (IF f \in Doomed(commands', c) THEN {c} ELSE {})
    /\ UNCHANGED <<asked, unread>>

-------------------------------------------------------------------------------
(* The clients.                                                              *)

\* An update says where the panel stood; each is sent by a task of its own, and may
\* be overtaken.  The client forgets what was selected: a selection is of what it shows.
Hear(c, s) ==
    /\ \E p \in been[s] \ {seen[c][s]} : seen' = [seen EXCEPT ![c][s] = p]
    /\ UNCHANGED <<tree, panels, commands, hops, losses>>

Listed(p) == {n \in Names : tree[<<p[1], <<p[2], n>>>>] # none}

\* The entries selected in a panel, in the order of the clicks.
Selections(p) ==
    {q \in UNION {[1..k -> {p[2]} \X Listed(p)] : k \in 1..Cardinality(Listed(p))} :
         IsInjective(q)}

Send(c, kind, s, paths, name, data) ==
    /\ Len(commands) < MaxCommands
    /\ commands' = Append(commands,
           [kind |-> kind, side |-> s, paths |-> paths, name |-> name, data |-> data,
            meant |-> seen[c], phase |-> "sent",
            from |-> seen[c][s][1], to |-> seen[c][Other(s)],
            cancelled |-> FALSE, astray |-> FALSE, touched |-> {}])
    /\ UNCHANGED <<tree, panels, seen, hops, losses>>

\* handleCopy, handleMove, handleDeleteConfirm.
SendPaths(c, s) ==
    \E kind \in Transfers \union {"delete"}, q \in Selections(seen[c][s]) :
        Send(c, kind, s, q, Head(q)[2], none)

SendRename(c, s) ==
    \E n \in Listed(seen[c][s]), m \in Names :
        Send(c, "rename", s, << <<seen[c][s][2], n>> >>, m, none)

\* A text saved in the viewer, a file dropped on the panel.
SendFile(c, s) ==
    \E n \in Names, d \in Drafts :
        Send(c, "write", s, << <<seen[c][s][2], n>> >>, n, d)

\* cancel_operation: while the transfer is listed.
Cancel(k) ==
    /\ commands[k].phase \in {"items", "write", "remove"}
    /\ commands[k].kind \in Transfers
    /\ ~commands[k].cancelled
    /\ commands' = [commands EXCEPT ![k].cancelled = TRUE]
    /\ UNCHANGED <<tree, panels, seen, hops, losses>>

\* Any command or gesture that takes a panel somewhere else.
Navigate(s, p) ==
    /\ hops < MaxHops /\ p # stand[s]
    /\ hops' = hops + 1
    /\ stand' = [stand EXCEPT ![s] = p]
    /\ been' = [been EXCEPT ![s] = @ \union {p}]
    /\ UNCHANGED <<tree, seen, commands, losses>>

-------------------------------------------------------------------------------
(* The tasks.                                                                *)

\* dispatch_core: answered at once, and the providers and the folder taken.
Handle(k) ==
    /\ commands[k].phase = "sent"
    /\ LET r == commands[k]
           s == r.side
           o == Other(s)
       IN
       commands' = [commands EXCEPT ![k] =
           [r EXCEPT !.phase = "items",
                     !.from = stand[s][1],
                     !.to = IF r.kind \in Transfers THEN stand[o] ELSE <<stand[s][1], Head(r.paths)[1]>>,
                     !.astray = \/ stand[s] # r.meant[s]
                                \/ r.kind \in Transfers /\ stand[o] # r.meant[o]]]
    /\ UNCHANGED <<tree, panels, seen, hops, losses>>

Working(k, kinds, phase) == commands[k].phase = phase /\ commands[k].kind \in kinds

Becomes(k, r) == commands' = [commands EXCEPT ![k] = r] /\ UNCHANGED <<panels, seen, hops>>

\* transfer_batch: the flag is read before each item.
Stop(k) ==
    /\ Working(k, Transfers, "items") /\ commands[k].cancelled
    /\ Becomes(k, Ended(commands[k]))
    /\ UNCHANGED <<tree, losses>>

\* What a reader may find of a file that another task is writing.
HalfWritten(f) ==
    IF \E j \in DOMAIN commands :
           Working(j, Transfers, "write") /\ Target(commands[j]) = f
    THEN {junk} ELSE {}

Read(k) ==
    /\ Working(k, Transfers, "items") /\ ~commands[k].cancelled
    /\ LET f == Current(commands[k]) IN
       \E d \in ({tree[f]} \ {none}) \union HalfWritten(f) :
           Becomes(k, [commands[k] EXCEPT !.phase = "write", !.data = d])
    /\ UNCHANGED <<tree, losses>>

\* Not there any more, a folder, or an error: on to the next item.
ReadFails(k) ==
    /\ Working(k, Transfers, "items") /\ ~commands[k].cancelled
    /\ Becomes(k, Onward(commands[k]))
    /\ UNCHANGED <<tree, losses>>

\* Mutant of Write: the folder of the destination is looked up for every item.
WriteWhereItIs(k) ==
    LET r == [commands[k] EXCEPT !.to = stand[Other(commands[k].side)]]
        w == Fills(r)
    IN
    /\ Working(k, Transfers, "write")
    /\ Becomes(k, IF r.kind = "move" THEN [w EXCEPT !.phase = "remove"] ELSE Onward(w))
    /\ Put(tree, Target(r), r.data)

Write(k) ==
    LET r == commands[k]
        w == Fills(r)
    IN
    /\ Working(k, Transfers, "write")
    /\ Becomes(k, IF r.kind = "move" THEN [w EXCEPT !.phase = "remove"] ELSE Onward(w))
    /\ Put(tree, Target(r), r.data)

\* Mutant of WriteFails: the source is deleted all the same.
WriteFailsUnnoticed(k) ==
    LET r == commands[k]
        w == Fills(r)
    IN
    /\ Working(k, Transfers, "write")
    /\ Becomes(k, IF r.kind = "move" THEN [w EXCEPT !.phase = "remove"] ELSE Onward(w))
    /\ UNCHANGED <<tree, losses>> \/ Put(tree, Target(r), junk)

\* Nothing, or an entry written in part, is left behind.
WriteFails(k) ==
    LET r == commands[k] IN
    /\ Working(k, Transfers, "write")
    /\ Becomes(k, Onward(Fills(r)))
    /\ UNCHANGED <<tree, losses>> \/ Put(tree, Target(r), junk)

\* transfer_one, after the write of a move: whatever stands there now goes.
Remove(k) ==
    LET r == commands[k] IN
    /\ Working(k, {"move"}, "remove")
    /\ tree[Current(r)] # none
    /\ tree' = [tree EXCEPT ![Current(r)] = none]
    /\ unread' = unread \union ({tree[Current(r)]} \ {r.data, junk})
    /\ Becomes(k, Onward(Empties(r)))
    /\ UNCHANGED <<asked, replaced, crossed>>

RemoveFails(k) ==
    /\ Working(k, {"move"}, "remove")
    /\ Becomes(k, Onward(commands[k]))
    /\ UNCHANGED <<tree, losses>>

Delete(k) ==
    LET r == commands[k] IN
    /\ Working(k, {"delete"}, "items")
    /\ tree[Current(r)] # none
    /\ tree' = [tree EXCEPT ![Current(r)] = none]
    /\ asked' = asked \union ({tree[Current(r)]} \ {junk})
    /\ Becomes(k, Onward(Empties(r)))
    /\ UNCHANGED <<replaced, crossed, unread>>

\* The first entry that cannot be deleted ends the command.
DeleteFails(k) ==
    /\ Working(k, {"delete"}, "items")
    /\ Becomes(k, Ended(commands[k]))
    /\ UNCHANGED <<tree, losses>>

\* The entry takes the new name, whatever had it.
Rename(k) ==
    LET r == commands[k] IN
    /\ Working(k, {"rename"}, "items")
    /\ tree[Current(r)] # none /\ Target(r) # Current(r)
    /\ Becomes(k, Ended(Empties(r)))
    /\ Put([tree EXCEPT ![Current(r)] = none], Target(r), tree[Current(r)])

Save(k) ==
    LET r == commands[k] IN
    /\ Working(k, {"write"}, "items")
    /\ Becomes(k, Ended(Fills(r)))
    /\ Put(tree, Target(r), r.data)

\* A rename or a write that fails; of a write, part may stand there.
EditFails(k) ==
    LET r == commands[k] IN
    /\ Working(k, {"rename", "write"}, "items")
    /\ Becomes(k, Ended(Fills(r)))
    /\ \/ UNCHANGED <<tree, losses>>
       \/ r.kind = "write" /\ Put(tree, Target(r), junk)

-------------------------------------------------------------------------------
ApiInit ==
    /\ tree = FirstTree
    /\ stand = FirstStand /\ been = [s \in Panels |-> {FirstStand[s]}]
    /\ seen = [c \in Clients |-> FirstStand]
    /\ commands = <<>> /\ hops = 0
    /\ asked = {} /\ replaced = {} /\ crossed = {} /\ unread = {}

Client(c, s) == Hear(c, s) \/ SendPaths(c, s) \/ SendRename(c, s) \/ SendFile(c, s)

Transfer(k) ==
    \/ Stop(k) \/ Read(k) \/ ReadFails(k)
    \/ Write(k) \/ WriteFails(k)
    \/ Remove(k) \/ RemoveFails(k)

Edit(k) == Delete(k) \/ DeleteFails(k) \/ Rename(k) \/ Save(k) \/ EditFails(k)

ApiNext ==
    \/ \E c \in Clients, s \in Panels : Client(c, s)
    \/ \E s \in Panels, p \in Stands : Navigate(s, p)
    \/ \E k \in DOMAIN commands : Cancel(k) \/ Handle(k) \/ Transfer(k) \/ Edit(k)

ApiSpec == ApiInit /\ [][ApiNext]_apiVars

-------------------------------------------------------------------------------
(* Properties.                                                               *)

Underway ==
    [kind : Transfers \union {"delete", "rename", "write"}, side : Panels,
     paths : Seq(Paths) \ {<<>>}, name : Names, data : Contents \union {none, junk},
     meant : [Panels -> Stands],
     phase : {"sent", "items", "write", "remove"},
     from : Systems, to : Stands,
     cancelled : BOOLEAN, astray : BOOLEAN, touched : SUBSET (Panels \X Stands)]
Over ==
    [phase : {"done"}, meant : [Panels -> Stands], astray : BOOLEAN, touched : SUBSET (Panels \X Stands)]

ApiTypeOK ==
    /\ tree \in [Files -> Contents \union {none, junk}]
    /\ stand \in [Panels -> Stands]
    /\ been \in [Panels -> SUBSET Stands]
    /\ seen \in [Clients -> [Panels -> Stands]]
    /\ commands \in Seq(Underway \union Over)
    /\ hops \in 0..MaxHops

\* Whatever the tasks of several commands do between one another's reading,
\* writing and deleting, a content is gone only if a client deleted it, if
\* something was put in its place, if it was put back where a move was about to
\* delete it, or if it arrived there after the move had read (transfer_one and
\* the loops of ConsoleBackend delete only what they have written).
NothingLost ==
    \A c \in Contents :
        (\A f \in Files : tree[f] # c) => c \in asked \union replaced \union crossed \union unread

\* A command works in the folders its client showed when it was sent, however long
\* it takes and wherever the panels go meanwhile, unless a panel stood somewhere
\* else by the time the command was handled.
NotAstray ==
    \A k \in DOMAIN commands :
        ~commands[k].astray =>
            \A t \in commands[k].touched : t[2] = commands[k].meant[t[1]]

===============================================================================
