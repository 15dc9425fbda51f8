------------------------------- MODULE WebTerminal -------------------------------
(***************************************************************************)
(* A terminal of the web server: the shell that prints, the mirror that    *)
(* keeps what it printed and passes it on, the web clients that attach to  *)
(* the mirror, and the events that tell the clients how the panel stands.  *)
(*                                                                         *)
(* The shell's output is a stream of chunks, numbered as they are printed. *)
(* The mirror's task, the handlers of the clients and the loop that owns   *)
(* the shell run on different threads.  One side of the panel is modelled: *)
(* the other has a mirror, a shell and a flag "open" of its own.  The flag *)
(* "expanded" is one for both sides, a side and how it is: two values of   *)
(* that pair are told apart.                                               *)
(***************************************************************************)
EXTENDS Naturals, Sequences

CONSTANTS
    Watchers,       \* clients of the terminal
    Listeners,      \* clients of the events
    RawCapacity,    \* of the shell's broadcast channel
    TapCapacity,    \* of the mirror's
    Scrollback,     \* chunks the mirror keeps
    MaxPrinted,     \* bound on the chunks printed
    MaxAttached,    \* bound on the attachments of a watcher
    MaxAnnounced    \* bound on the announcements

ASSUME TerminalAssumption ==
    {RawCapacity, TapCapacity, Scrollback, MaxPrinted, MaxAttached, MaxAnnounced}
        \subseteq Nat \ {0}

VARIABLES
    shell,          \* the slot: a shell runs
    openings,       \* OpenTerminal commands not yet handled
    printed,        \* chunks sent on the shell's channel
    taken,          \* how far the mirror has read that channel
    mirrored,       \* chunk numbers in the mirror's own order: the index is seq + 1
    dropped,        \* chunks the scrollback has let go
    tapped,         \* chunks passed on to the attached clients
    watch,          \* watch[w]: the attachment of w
    attached,       \* attached[w]: how often w has attached
    flags,          \* reg.term_open
    registry,       \* the sessions registered for events
    gone,           \* listeners whose connection is closed
    news,           \* the tasks that tell everybody, one for each announcement
    announced,      \* announcements made
    greeting,       \* greeting[l]: the flags l is still to be told
    shown,          \* shown[l]: what l shows
    raced           \* <<l, f>>: f changed while l was still to be told an older change

mirrorVars == <<taken, mirrored, dropped, tapped>>
watchVars == <<watch, attached>>
eventVars == <<flags, registry, gone, news, announced, greeting, shown, raced>>
shellVars == <<shell, openings, printed>>
vars == <<shellVars, mirrorVars, watchVars, eventVars>>

Flags == {"open", "expanded"}
States == [Flags -> BOOLEAN]

NotAttached == [phase |-> "off", replay |-> <<>>, from |-> 0, next |-> 0,
                got |-> <<>>, lagged |-> FALSE]
Nothing == [f \in {} |-> FALSE]

-------------------------------------------------------------------------------
(* Events.                                                                   *)

News(f, v) ==
    [no |-> announced + 1, flag |-> f, value |-> v, started |-> FALSE, to |-> {}, dead |-> {}]

\* The task n has yet to tell l: it has not taken the sessions, or not come to l.
Awaits(n, l) == ~n.started \/ l \in n.to

\* A message about f is still on its way to l.
UnderWay(l, f) ==
    \/ f \in DOMAIN greeting[l]
    \/ \E n \in news : n.flag = f /\ Awaits(n, l)

\* History: the clients for whom a change of f comes while an older one is under way.
Race(f) ==
    raced' = {r \in raced : r[2] # f} \union {r \in (Listeners \ gone) \X {f} : UnderWay(r[1], f)}

\* Mutant of Announce: the flag that a new client is greeted with is not set.
AnnounceOnly(f, v) ==
    /\ announced' = announced + 1
    /\ UNCHANGED flags
    /\ news' = news \union {News(f, v)}
    /\ Race(f)

\* terminal_state, terminal_expanded: the flag, then a task that tells everybody.
Announce(f, v) ==
    /\ announced' = announced + 1
    /\ flags' = [flags EXCEPT ![f] = v]
    /\ news' = news \union {News(f, v)}
    /\ Race(f)

\* A client's request to expand or shrink the terminal.
Expand(v) ==
    /\ announced < MaxAnnounced
    /\ Announce("expanded", v)
    /\ UNCHANGED <<shellVars, mirrorVars, watchVars, registry, gone, greeting, shown>>

\* ws_handler: registered and the flags copied under one lock; told later.
Listen(l) ==
    /\ l \notin registry \union gone
    /\ greeting[l] = Nothing
    /\ registry' = registry \union {l}
    /\ greeting' = [greeting EXCEPT ![l] = flags]
    /\ UNCHANGED <<shellVars, mirrorVars, watchVars, flags, gone, news, announced, shown,
                   raced>>

\* The task of ws_handler tells one flag after the other.
Greet(l, f) ==
    /\ f \in DOMAIN greeting[l]
    /\ "open" \in DOMAIN greeting[l] => f = "open"
    /\ shown' = [shown EXCEPT ![l][f] = greeting[l][f]]
    /\ greeting' = [greeting EXCEPT ![l] = [g \in DOMAIN @ \ {f} |-> @[g]]]
    /\ UNCHANGED <<shellVars, mirrorVars, watchVars, flags, registry, gone, news, announced,
                   raced>>

\* One of the tasks goes on; nothing orders one after another.
Becomes(n, m) == news' = (news \ {n}) \union {m}

\* ws_broadcast_json: the sessions registered when the task runs.
Snapshot(n) ==
    /\ ~n.started
    /\ Becomes(n, [n EXCEPT !.started = TRUE, !.to = registry])
    /\ UNCHANGED <<shellVars, mirrorVars, watchVars, flags, registry, gone, announced,
                   greeting, shown, raced>>

\* One session after the other; a closed one is skipped, and removed at the end.
Tell(n, l) ==
    /\ l \in n.to
    /\ \/ /\ l \in gone
          /\ Becomes(n, [n EXCEPT !.to = @ \ {l}, !.dead = @ \union {l}])
          /\ UNCHANGED shown
       \/ /\ l \notin gone
          /\ Becomes(n, [n EXCEPT !.to = @ \ {l}])
          /\ shown' = [shown EXCEPT ![l][n.flag] = n.value]
    /\ UNCHANGED <<shellVars, mirrorVars, watchVars, flags, registry, gone, announced,
                   greeting, raced>>

\* The sessions found closed leave the registry when everybody has been told.
Told(n) ==
    /\ n.started
    /\ n.to = {}
    /\ news' = news \ {n}
    /\ registry' = registry \ n.dead
    /\ UNCHANGED <<shellVars, mirrorVars, watchVars, flags, gone, announced, greeting, shown,
                   raced>>

\* External: a listener's connection closes, and with it what it shows.
StopListening(l) ==
    /\ l \in registry \ gone
    /\ gone' = gone \union {l}
    /\ greeting' = [greeting EXCEPT ![l] = Nothing]
    /\ shown' = [shown EXCEPT ![l] = [f \in Flags |-> FALSE]]
    /\ raced' = {r \in raced : r[1] # l}
    /\ UNCHANGED <<shellVars, mirrorVars, watchVars, flags, registry, news, announced>>

-------------------------------------------------------------------------------
(* The shell.                                                                *)

\* TerminalHub::open: a running shell is kept.
OpenAgain ==
    /\ openings > 0 /\ shell
    /\ openings' = openings - 1
    /\ UNCHANGED <<shell, printed, mirrorVars, watchVars, eventVars>>

OpenShell ==
    /\ openings > 0 /\ ~shell
    /\ announced < MaxAnnounced
    /\ openings' = openings - 1
    /\ shell' = TRUE
    /\ Announce("open", TRUE)
    /\ UNCHANGED <<printed, mirrorVars, watchVars, registry, gone, greeting, shown>>

\* No shell can be started: the message about it is printed in its place.
OpenFails ==
    /\ openings > 0 /\ ~shell
    /\ printed < MaxPrinted
    /\ openings' = openings - 1
    /\ printed' = printed + 1
    /\ UNCHANGED <<shell, mirrorVars, watchVars, eventVars>>

Output ==
    /\ shell
    /\ printed < MaxPrinted
    /\ printed' = printed + 1
    /\ UNCHANGED <<shell, openings, mirrorVars, watchVars, eventVars>>

\* The shell ends: the slot is emptied, and nobody is told.
Exit ==
    /\ shell
    /\ shell' = FALSE
    /\ UNCHANGED <<openings, printed, mirrorVars, watchVars, eventVars>>

-------------------------------------------------------------------------------
(* The mirror.                                                               *)

\* Mutant of Take: the scrollback keeps everything.
TakeKeepingAll ==
    /\ tapped = Len(mirrored)
    /\ taken < printed
    /\ printed - taken <= RawCapacity
    /\ taken' = taken + 1
    /\ mirrored' = Append(mirrored, taken + 1)
    /\ UNCHANGED <<dropped, tapped, shellVars, watchVars, eventVars>>

\* A chunk received: into the scrollback, which lets the oldest go, under its lock.
Take ==
    /\ tapped = Len(mirrored)
    /\ taken < printed
    /\ printed - taken <= RawCapacity
    /\ taken' = taken + 1
    /\ mirrored' = Append(mirrored, taken + 1)
    /\ dropped' = IF Len(mirrored) + 1 - dropped > Scrollback THEN dropped + 1 ELSE dropped
    /\ UNCHANGED <<tapped, shellVars, watchVars, eventVars>>

\* Mutant of FallBehind: the task takes the lag for the end of the channel.
FallBehindAndStop == FALSE

\* Too slow: what the channel no longer holds is lost, the next is the oldest it has.
FallBehind ==
    /\ tapped = Len(mirrored)
    /\ printed - taken > RawCapacity
    /\ taken' = printed - RawCapacity
    /\ UNCHANGED <<mirrored, dropped, tapped, shellVars, watchVars, eventVars>>

\* The chunk goes to the attached clients, outside the lock.
Tap ==
    /\ tapped < Len(mirrored)
    /\ tapped' = tapped + 1
    /\ UNCHANGED <<taken, mirrored, dropped, shellVars, watchVars, eventVars>>

\* attach: the scrollback and the place in the channel, under the lock;
\* terminal_ws_handler then asks for a shell.
Attach(w) ==
    /\ watch[w].phase = "off"
    /\ attached[w] < MaxAttached
    /\ attached' = [attached EXCEPT ![w] = @ + 1]
    /\ watch' = [watch EXCEPT ![w] =
           [NotAttached EXCEPT !.phase = "replay",
                               !.replay = SubSeq(mirrored, dropped + 1, Len(mirrored)),
                               !.from = Len(mirrored),
                               !.next = tapped]]
    /\ openings' = openings + 1
    /\ UNCHANGED <<shell, printed, mirrorVars, eventVars>>

Replay(w) ==
    /\ watch[w].phase = "replay"
    /\ watch' = [watch EXCEPT ![w].phase = "live", ![w].got = watch[w].replay]
    /\ UNCHANGED <<attached, shellVars, mirrorVars, eventVars>>

Behind(w) == tapped - watch[w].next

\* Mutant of Skip: the skipped chunk is sent as well.
SkipNone(w) ==
    /\ watch[w].phase = "live"
    /\ Behind(w) \in 1..TapCapacity
    /\ watch[w].next < watch[w].from
    /\ watch' = [watch EXCEPT ![w].next = @ + 1,
                             ![w].got = Append(@, mirrored[watch[w].next + 1])]
    /\ UNCHANGED <<attached, shellVars, mirrorVars, eventVars>>

\* A chunk of the channel: one that the replay already held is skipped.
Skip(w) ==
    /\ watch[w].phase = "live"
    /\ Behind(w) \in 1..TapCapacity
    /\ watch[w].next < watch[w].from
    /\ watch' = [watch EXCEPT ![w].next = @ + 1]
    /\ UNCHANGED <<attached, shellVars, mirrorVars, eventVars>>

Forward(w) ==
    /\ watch[w].phase = "live"
    /\ Behind(w) \in 1..TapCapacity
    /\ watch[w].next >= watch[w].from
    /\ watch' = [watch EXCEPT ![w].next = @ + 1,
                             ![w].got = Append(@, mirrored[watch[w].next + 1])]
    /\ UNCHANGED <<attached, shellVars, mirrorVars, eventVars>>

\* A client that is too slow loses what the channel no longer holds.
Lag(w) ==
    /\ watch[w].phase = "live"
    /\ Behind(w) > TapCapacity
    /\ watch' = [watch EXCEPT ![w].next = tapped - TapCapacity, ![w].lagged = TRUE]
    /\ UNCHANGED <<attached, shellVars, mirrorVars, eventVars>>

\* The connection is closed; the shell stays.
Detach(w) ==
    /\ watch[w].phase # "off"
    /\ watch' = [watch EXCEPT ![w] = NotAttached]
    /\ UNCHANGED <<attached, shellVars, mirrorVars, eventVars>>

-------------------------------------------------------------------------------
Init ==
    /\ shell = FALSE /\ openings = 0 /\ printed = 0
    /\ taken = 0 /\ mirrored = <<>> /\ dropped = 0 /\ tapped = 0
    /\ watch = [w \in Watchers |-> NotAttached]
    /\ attached = [w \in Watchers |-> 0]
    /\ flags = [f \in Flags |-> FALSE]
    /\ registry = {} /\ gone = {} /\ news = {} /\ announced = 0
    /\ greeting = [l \in Listeners |-> Nothing]
    /\ shown = [l \in Listeners |-> [f \in Flags |-> FALSE]]
    /\ raced = {}

Shell == OpenAgain \/ OpenShell \/ OpenFails \/ Output \/ Exit
Mirror == Take \/ FallBehind \/ Tap
Passes(w) == Replay(w) \/ Skip(w) \/ Forward(w) \/ Lag(w)
Watching(w) == Attach(w) \/ Passes(w) \/ Detach(w)
Listening(l) == Listen(l) \/ StopListening(l) \/ \E f \in Flags : Greet(l, f)
Telling(n) == Snapshot(n) \/ Told(n) \/ \E l \in Listeners : Tell(n, l)

Next ==
    \/ Shell \/ Mirror
    \/ \E n \in news : Telling(n)
    \/ \E v \in BOOLEAN : Expand(v)
    \/ \E w \in Watchers : Watching(w)
    \/ \E l \in Listeners : Listening(l)

\* The mirror's task and the tasks of the clients run as long as the server.
Fairness == WF_vars(Mirror) /\ \A w \in Watchers : WF_vars(Passes(w))

Spec == Init /\ [][Next]_vars /\ Fairness

-------------------------------------------------------------------------------
(* Properties.                                                               *)

TypeOK ==
    /\ shell \in BOOLEAN
    /\ taken <= printed
    /\ Len(mirrored) <= taken
    /\ tapped \in {Len(mirrored), Len(mirrored) - 1}
    /\ Len(mirrored) - dropped <= Scrollback
    /\ \A w \in Watchers : watch[w].next <= tapped /\ watch[w].from <= Len(mirrored)
    /\ flags \in States
    /\ registry \subseteq Listeners
    /\ \A l \in Listeners : shown[l] \in States

\* Attaching while chunks pass through the mirror neither repeats nor loses any: a
\* client that has kept up has a gapless stretch of what the mirror passed on, as far
\* as the channel has been read for it; one that lagged misses chunks, and still
\* gets none twice and none out of order (attach and terminal_ws_handler).
Stretch(s) == \E i \in 0..Len(mirrored) : s = SubSeq(mirrored, i + 1, i + Len(s))
Rising(s) == \A i \in 1..Len(s) - 1 : s[i] < s[i + 1]
Unbroken ==
    \A w \in Watchers : watch[w].phase = "live" =>
        /\ Rising(watch[w].got)
        /\ ~watch[w].lagged => Stretch(watch[w].got)
        /\ watch[w].next > 0 /\ watch[w].next >= watch[w].from /\ ~watch[w].lagged =>
               watch[w].got # <<>> /\ watch[w].got[Len(watch[w].got)] = mirrored[watch[w].next]

\* A connected client to whom nothing about a flag is under way shows it as it stands,
\* whether it connected before or after the change, between the change and the task that
\* tells it, or while others were found closed: except when the flag changed while an
\* older message about it was still on its way to that client.  The tasks run each by
\* itself, so that the older one may come last (ws_handler, ws_broadcast_json).
Informed ==
    \A l \in registry \ gone, f \in Flags :
        ~UnderWay(l, f) /\ <<l, f>> \notin raced => shown[l][f] = flags[f]

\* However slow the mirror or a client is, the last chunk printed reaches every client
\* that stays attached (the Lagged branches of TermMirror::start and of
\* terminal_ws_handler go on with what the channels still hold).
LastSeen ==
    \A w \in Watchers :
        []<>(\/ watch[w].phase = "off"
             \/ printed = 0
             \/ watch[w].got # <<>> /\ watch[w].got[Len(watch[w].got)] = printed)

===============================================================================
