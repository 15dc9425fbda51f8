---------------------------- MODULE TorrentSession ----------------------------
(***************************************************************************)
(* Torrents opened as folders: the engine of virtualfs/torrent_session.rs, *)
(* the calls of the torrent toolbar (Start, Stop, Clean up) and the timers *)
(* that close a torrent some time after the last panel has left it.        *)
(*                                                                         *)
(* The engine is one mutex around a map from torrent paths to what the     *)
(* library session manages for them, and around the count of open views of *)
(* each path.  A call releases the mutex wherever it awaits the library, so *)
(* calls and timers interleave there; what happens under one locking of    *)
(* the mutex is one step.  The calls run on the GUI thread, the timers on  *)
(* the threads of the runtime.                                             *)
(*                                                                         *)
(* The library session is external: it manages torrents under ids of its   *)
(* own and refuses a second one with the same content.  Peers, pieces and  *)
(* the selection of files are left out.                                    *)
(***************************************************************************)
EXTENDS Naturals, FiniteSets

CONSTANTS
    Torrents,       \* paths of torrent files
    Contents,       \* what a torrent file describes
    Info,           \* Info[t]: the content of torrent t; copies share it
    Calls,          \* toolbar calls that can be under way at a time
    MaxViews,       \* bound on the open views of one torrent
    MaxTimers,      \* bound on the pending timers of one torrent
    MaxIds          \* bound on the torrents ever added to the session

Ids == 1..MaxIds
NoId == 0

\* What a variable holds before it names a torrent.
Unset == CHOOSE t \in Torrents : TRUE

ASSUME TorrentAssumption ==
    /\ Torrents # {}
    /\ Info \in [Torrents -> Contents]
    /\ {MaxViews, MaxTimers, MaxIds} \subseteq Nat
    /\ NoId \notin Ids

VARIABLES
    refs,           \* Engine.refs: how many views of the torrent are open
    torrents,       \* Engine.torrents: the id it is managed under, or NoId
    frozen,         \* the GUI thread waits for the mutex it holds
    runtime,        \* Engine.session and Engine.runtime are there
    timers,         \* timers[t]: timers waiting out CLOSE_GRACE
    closing,        \* ids a timer has taken out of the map to delete
    phase, on, hand,    \* each call: where it is, its torrent, the id it has
    session, live,  \* the library: managed ids, and those not paused
    of, last,       \* of[i]: the torrent id i was given to; last: ids given
    data            \* torrents whose data folder exists

engine == <<refs, torrents, frozen, runtime>>
timing == <<timers, closing>>
calls == <<phase, on, hand>>
library == <<session, live, of, last>>
vars == <<engine, timing, calls, library, data>>

-------------------------------------------------------------------------------
(* Views: a TorrentFileSystemRpc is made and dropped.                        *)

\* acquire
Acquire(t) ==
    /\ ~frozen
    /\ refs[t] < MaxViews
    /\ refs' = [refs EXCEPT ![t] = @ + 1]
    /\ UNCHANGED <<torrents, frozen, runtime, timing, calls, library, data>>

\* Mutant of Release: a view that was dropped before is dropped again.
ReleaseAgain(t) ==
    /\ ~frozen
    /\ refs' = [refs EXCEPT ![t] = @ - 1]
    /\ UNCHANGED <<torrents, frozen, runtime, timing, calls, library, data>>

\* release: the last view leaves a timer behind, once there is a session.
Release(t) ==
    /\ ~frozen
    /\ refs[t] > 0
    /\ refs' = [refs EXCEPT ![t] = @ - 1]
    /\ IF refs[t] = 1 /\ runtime
       THEN timers[t] < MaxTimers /\ timers' = [timers EXCEPT ![t] = @ + 1]
       ELSE UNCHANGED timers
    /\ UNCHANGED <<torrents, frozen, runtime, closing, calls, library, data>>

\* A timer runs out: it looks at the count once, then takes the torrent out of
\* the map.
Fire(t) ==
    /\ ~frozen
    /\ timers[t] > 0
    /\ timers' = [timers EXCEPT ![t] = @ - 1]
    /\ IF refs[t] = 0 /\ torrents[t] # NoId
       THEN /\ torrents' = [torrents EXCEPT ![t] = NoId]
            /\ closing' = closing \union {torrents[t]}
       ELSE UNCHANGED <<torrents, closing>>
    /\ UNCHANGED <<refs, frozen, runtime, calls, library, data>>

\* Mutant of DeleteClosed: the files go as well.
DeleteClosedWithFiles ==
    \E i \in closing :
       /\ closing' = closing \ {i}
       /\ session' = session \ {i}
       /\ live' = live \ {i}
       /\ data' = data \ {of[i]}
       /\ UNCHANGED <<engine, timers, calls, of, last>>

\* session.delete(id, false), with the mutex released.
DeleteClosed ==
    \E i \in closing :
       /\ closing' = closing \ {i}
       /\ session' = session \ {i}
       /\ live' = live \ {i}
       /\ UNCHANGED <<engine, timers, calls, of, last, data>>

-------------------------------------------------------------------------------
(* The toolbar of a panel that shows torrent t.                              *)

Begin(c, t, p, i) ==
    /\ phase' = [phase EXCEPT ![c] = p]
    /\ on' = [on EXCEPT ![c] = t]
    /\ hand' = [hand EXCEPT ![c] = i]

\* The call is over and its locals are gone.
Return(c) == Begin(c, Unset, "idle", NoId)

\* The toolbar looks once a second which button makes sense: either may be clicked
\* whether the torrent is paused or not.
Clicked(c, t) ==
    /\ ~frozen
    /\ phase[c] = "idle"
    /\ refs[t] > 0

\* start of a torrent that is not in the map.
Start(c, t) ==
    /\ Clicked(c, t)
    /\ torrents[t] = NoId
    /\ Begin(c, t, "session", NoId)
    /\ UNCHANGED <<engine, timing, library, data>>

\* start of a torrent that is in the map: the guard that `if let' keeps is held to
\* the end of its block, which locks the mutex a second time.
Resume(c, t) ==
    /\ Clicked(c, t)
    /\ torrents[t] # NoId
    /\ Begin(c, t, "locking", NoId)
    /\ frozen' = TRUE
    /\ UNCHANGED <<refs, torrents, runtime, timing, library, data>>

\* ensure_session, then the data folder.
EnsureSession(c) ==
    /\ ~frozen
    /\ phase[c] = "session"
    /\ runtime' = TRUE
    /\ data' = data \union {on[c]}
    /\ phase' = [phase EXCEPT ![c] = "add"]
    /\ UNCHANGED <<refs, torrents, frozen, timing, on, hand, library>>

\* The session or the folder cannot be made, or the torrent is not accepted.
StartFails(c) ==
    /\ ~frozen
    /\ phase[c] \in {"session", "add"}
    /\ Return(c)
    /\ UNCHANGED <<engine, timing, library, data>>

Managed(x) == \E i \in session : Info[of[i]] = x

\* add_torrent: the same content is never managed twice.
AddTorrent(c) ==
    /\ ~frozen
    /\ phase[c] = "add"
    /\ ~Managed(Info[on[c]])
    /\ last < MaxIds
    /\ last' = last + 1
    /\ session' = session \union {last'}
    /\ live' = live \union {last'}
    /\ of' = [of EXCEPT ![last'] = on[c]]
    /\ hand' = [hand EXCEPT ![c] = last']
    /\ phase' = [phase EXCEPT ![c] = "insert"]
    /\ UNCHANGED <<engine, timing, on, data>>

Insert(c) ==
    /\ ~frozen
    /\ phase[c] = "insert"
    /\ torrents' = [torrents EXCEPT ![on[c]] = hand[c]]
    /\ Return(c)
    /\ UNCHANGED <<refs, frozen, runtime, timing, library, data>>

Stop(c, t) ==
    /\ Clicked(c, t)
    /\ torrents[t] # NoId
    /\ Begin(c, t, "pause", torrents[t])
    /\ UNCHANGED <<engine, timing, library, data>>

\* One of the attempts pauses it; or it is gone, or they all fail.
Pause(c) ==
    /\ ~frozen
    /\ phase[c] = "pause"
    /\ live' \in {live, live \ {hand[c]}}
    /\ Return(c)
    /\ UNCHANGED <<engine, timing, session, of, last, data>>

\* Mutant of Cleanup: the torrent leaves the map and stays in the session.
CleanupForgetting(c, t) ==
    /\ Clicked(c, t)
    /\ torrents' = [torrents EXCEPT ![t] = NoId]
    /\ Begin(c, t, "wipe", NoId)
    /\ UNCHANGED <<refs, frozen, runtime, timing, library, data>>

Cleanup(c, t) ==
    /\ Clicked(c, t)
    /\ torrents' = [torrents EXCEPT ![t] = NoId]
    /\ IF torrents[t] # NoId
       THEN Begin(c, t, "delete", torrents[t])
       ELSE Begin(c, t, "wipe", NoId)
    /\ UNCHANGED <<refs, frozen, runtime, timing, library, data>>

\* session.delete(id, true): its failure to remove the files is ignored.
DeleteCleaned(c) ==
    /\ ~frozen
    /\ phase[c] = "delete"
    /\ session' = session \ {hand[c]}
    /\ live' = live \ {hand[c]}
    /\ data' \in {data, data \ {on[c]}}
    /\ phase' = [phase EXCEPT ![c] = "wipe"]
    /\ hand' = [hand EXCEPT ![c] = NoId]
    /\ UNCHANGED <<engine, timing, on, of, last>>

\* remove_dir_all, with its failure.
Wipe(c) ==
    /\ ~frozen
    /\ phase[c] = "wipe"
    /\ data' \in {data, data \ {on[c]}}
    /\ Return(c)
    /\ UNCHANGED <<engine, timing, library>>

\* The window closes, shutdown drops everything and the process ends; the next
\* one starts with the files that are there.
Quit ==
    /\ ~frozen
    /\ refs' = [t \in Torrents |-> 0]
    /\ torrents' = [t \in Torrents |-> NoId]
    /\ runtime' = FALSE
    /\ timers' = [t \in Torrents |-> 0]
    /\ closing' = {}
    /\ phase' = [c \in Calls |-> "idle"]
    /\ on' = [c \in Calls |-> Unset]
    /\ hand' = [c \in Calls |-> NoId]
    /\ session' = {}
    /\ live' = {}
    /\ UNCHANGED <<frozen, of, last, data>>

-------------------------------------------------------------------------------
Init ==
    /\ refs = [t \in Torrents |-> 0]
    /\ torrents = [t \in Torrents |-> NoId]
    /\ frozen = FALSE
    /\ runtime = FALSE
    /\ timers = [t \in Torrents |-> 0]
    /\ closing = {}
    /\ phase = [c \in Calls |-> "idle"]
    /\ on = [c \in Calls |-> Unset]
    /\ hand = [c \in Calls |-> NoId]
    /\ session = {}
    /\ live = {}
    /\ of = [i \in Ids |-> Unset]
    /\ last = 0
    /\ data \in SUBSET Torrents

View(t) == Acquire(t) \/ Release(t)

Click(c, t) == Start(c, t) \/ Resume(c, t) \/ Stop(c, t) \/ Cleanup(c, t)

Continue(c) ==
    \/ EnsureSession(c) \/ AddTorrent(c) \/ StartFails(c) \/ Insert(c)
    \/ Pause(c)
    \/ DeleteCleaned(c) \/ Wipe(c)

Timer == DeleteClosed \/ \E t \in Torrents : Fire(t)

Next ==
    \/ \E t \in Torrents : View(t)
    \/ \E c \in Calls, t \in Torrents : Click(c, t)
    \/ \E c \in Calls : Continue(c)
    \/ Timer
    \/ Quit

Spec == Init /\ [][Next]_vars

\* The GUI thread and the runtime run what is ready.
FairSpec == Spec /\ WF_vars(Timer) /\ \A c \in Calls : WF_vars(Continue(c))

-------------------------------------------------------------------------------
TypeOK ==
    /\ refs \in [Torrents -> 0..MaxViews]
    /\ torrents \in [Torrents -> Ids \union {NoId}]
    /\ frozen \in BOOLEAN /\ runtime \in BOOLEAN
    /\ timers \in [Torrents -> 0..MaxTimers]
    /\ closing \subseteq Ids
    /\ phase \in [Calls -> {"idle", "session", "add", "insert", "locking",
                            "pause", "delete", "wipe"}]
    /\ on \in [Calls -> Torrents]
    /\ hand \in [Calls -> Ids \union {NoId}]
    /\ session \subseteq Ids
    /\ live \subseteq session
    /\ of \in [Ids -> Torrents]
    /\ last \in 0..MaxIds
    /\ data \subseteq Torrents

\* Who can still reach a managed torrent: the map, a timer that closes it, or
\* a call that is about to put it into the map or to delete it.
Mapped(i) == \E t \in Torrents : torrents[t] = i
InHand(i) == \E c \in Calls : hand[c] = i /\ phase[c] \in {"insert", "delete"}

\* Whatever way starting, cleaning up and closing interleave, no torrent goes
\* on in the session that nothing will ever stop: each one is in the map, or
\* in the hands of the call or the timer that is working on it.
NothingOrphaned ==
    \A i \in session : Mapped(i) \/ i \in closing \/ InHand(i)

\* The map has a torrent only under the id the session manages for that very
\* path, and nobody else is about to delete it.
NothingDangling ==
    \A t \in Torrents : torrents[t] # NoId =>
        /\ torrents[t] \in session
        /\ of[torrents[t]] = t
        /\ torrents[t] \notin closing
        /\ ~InHand(torrents[t])

\* Managed torrents, the map and those who work on it agree about one another.
Accounted == NothingOrphaned /\ NothingDangling

\* Downloaded data goes only when the user cleans up that torrent: closing it,
\* stopping it and quitting keep the folder.
DataKept ==
    [][\A t \in data \ data' :
         \E c \in Calls : on[c] = t /\ phase[c] \in {"delete", "wipe"}]_vars

\* Every click of the toolbar comes to an end, and the GUI with it.
CallsReturn == \A c \in Calls : phase[c] # "idle" ~> phase[c] = "idle"

===============================================================================
