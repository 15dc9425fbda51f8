# Ice Commander: specifications, model checking and proofs

TLA+ modules beside the code of Ice Commander, a two-pane file manager: a GTK
desktop app, a console app and a web server over one set of crates. Every
definition is translated from the source; `PROJECT.json` ("map") names the lines
each one stands for. TLC checks the modules on small instances, TLAPS proves the
central properties of the transfer and its dialogs, the panel, the secret store, the
torrent session, the remote file systems, the web terminal, the shared configuration and
the commands of web clients for every value of the constants.

Paths below are relative to `src/src/`.

## 1. Inventory

| Component | State it keeps | Operations | Hard behaviour |
| --- | --- | --- | --- |
| Transfer engine, `transfer-core` | position in the item list, skipped items, cancellation flag | scan, copy or move item by item, error requests, sweep of a move | cancellation between any two steps, failures of every step, decisions of the user, recursive deletion by an old list |
| Transfer dialogs, `gtk-app/file_operations.rs` | progress, one pending error dialog | scan, rename-first, overwrite questions, run, Cancel | channel between worker thread and 100 ms timer |
| Clipboard, `gtk-app/clipboard_ops.rs`, `fm-core/clipboard.rs` | what was cut or copied, and from where | paste, clear at the end | the clipboard changes while a paste runs |
| Panel state, `panel-core` | levels of the path, history, `resolving` | enter, up, level, back, forward, typed address, list | requests interleave at awaits, nested archives |
| Panel router, `panel-router` | the panel's provider | guarded loads, mounts, mutations then refresh | time-outs drop futures |
| Secret store, `secret-store` | salt file, keyring file, data key in memory | seal, open, unlock, set or clear the master password | crashes between truncation and write, several processes, legacy secrets |
| Torrent session, `virtualfs/torrent_session.rs` | map of managed torrents, view counts, timers | acquire, release, start, stop, clean up, shut down | calls and timers interleave at awaits on the library |
| Remote file systems, `virtualfs` (SFTP, FTP, WebDAV, peers) | cached session, tunnel, pending requests | the operations of `FileSystemRpc` | reconnect and retry, time-outs, late replies |
| Configuration, `common/client-config` | the whole key map, in every process | get, set, update, save | two processes, one file |
| Panel server, `panel-server`, `webserver-app`, `gtk-app/api.rs`, `web-app` | clients, terminal scrollback, the transfers that can be cancelled | HTTP and WebSocket commands, terminal mirror | attach while output arrives, lagging clients, commands on panels that have moved on, tasks that interleave without asking |
| Console app, widgets, viewers, terminals, updater, account, developer tools | presentation | | sequential, or calls into the operating system and services |

Interactions. A user's F5 or F6 starts a scan and then
`run_transfer_with_progress`, which spawns a worker thread (when both sides can be
reopened there) or runs on the GUI thread; worker and dialogs share a cancellation
flag, a progress channel and an error channel with a oneshot reply per error. A
panel's messages are handled one after the other by one task, while drive buttons,
torrent buttons, the remote API and finished transfers spawn navigation tasks of
their own on the same thread. Every path level of a torrent holds a view, and its
drop starts the closing timer on the tokio runtime. Desktop and web server are two
processes over the same configuration, salt and keyring files.

What makes each correct, in a sentence: the transfer never loses a file and tells
the truth about its outcome; the panel shows what its path says and reacts to the
next request; a stored secret can be opened after the next start and never under
fewer guards than the user set; a torrent that runs can be stopped and downloaded
data goes only on request; a remote operation is done once; a configuration value
is not undone by another process; a terminal client sees every chunk once, in
order; what a web client asks for is done where it saw the panels, and costs no content
that nobody gave up. The hazards in `PROJECT.json` locate what threatens each.

## 2. Plan

Order: what can destroy the user's files first, then secrets, then what blocks the
program.

1. `TransferPromise`, `Transfer`, `TransferProofs`: the transfer between two places.
2. `MoveFlow`, `MoveFlowProofs`: what leads to a transfer and what follows it, over named
   places, so that source and destination can be the same one and a clipboard can be pasted twice.
3. `SftpSession`, `PeerLink`, composed by `RemoteMove`, and `RemoteMoveProofs`: the same
   transfer where reading, writing and deleting are not atomic but operations of two
   remote file systems.
4. `PanelNav`, `PanelNavProofs`: navigation in a panel.
5. `SecretStore`, `SecretStoreProofs`: the stored secrets.
6. `TorrentSession`, `TorrentProofs`: torrents.
7. `WebTerminal`, `WebTerminalProofs`: the terminal of the web server.
8. `PanelApi` and `SharedConfig`, composed with `SecretStore` by `WebServer`, and
   `WebServerProofs`: the commands of web clients and what the server shares with other
   programs.

All of it is in place. What remains worth doing:

- the mutations of the router (`resolve_relative` at handling time, then refresh) in
  `PanelNav`;
- an abstract store, a map from secrets to readable or dropped, that `SecretStore`
  implements for one process;
- an abstract remote operation, taking effect at most once, for `SftpSession` and
  `PeerLink`;
- archives and folders made in the panels of a web client, in `PanelApi`.

Every invariant and every action property that a passing run checks is proved; what stays
with TLC is liveness (end of section 5).

## 3. Modules and the code

### Transfer

`execute_transfer` (`transfer-core/src/lib.rs` 434-680) with the dialog around it
(`gtk-app/src/file_operations.rs` 413-657).

| Model | Code |
| --- | --- |
| `pc`, `cur` | position in the item loop; `item` is the head of the retry loop, `copy` the buffer loop of `copy_one_file`, `write` between reading and writing a remote file, `ask` the wait for a reply, `delete` inside `delete_entries` |
| `skipped`, `plan` | `skipped`, `paths_to_delete` |
| `settled` | `FileDone` and `FileSkipped` messages sent, all the timer counts |
| `src`, `late`, `dest` | the two file systems; `late` are files other programs create in a source folder after the scan |
| `request`, `reply` | the error channel with its dialog, the oneshot channel |
| `cancel` | the `AtomicBool` behind Cancel and behind the API's operation |
| `SrcLocal`, `DestLocal` | `is_local()` of the two providers: both choose the blocking branch, otherwise every file is read and written whole |
| `Holding` | the moved folders the destination lies in; empty in an ordinary move |

Each action is one stretch between two points where the flag is read, an operation
of the file system may fail, or the worker waits. `delete_entries` takes one path per
step, so Cancel and late files interleave with it. The content of a destination entry
is what the properties tell apart: absent, old, partial or new.

`TransferPromise` is the abstract specification: content is delivered file by file
while the source is whole, released only once delivered, and the outcome says which
side to rely on. `Kept` is the refinement mapping.

### MoveFlow

`gtk-app/src/file_operations.rs` (the dialogs), `clipboard_ops.rs`, `fm-core`'s
`clipboard.rs` and `names.rs`. A place is a directory of a file system; an entry is a name
and the content it stands for, so that a content can be followed through copies and
moves.

| Model | Code |
| --- | --- |
| `panel`, `clip` | the two panels' active levels; `Clipboard::slot`, `anchored` for the weak pointer that still upgrades |
| `flow[f].pc` | `scan` and `confirm` while the transfer dialog is open (`stuck` after a failed remote scan), `list` inside `resolve_conflicts`'s listing, `ask` in its questions, `copy` and `error` in `execute_transfer` |
| `flow[f].dir`, `side` | the destination path fixed when the dialog opens, and the panel whose provider is read when it is confirmed |
| `ren` | `dest_names` of a paste into the same place |
| `agreed`, `silent`, `unlisted`, `overtaken` | not in the code: why a content went |

The dialogs that are up for certain block a second flow (`Blocked`): the transfer dialog
while it scans or waits, and the overwrite questions. While a destination is listed there is
none. Nor does a running transfer block: Escape closes its progress dialog, whose handler
takes only "cancel" for a cancellation (479-484), and F5 and F6 are caught before any dialog
(`mainwindow/keyboard.rs` 300-313). So flows overlap wherever they list, copy or delete. The
transfer is reduced to entries, its branches as in `Transfer`; a write is one step, and one
that fails leaves a half.

### SftpSession, PeerLink and RemoteMove

`SftpSession` is `virtualfs/src/fs_sftp.rs` and `sftp_rpc.rs`: blocking threads that share
one cached session behind a mutex, an SSH tunnel in a slot with a mutex of its own, and a
mutex around the tunnel's SSH session which the forwarder of each new connection holds.
`step[u]` is where a thread is in `ensure_tunnel_helper`, in `with_sftp_session` or in the
loop of `write_file`; `forwarder[u]` is the task that opens the channel its connection
needs. What takes and releases a mutex without waiting in between is one action; the order
in which mutexes are taken is the code's. Listing stands for the operations that can be
repeated, deleting for those that fail when they were done before. A connection without
a tunnel takes the same steps but those of the tunnel.

`PeerLink` is `virtualfs/src/p2p_rpc.rs` with `on_message` of `p2p-runtime`: a request has
an id and an entry in the map of those that wait (`pending`), goes through a bounded queue
and is answered through the map, or times out. Link and peer are external (see its
header); `lost` and `broken` remember an upload that was reported and went down with the
link, `unstored` one that arrived whole and that the peer could not store: the code reports
an upload when its last message is queued (`p2p_rpc.rs` 415-421), so neither is noticed.

`RemoteMove` composes them with the remote branch of `execute_transfer`. A peer cannot be
reopened on a worker thread (`transfer_plan.rs`), so such a move runs on the panels' own
providers and shares the SFTP panel's session: that is the second user. Whether the move
goes up or down is chosen at the start.

### PanelNav

`RouterState`, `History`, `NavPath` and `build_levels` of `panel-core`,
`guarded_load` and the spawned navigations of `panel-router`. A level is its name, its
file system (the base, then each archive by its path in the one before), its path in
it, and the place its entries were listed from. A task is a future suspended at its
`list_dir`; `at` is what it captured before the await, `want` what follows it
(`show`, `record` in the history, `type` an address once spawned, `finish` a typed
one). The two tasks are the panel's message loop and a spawned one; `past`, which is not
in the code, remembers whether they overlapped and whether an address was given up on.
Entries are reduced to the place they belong to, cursors are left out. A name names
the same entry everywhere, so an archive is recognised by its name, as in the code.

### SecretStore

`secret-store/src/lib.rs` with the callers that seal, upgrade and set passwords in
`gtk-app` and `webserver-app`. A key is a number, sealing remembers the key. A file
write is two steps, truncation and filling, because `std::fs::write` is; an
unreadable file, a malformed one and an empty one are the same to the code. `op` is
the operation under way and `pc` the point in `machine_key`, `machine_dek` or
`write_keyring` it has reached. `Restart` ends a process, in the middle of an
operation only when `Interrupts` says so. `mishaps` is not in the code: it remembers
which writes failed or were torn, for the properties that except them. A password may be set
at any time, over another one too, which needs the data key in memory and not the old
password (`set_master_password`); it is removed only by who gives it (`prompt_clear`), and
the store asks to be unlocked only while it is locked. Saving passwords stays switched on.

### TorrentSession

`virtualfs/src/torrent_session.rs` and the toolbar. What happens under one locking of
the engine's mutex is one step; calls and timers interleave at the awaits. The library
session is external: a set of managed ids, those not paused among them, the rule that
the same content is not managed twice, and operations that may fail. `frozen` is the
GUI thread waiting for a mutex it holds itself.

### WebTerminal

`TermMirror`, `ws_broadcast_json`, `ws_handler` and `terminal_ws_handler` of
`panel-server/src/lib.rs`, `TerminalHub` of `webserver-app/src/main.rs`. The shell's
broadcast channel and the mirror's are a count of chunks sent and a position per reader; a
reader further behind than the capacity is told that it lagged. The scrollback is a
suffix of what the mirror received (`dropped` counts what it let go), in chunks instead of
bytes. Each event is told by a task of its own (`news` is the set of them) that waits for
one session after the other, so that a later one may reach a client first; greetings and the
handlers of clients interleave with them. `raced` is not in the code: it remembers the clients
for whom a flag changed while an older message about it was still on its way. The shell is
that of one side; "expanded" is one pair of values for both sides.

### PanelApi, SharedConfig and WebServer

`PanelApi` is what web clients do to files: `web-app/src/App.tsx`, the routes of
`panel-server/src/lib.rs`, `dispatch_core` of `backend.rs`, and the backends `GtkBackend`
(`gtk-app/src/api.rs`) and `ConsoleBackend` (`webserver-app/src/main.rs`), which do the same.

| Model | Code |
| --- | --- |
| `stand` | where a panel is: its active provider and folder |
| `seen` | what a client shows of a panel; each update is broadcast by a task of its own, so one may overtake another, and any earlier place (`been`) may be shown last |
| `commands[k]` | a command and its task: `sent` until `dispatch_core` takes it, `items` before an item of the list, `write` between reading and writing it, `remove` between writing and deleting it |
| `from`, `to` | the providers and the folder of the destination, taken when the command is handled |
| `cancelled` | the flag of the operation; only the desktop lists its transfers |
| `asked`, `replaced`, `crossed`, `unread` | not in the code: why a content went |
| `meant`, `astray`, `touched` | not in the code: where the client showed the panels, whether they had left by the time of handling, and the folders the task worked in |

A write is one step, but whoever reads an entry that a copy or a move is writing may get a
part of it (`HalfWritten`), and a failed write may leave one.

`SharedConfig` is `common/client-config/src/lib.rs`: programs that hold the whole
configuration in memory and save all of it. Of each there are two threads, the one that
gets a value and sets it later, each under a lock of its own, and the network's, which
updates the peers under one lock and saves twice. `save_to_disk` is three steps: the
temporary file is opened and emptied, filled, renamed; the file descriptor `fd` stays with
the file when another program renames it. A configuration is the set of the changes it
has. `undone`, `unsaved` and `clash` are not in the code: what another program saved over,
what could not be written, and whether two programs wrote at once.

`WebServer` puts the two beside `SecretStore`. The three share no state, so exploring their
interleavings would show nothing new: `part` says whose behaviour it is.

## 4. Runs

| Run | Instance | Question |
| --- | --- | --- |
| `Transfer_local_move` | 5 items: a folder with a file and a sub-folder with a file, a file beside them; files of 0, 1 and 2 buffers; 1 late file | does a local move keep every file, what was skipped and the truth of its outcome, and refine the promise? |
| `Transfer_download_copy` | same tree, remote source, fair | does a copy, with folders refused when they exist, end whatever fails? |
| `Transfer_into_itself` | `Holding = {1}` | violated: a move into itself loses files |
| `MoveFlow_flows` | 2 flows, 3 gestures, 1 fault; two local file systems with a name in common, and an empty remote one that cannot be reopened | does content go only where something was written over it, and does what was declined stay? |
| `RemoteMove_both_ways` | 2 files, up or down, a mover and a panel, 3 tunnels, 2 faults on either side, a retry, a panel listing, a queue of 1 | do sessions, tunnels, second attempts and late answers lose nothing and block nobody? |
| `PanelNav_two_tasks` | 2 tasks, 4 requests (3 once tasks overlap), 3 bases, a folder and an archive name, depth 2 | are path, entries and history right, and does the address box recover? |
| `PanelNav_timeout` | 2 tasks, 3 requests | violated: a time-out leaves `resolving` set |
| `WebServer_shared` | secrets: 2 secrets, 2 passwords, 8 operations, crashes and failing writes; configuration: 2 programs, a file of older versions, 2 changes, 1 failure; panels: a client, 2 file systems of a folder with 2 names, 2 commands, 1 navigation | are secrets readable unless a file was torn, none dropped, the key in memory always on file, and a password never taken off but by who gave it? does a saved change stay? do commands of clients lose nothing, and work where they were meant to? |
| `SecretStore_interrupted` | 5 operations, crashes | violated: an interrupted rewrite loses every secret |
| `Torrent_lifecycle` | 2 copies of one torrent, 2 calls, 2 views and 1 timer each, 2 ids | does every torrent stay under somebody's control, and its data where it is? |
| `Torrent_resume` | 1 torrent, 1 call, fair | violated: Start on a torrent that was started never returns |
| `WebTerminal_one_side` | 1 client attaching twice, 1 listener, channels of 1 chunk, a scrollback of 2, 3 chunks, 2 announcements | does attaching repeat or lose output, and does a client show the terminal as it stands? |

Sizes, in distinct states: `Transfer_local_move` 47,620, `MoveFlow_flows` 1,035,332,
`RemoteMove_both_ways` 2,556,451, `PanelNav_two_tasks` 1,406,968,
`WebServer_shared` 2,043,102, `Torrent_lifecycle` 333,036, `WebTerminal_one_side`
1,777,119.

Bounds. `N = 5` with this tree has every position a skipped item can have towards a
deleted one: the folder itself, a file in it, a folder in it, a file in that, a file
outside. `MaxErrors` bounds the failures of a behaviour, never which step fails: each
may hit any item, a retry of it or the sweep. Two buffers put a cancellation before,
between and after buffers. `MaxDepth = 2` has an archive in a folder, a folder in an
archive and an archive in an archive. `MaxRequests` is enough for going down, back, up
and elsewhere, the shortest histories that truncate and replace; `MaxOverlapping` is one less,
for behaviours in which tasks have overlapped, and still lets one task end between two
steps of the other and ask again. `MaxGestures` in `MoveFlow` bounds flows, navigations and
uses of the clipboard together: a Cut, a navigation and a Paste, or two flows with a
navigation between, or one inside the other's transfer. Two files are the shortest list
whose second attempt fails on the first entry. Channels of one chunk make a reader lag with two unread ones, and a
scrollback of two lets go of the first while it replays the rest; a client that attaches
twice is two clients one after the other. `MaxOps` in the secret
store is enough for sealing, setting a password, restarting, unlocking, clearing it and
opening again. Two views and two calls per torrent are two panels; one timer per torrent
suffices because a timer carries no state but its torrent, which leaves a second dip
with a new timer out (section 7). `MaxIds = 2` lets a torrent be added, deleted and
added again.

Two commands of a web client are the fewest that interfere, and two entries in one list the
fewest that let a panel leave between them; one navigation makes what the client shows old,
before or after a command is handled. Two changes let each program, or each thread of one,
save over the other's; the one failure is a write that fails or a program that dies with
its temporary file half written.

Deadlock checking is off wherever a behaviour ends: transfers finish, requests and
operations run out, and toolbar and ids are bounded.

Violation runs check one property each, quoted from a comment, a test or the
documentation in "findings". The counterexamples in short:

- *Move into itself.* F6 with the other panel inside the moved folder copies and then
  deletes recursively. Only the clipboard compares the two places.
- *Time-out while typing.* `guarded_load` drops the future at an await of
  `navigate_typed`, before the flag is cleared. Every later address is ignored, and
  answered with success.
- *Interrupted rewrite.* The keyring is truncated in place; the next start takes the
  empty file for a missing one and makes a new key.
- *Resume.* The guard of `if let Some(m) = lock()...` lives through the block that locks
  again. With that action taken out of the model the property holds.

### Fairness

`Transfer`: weak fairness of the worker (a thread, or a task of the GUI loop) and of the
timer (a GLib source that returns `Continue` until the channel closes). The user answers
every dialog, weakly, since the dialog is modal and stays; and does not answer Retry for
ever: answering Skip or Abort is strongly fair, because each retry closes the dialog in
between. With the failures of an instance bounded that last assumption does little work;
it is needed where a folder is refused each time it is tried. Nothing is assumed of
Cancel, failures or other programs.

`WebTerminal`: weak fairness of the mirror's task and of what each attached client's task
does; both are tasks of a runtime that polls what is ready. None for the shell, clients
that come and go, or events.

`TorrentSession`: weak fairness of a call's next step and of the timers. None for clicks.

## 5. Proofs

`TransferProofs` extends `Transfer` and proves, for any list of items, any nesting, any
number of buffers and any bound on failures:

| Theorem | Property |
| --- | --- |
| `TypeCorrect` | `TypeOK` |
| `FilesSafe` | `ContentSafe`, when `Holding = {}` |
| `SkippedSurvive` | `SkippedStay` |
| `CancelSafe` | `CancelKeepsSource` |
| `NothingTruncated` | `NoTruncatedFile` |
| `LateFilesGoWithWholeFolders` | `LateOnlyWithWholeFolder` |
| `SuccessIsTrue` | `SuccessAccounted`, when `Holding = {}` |
| `TransferKeepsPromise` | `KeepsPromise`, when `Holding = {}` |

The only assumption is `TransferAssumption`: the items are numbered in scan order, a
folder before what it holds, which is how `scan_items` emits them. Where a theorem needs
that the destination lies outside the moved folders it says so in its statement, and
`Transfer_into_itself` shows that it cannot do without.

None of the properties is inductive by itself. The argument of the main ones:

- Until the sweep the source is whole (`pc` not in `delete`, `done`), and every file
  before `cur` that was not skipped is complete at the destination. Both are kept by every
  step of the item loop, since only the current entry is touched.
- The sweep fixes `plan` as a set of items that are not skipped and hold nothing skipped;
  from there `cur`, `skipped` and the destination stand still. A deleted item was in the
  plan, or lies below a deleted folder of the plan, whose whole contents are planned: so it
  was not skipped, and it is complete.
- Items leave the plan from the end, so what is gone is exactly what has left it. At the
  end of the plan every file that was not skipped is gone.
- `result = "cancelled"` is only set before the sweep has begun; a later flag is not read.
- `settled` counts the files before `cur`; the count uses the cardinality of the initial
  segments of the items.
- The refinement follows action by action: completing a file is `Deliver`, deleting
  entries is `Release`, the four ends are `Succeed`, `Cancel` and `Fail`, all else stutters.

`TorrentProofs` extends `TorrentSession` and proves, for any torrents, any number of
copies of one torrent, of calls, views and timers:

| Theorem | Property |
| --- | --- |
| `TorrentTypes` | `TypeOK` |
| `NoOrphans`, `NoDangling`, `AllAccounted` | `NothingOrphaned`, `NothingDangling` and both, `Accounted` |
| `DataStays` | `DataKept` |

It rests on `TorrentAssumption` alone (there is a torrent, each has a content, the
bounds are natural numbers). The argument is ownership: an id the
session manages is owned by exactly one of the map, a timer that has taken it out, a
call that has added it and not inserted it yet, or a clean-up that has taken it out.
`Taken` says that the last three exclude one another. `Library` says that no id is above
the last one given out, so that a new one is nobody's, and that a content is managed
once. The last is what saves `Insert`, which overwrites its slot of the map without
looking: a torrent already there would have the content the call holds, under another
id. Neither target property is inductive without it.

`WebTerminalProofs` extends `WebTerminal` and proves, for any number of clients and
listeners and any capacities of the channels and the scrollback:

| Theorem | Property |
| --- | --- |
| `TerminalTypesHold` | `TypeOK` |
| `NothingGarbled` | `Unbroken` |
| `ListenersInformed` | `Informed` |

The terminal: what the mirror holds rises (`Ordered`), and what a client that never lagged
has is a piece of it that ends where the client's next new chunk stands (`Placed`, `Piece`,
`End`): at the end of the replay or behind the last chunk forwarded, whichever is further.
A client that lagged keeps only that everything it has is older than all that is to come.
The events: for a client that is connected, and a flag, what is on its way is a greeting
(`DOMAIN greeting[l]`) or the task of an announcement (`Coming`). Unless one change met an
older message under way, all that is on its way says how the flag stands now, and where
nothing is the client shows that already (`Current`); without the first part the last one
told need not be the truth.

`SecretStoreProofs` extends `SecretStore` and proves, for any secrets, passwords, restarts
and failed writes:

| Theorem | Property |
| --- | --- |
| `SecretTypes` | `TypeOK` |
| `KeyComesFromFile` | `DekFromFile` |
| `OneKey` | `OneDek`, when `OneProcess`; no run checks it, `DekFromFile` and `ReadableUnlessTorn` say more |
| `SecretsSurvive` | `ReadableUnlessTorn`, when `OneProcess` |
| `PasswordIsGuarded` | `PasswordGuards`, when `OneProcess` |
| `NoSecretDropped` | `SecretsKept`, when `OneProcess` |

`OneProcess` says that one program at a time uses the store (`\E p : Procs = {p}`); it may
die and start again wherever it is. It is needed: two that start together for the first time
can each write a keyring, which the hazard at `secret-store/src/lib.rs:213` names. The
types and `KeyComesFromFile` do without. The invariant has three parts. `Keyring`: who may
be about to replace the keyring and with which key: a new data key only where there is no
keyring, a password taken off only with that password, and the key in memory on file or on
its way there.
`Legacies`: while there are secrets of the old kind the first salt is the only one and no
keyring is under a password, because they are opened before anything that would make either.
`Salted`: unless a salt was not saved or a keyring was cut short, the salt on file opens the keyring on file, and the
keyring holds the key of every sealed secret.

`MoveFlowProofs` extends `MoveFlow` and proves, for any places, names, panels and number of
flows:

| Theorem | Property |
| --- | --- |
| `NothingVanishes` | `ContentKept` |
| `FlowTypes` | `TypeOK` |
| `DeclinedAreSpared` | `DeclinedStay` |

Assumed is that each content stands at first in finitely many places, and in one at least.
The argument counts. What a flow has copied and may still delete is owed (`Owed`), and every
copy that is owed was made in addition to the entry it is owed for. The invariant `Shape /\
Plenty` says that a content no copy was written over stands in more places than there are
entries owed for it (`Enough`), so that the deletions at the end of all flows together leave
one. Where a content is written over itself nothing is added and still something owed: these
are the exceptions `ContentKept` names.

The other two follow the names of a flow (`Named`): every item has a new name from the
moment the dialog opens, a move gives no new ones, nothing that was declined is among what a
transfer goes on with or has done, and a failed item is still to be done. A step then writes
or drops only names other than the declined one (`MovingSpares`). Where entries are pasted
beside themselves `DeclinedStay` has an exception (`NameGiven`). `plan_names` looks at what
is there when Paste is pressed: an item of the clipboard that is gone by then leaves its
name to another item, and if it is back before the transfer begins it is written over,
whatever was answered for its own new name. `MoveFlow_flows` opens too few
flows for that; with a third one and two more names TLC reaches it in fifteen states.

`RemoteMoveProofs` extends `RemoteMove` and proves, for any number of entries, tunnels,
requests and faults, and any capacity of the queue:

| Theorem | Property |
| --- | --- |
| `NobodyStuck` | `SomebodyGoesOn` |
| `WaitersLeave` | `NoStaleWaiter` |
| `TypesHold` | `TypeOK` |
| `NoContentLost` | `ContentKept` |
| `SweepStopsAtFirst` | `StopsAtFirst` |
| `SuccessIsMoved` | `SuccessMoved` |
| `ErrorsCaused` | `ErrorsHaveCause` |

Assumed is that the bounds are natural numbers (`RemoteMoveAssumption`, `SftpAssumption`,
`PeerAssumption`). The lemmas on the mutexes of `SftpSession` hold for any number of
threads; the theorems are about the two `RemoteMove` has. None of the properties but
`NoStaleWaiter` is inductive; the invariants they follow from build on one another:

- `Locks` says where each mutex is held: the slot of the tunnel only while its tunnel is
  asked (`SlotHeld`), the session across the search for a tunnel only by a writer
  (`SessionHeld`), the SSH session of a tunnel only while a channel is opened (`SshHeld`),
  and that a forwarder belongs to a handshake with a tunnel (`Dialled`). `NoCircle` follows
  the order SSH session, slot, session: the holder of the first is not waiting at all.
- `Basics` adds the types, the letters on their way to and from the peer (`Letters`: each
  has the id of a request that was made), and whose turn it is (`Turns`: what the
  mover waits for is what it asked for, of the file system it asked).
- `InOrder` says of a request and its letters that what is on their way is about it, that
  nothing is answered before it is read, and that the content of an upload goes before its
  end; `Uploading`, that while the link holds an upload that ends was filled.
- `Contents` relates the two sides to where the mover stands. At a source that is the
  server nothing after the entry being deleted is gone (`StoreLeft`), and the peer has whole
  what was reported (`SharedSafe`), or what is still on its way to it; the other way round
  `SharedLeft` and `StoreSafe`. Content kept, the order of the sweep and the truth of a
  success are read off it (`ContentsTell`).
- For `ErrorsHaveCause`, `Causes` says that whoever meets a closed session or a dead tunnel
  met a fault (`Exclusive`, `Reached`, `Caused`, `ListingOf`), and `Untroubled` that before
  the first fault every step of a request finds what it needs: no thread fails
  (`ThreadsQuiet`), what is still to be deleted is there (`ListStands`), the peer agrees to
  what it is asked (`PeerQuiet`) and nothing was given up.

`WebServerProofs` extends `WebServer` and proves, for any clients, file systems, folders,
names and contents, any programs, changes, deaths and failed writes:

| Theorem | Property |
| --- | --- |
| `ServerTypes` | `ServerTypeOK` |
| `SavedStays` | `ConfigKept` |
| `NoContentLost` | `NothingLost` |
| `CommandsInPlace` | `NotAstray` |

`ServerParts` shows that the server's specification implies that of each part, so that what
is proved of a part, in `SecretStoreProofs` too, holds of the server. `ApiAssumption` says
what there is at the start, and that every content then stands somewhere; `ConfigAssumption`
that a change of older versions is number 0.

`NothingLost` is not inductive: it does not say that the last copy of a content is not one
that a move is about to delete. `AllSafe` does: every content without an excuse (`asked`,
`replaced`, `crossed`, `unread`) stands at an entry that no move will delete as its copy of
that content (`Doomed`). Once a move has written, what it wrote is such an entry.
A command stays in place because what it works with is fixed
when it is handled: `Straight` says that `from` and `to` are those meant, unless astray, and
that what was touched lies in them.

A configuration is right for two reasons. In memory (`InMemory`) a lock is held by the thread
that saves and by nobody else, what is about to be saved is in the store, and what the window
read is still what is there, so that setting it adds a change and drops none. On disk
(`Orderly`), as long as no two programs have saved at once, at most one writes, to a
temporary file that is not the one a start reads; a program has in memory what it saved
itself (`Own`), and of the others' changes none that never was on file (`Foreign`). A rename
then drops only what another program saved, and that is what `undone` is. `ConfigKept` alone
says nothing about memory, and could not be inductive.

`PanelNavProofs` extends `PanelNav` and proves, for paths of any depth, any names, archives
and file systems, any number of tasks and of requests:

| Theorem | Property |
| --- | --- |
| `PanelTypes` | `TypeOK` |
| `AnyWayLeadsThere` | `LevelsAsTyped` |
| `BackMoves` | `HistoryMoves` |
| `EntriesAreOfLevel` | `EntriesOfLevel` |
| `RecordedWasListed` | `HistoryListed` |
| `TypedIsHeard` | `TypedUnlessGivenUp` |

`PanelNavAssumption` says that archives are names, that the bases a panel starts from are
among those it can show, and that the bounds are natural numbers, overlapping tasks asking
no more than all of them. The central notion is `Stepwise`: a path starts at a root, and
each level stands where entering its name from the one before leads. Every action keeps it
(a level is pushed, dropped, or listed), and `StepwiseAsTyped` shows that it implies
`LevelsAsTyped`: what `build_levels` computes in one pass over an address is what one
step after another builds. `build_levels` is a recursive function over the address; that
it exists, and what it computes at every name, is shown with the least number for which it
would fail (`WFMin` of the library with `NatLessThanWellFounded`). For the entries, `Alone`
says that while tasks came one after the other at most one is under way, and that the place
it asked for is still the panel's active level, so that what arrives belongs there. The
address box needs only who may raise the flag (`FlagStep`). `TypedOnlyWhileResolving`
without its exception is refuted by `PanelNav_timeout`.

Model-checked only: `LastSeen` of the terminal, `Terminates` of the transfer and
`CallsReturn` of the torrent session (violated). All three are liveness: ENABLED, fairness
and what must eventually happen are out of this prover's reach. So are the induction
theorems of its library, which take an operator as a parameter: what `plan_names` computes
name by name is left to TLC, and the proofs use only that every item gets a name.

## 6. Mutants

Every property of a passing run names a mutant in `PROJECT.json`, a definition changed as a
plausible bug would, with which that run fails: folders above a skipped item not spared in
the sweep, a skipped file not reported, an unfinished file left behind, an error escaping
before the flag is cleared, an archive entered at the path it has outside, a data key used
although the keyring could not be written, the error of a second attempt swallowed, a
request that outlives its time-out in the map, a mutex kept over the clearing of a slot, a
chunk of the replay sent again, the source of a web client's move deleted after a write that
failed, a configuration renamed into place although it could not be written. They stand
before the definition they change.

## 7. Limits

Not modelled, and why:

- `scan_items`: the models start from its result, a list in pre-order; `MoveFlow` has its
  failure. `MoveFlow` moves files, not folders, which `Transfer` does; a destination path
  the user edits in the dialog, and a panel whose display is behind its folder, are left
  out.
- An upload from a local folder (`DestLocal = FALSE`, the deletion of a failed entry there)
  has no run of `Transfer`; it is covered by the theorems, and by `RemoteMove` and
  `MoveFlow` with remote destinations.
- Permissions of created folders and files, sizes, progress in bytes, logging, wording.
- Windows paths: the sweep's test for skipped contents uses `/`; the model uses the tree.
- A remote provider that fails after it has deleted the last entry reports a failure with
  nothing left to delete; `Transfer` counts that deletion as not done. In `RemoteMove` such
  an answer can be lost.
- SFTP: the data that goes through an open channel, and the mutex around the SSH session
  that each piece of it takes for a moment; time-outs of a connection, which end it as a
  refused one; what a write that fails in the middle leaves, beyond "part". What
  libssh2 says of a dead link (`authenticated()`) is left open, so that the tunnel may be
  reused or rebuilt.
- Peers: the transport and the peer's own program are external. Messages that are not lost
  with the link keep their order. An upload is successful for the code when its last
  message is queued, so `ContentKept` excepts what a broken link took from the queue, and
  what the peer could not store (`unstored`).
- Two processes over the secret store: `Procs` admits them, the runs use one. With two, the
  first start can race on salt and keyring; this is listed as a hazard.
- A read of an intact salt or keyring file that fails for a moment (`secret-store/src/lib.rs`
  51, 178) is taken by the code for a missing file; the model's reads do not fail.
- A master password is set over another one without asking for that one: whoever sits at an
  unlocked store can change it. `PasswordGuards` says no more than that the data key is needed.
- Overlapping navigation tasks can write entries into another level and record what was
  never listed; `EntriesOfLevel` and `HistoryListed` are therefore stated until the first
  overlap.
- From a list of drives, `enter` pushes levels of the list's provider while a typed address
  is resolved over the local one (`state.rs` 163-164, 184). `LevelsAsTyped` compares relative
  paths and archives there, not the base.
- The error dialog comes up a moment after the error. Cancel pressed while it is open is
  covered by all properties of the transfer except `NoTruncatedFile`, which is about
  transfers in which nothing failed.
- Terminal: what clients type and the size of the terminal; the second side. When a shell
  ends nobody is told, so "open" means that one was opened. Changes of one flag told at the
  same time may end with the older one shown; `Informed` excepts the clients this concerns
  (`raced`) until the next change that meets nothing under way.
- Web clients: folders and archives in their panels, and making a folder. They overwrite
  without asking, and with both panels on one folder a move writes each file onto itself
  and then deletes it (`webserver-app/src/main.rs` 291-309, `gtk-app/src/api.rs` 711-728):
  `NothingLost` counts that as `crossed`, since no document says otherwise. A write of a
  client's own text is one step. A listing a client shows may be older than its panel's
  folder; a command that waits for its turn meets the same entries.
- Configuration: two programs that save at the same time write to one temporary file, and
  one of them may rename it half written; `ConfigKept` excepts everything after that
  (`clash`).
- Real time: grace periods and time-outs happen at any moment. More than one pending timer
  per torrent is outside the instances.
- FTP, WebDAV: `PROJECT.json`. Widgets, viewers, account,
  updater: presentation, operating system or services outside the repository.
