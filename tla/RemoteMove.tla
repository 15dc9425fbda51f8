------------------------------- MODULE RemoteMove -------------------------------
(***************************************************************************)
(* A move between an SFTP panel and a peer's panel, either way: the remote *)
(* branch of execute_transfer driving the two file systems, while the SFTP *)
(* panel lists over the same cached session.                               *)
(*                                                                         *)
(* The transfer is the one Transfer models, with files only; here its      *)
(* reads, writes and deletions are not atomic but the operations of        *)
(* SftpSession and PeerLink.  Its flag is not a variable: where the code   *)
(* reads it, the move may end as cancelled.                                *)
(***************************************************************************)
EXTENDS SftpSession, PeerLink

CONSTANTS
    N,              \* the files are 1..N, in the order they are moved
    mover, panel,   \* the two users of the SFTP file system
    MaxTrouble,     \* bound on the faults of both sides together
    MaxRetries,     \* bound on the user's Retry
    MaxCalls        \* bound on the panel's own operations

ASSUME RemoteMoveAssumption ==
    /\ N \in Nat /\ Files = 1..N /\ PeerFiles = Files
    /\ mover # panel /\ Users = {mover, panel}
    /\ {MaxTrouble, MaxRetries, MaxCalls} \subseteq Nat

VARIABLES
    up,             \* TRUE: from SFTP to the peer
    pc, cur, skipped, result,
    retries, calls

moveVars == <<up, pc, cur, skipped, result, retries, calls>>
vars == <<sftpVars, peerVars, moveVars>>

\* Both sides, as the transfer sees them.
Holds(side, f) == IF side = "sftp" THEN store[f] ELSE shared[f]
Source(f) == Holds(IF up THEN "sftp" ELSE "peer", f)
Dest(f) == Holds(IF up THEN "peer" ELSE "sftp", f)

Sftp(j) == Call(mover, j) /\ UNCHANGED peerVars
Peer(r) == Request(r) /\ UNCHANGED sftpVars

\* The side that worked for the transfer returns a.
SftpSays(a) == step[mover] = "returned" /\ answer[mover] = a /\ Taken(mover)
PeerSays(a) == stage = "returned" /\ reply = a /\ ReplyTaken
Says(sftp, a) == IF sftp THEN SftpSays(a) /\ UNCHANGED peerVars ELSE PeerSays(a) /\ UNCHANGED sftpVars

Download(f) == [kind |-> "download", file |-> f, rest |-> <<>>]
Upload(f) == [kind |-> "upload", file |-> f, rest |-> <<>>]
Deletion(sftp, paths) ==
    IF sftp THEN Sftp([kind |-> "delete", paths |-> paths])
    ELSE Peer([kind |-> "delete", file |-> Head(paths), rest |-> Tail(paths)])

Finish(r) == pc' = "done" /\ result' = r

-------------------------------------------------------------------------------
(* The items.                                                                *)

ReadItem ==
    /\ pc = "item" /\ cur <= N
    /\ pc' = "read"
    /\ IF up THEN Sftp([kind |-> "read", file |-> cur]) ELSE Peer(Download(cur))
    /\ UNCHANGED <<up, cur, skipped, result, retries, calls>>

WriteItem ==
    /\ pc = "read"
    /\ pc' = "write"
    /\ IF up THEN SftpSays("ok") /\ Request(Upload(cur))
       ELSE PeerSays("ok") /\ Call(mover, [kind |-> "write", file |-> cur])
    /\ UNCHANGED <<up, cur, skipped, result, retries, calls>>

NextItem ==
    /\ pc = "write"
    /\ Says(~up, "ok")
    /\ pc' = "item" /\ cur' = cur + 1
    /\ UNCHANGED <<up, skipped, result, retries, calls>>

ItemFails ==
    /\ \/ pc = "read" /\ Says(up, "error")
       \/ pc = "write" /\ Says(~up, "error")
    /\ pc' = "ask"
    /\ UNCHANGED <<up, cur, skipped, result, retries, calls>>

Retry ==
    /\ pc = "ask" /\ retries < MaxRetries
    /\ pc' = "item" /\ retries' = retries + 1
    /\ UNCHANGED <<up, cur, skipped, result, calls, sftpVars, peerVars>>

\* Skip and Abort delete the destination entry and ignore what becomes of it.
GiveUp(abort) ==
    /\ pc = "ask"
    /\ pc' = IF abort THEN "abort" ELSE "skip"
    /\ skipped' = IF abort THEN skipped ELSE skipped \union {cur}
    /\ Deletion(~up, <<cur>>)
    /\ UNCHANGED <<up, cur, result, retries, calls>>

GivenUp ==
    /\ pc \in {"abort", "skip"}
    /\ \E a \in {"ok", "error"} : Says(~up, a)
    /\ IF pc = "abort" THEN Finish("cancelled") /\ UNCHANGED cur
       ELSE pc' = "item" /\ cur' = cur + 1 /\ UNCHANGED result
    /\ UNCHANGED <<up, skipped, retries, calls>>

\* The flag is read before an item, between reading and writing, and before
\* the sweep.
Cancelled ==
    /\ \/ pc = "item" /\ UNCHANGED <<sftpVars, peerVars>>
       \/ pc = "read" /\ Says(up, "ok")
    /\ Finish("cancelled")
    /\ UNCHANGED <<up, cur, skipped, retries, calls>>

-------------------------------------------------------------------------------
(* The sweep.                                                                *)

\* The items that were not skipped, last one first.
Swept ==
    LET upTo[f \in 0..N] ==
            IF f = 0 THEN <<>> ELSE (IF f \in skipped THEN <<>> ELSE <<f>>) \o upTo[f - 1]
    IN  upTo[N]

Sweep ==
    /\ pc = "item" /\ cur > N
    /\ IF Swept = <<>>
       THEN Finish("ok") /\ UNCHANGED <<sftpVars, peerVars>>
       ELSE pc' = "sweep" /\ Deletion(up, Swept) /\ UNCHANGED result
    /\ UNCHANGED <<up, cur, skipped, retries, calls>>

\* Mutant of EndSweep: what becomes of the deletion is ignored.
EndSweepAnyway ==
    /\ pc = "sweep"
    /\ \E a \in {"ok", "error"} : Says(up, a) /\ Finish("ok")
    /\ UNCHANGED <<up, cur, skipped, retries, calls>>

EndSweep ==
    /\ pc = "sweep"
    /\ \E a \in {"ok", "error"} : Says(up, a) /\ Finish(IF a = "ok" THEN "ok" ELSE "failed")
    /\ UNCHANGED <<up, cur, skipped, retries, calls>>

Move == ReadItem \/ WriteItem \/ NextItem \/ ItemFails \/ GivenUp \/ Sweep \/ EndSweep

Decide == Retry \/ GiveUp(FALSE) \/ GiveUp(TRUE)

-------------------------------------------------------------------------------
(* The SFTP panel.                                                           *)

PanelCalls ==
    /\ calls < MaxCalls /\ pc # "done"
    /\ calls' = calls + 1
    /\ Call(panel, [kind |-> "list"])
    /\ UNCHANGED <<peerVars, up, pc, cur, skipped, result, retries>>

PanelAnswered ==
    /\ step[panel] = "returned"
    /\ Taken(panel)
    /\ UNCHANGED <<peerVars, moveVars>>

-------------------------------------------------------------------------------
Init ==
    /\ SftpInit /\ PeerInit
    /\ up \in BOOLEAN
    /\ store = [f \in Files |-> IF up THEN "full" ELSE "none"]
    /\ shared = [f \in Files |-> IF up THEN "none" ELSE "full"]
    /\ pc = "item" /\ cur = 1 /\ skipped = {} /\ result = "none"
    /\ retries = 0 /\ calls = 0

Tolerable == faults' + peerFaults' <= MaxTrouble
SftpNext == SftpStep /\ UNCHANGED <<peerVars, moveVars>> /\ Tolerable
PeerNext == PeerStep /\ UNCHANGED <<sftpVars, moveVars>> /\ Tolerable

Next == Move \/ Decide \/ Cancelled \/ PanelCalls \/ PanelAnswered \/ SftpNext \/ PeerNext

Spec == Init /\ [][Next]_vars

-------------------------------------------------------------------------------
TypeOK ==
    /\ SftpTypeOK /\ PeerTypeOK
    /\ up \in BOOLEAN
    /\ pc \in {"item", "read", "write", "ask", "skip", "abort", "sweep", "done"}
    /\ cur \in 1..(N + 1)
    /\ skipped \subseteq Files
    /\ result \in {"none", "ok", "cancelled", "failed"}
    /\ retries \in 0..MaxRetries /\ calls \in 0..MaxCalls

\* The end of the upload of f is still in the queue, and the peer has what
\* goes before it or that is in the queue as well.
InFlight(f) ==
    \E i \in DOMAIN queue : queue[i].kind = "complete" /\ queue[i].file = f

\* A file is gone from its source only when the other side holds it whole, or
\* the peer will once it has read its queue.  write_file reports an upload when
\* its end is queued, so one may be lost after that: to a link that broke or to
\* a peer that could not store it, never to a refusal, a time-out, a session
\* that broke or an answer that came late.
ContentKept ==
    \A f \in Files :
        Source(f) # "full" =>
            \/ Dest(f) = "full"
            \/ up /\ (InFlight(f) \/ (f \in lost /\ broken) \/ f \in unstored)

\* Deleting a list stops at the first error rather than skipping: at any time
\* what is gone from the source is the beginning of the list, also when a
\* second attempt or a late deletion comes after the first.
StopsAtFirst ==
    \A f, g \in Files \ skipped : f < g /\ Source(f) = "none" => Source(g) = "none"

\* A move that reports success has left nothing behind but what was skipped.
SuccessMoved ==
    result = "ok" => \A f \in Files : (Source(f) = "none") <=> f \notin skipped

\* Sharing one session and one tunnel does no harm: an operation fails only
\* after a fault, and a listing not by one session that was closed.
ErrorsHaveCause ==
    \A u \in Users :
        answer[u] = "error" =>
            /\ faults + peerFaults > 0
            /\ job[u].kind = "list" => faults > cuts \/ cuts > 1

\* Nobody is left in the map of pending requests once the request is over, so
\* no answer that comes late is taken for the answer to another request.
NoStaleWaiter == pending = IF stage \in {"idle", "returned"} THEN {} ELSE {used}

\* A forwarder that cannot go on, and an operation that cannot.
ForwarderWaits(u) ==
    \/ forwarder[u] = "accepted" /\ sshLock[port[u]] # nobody
    \/ forwarder[u] = "clearing" /\ tunnelLock # nobody

Waits(u) ==
    \/ step[u] \in {"resolve", "clear", "build"} /\ tunnelLock # nobody
    \/ step[u] = "peek" /\ sshLock[tunnel] # nobody
    \/ step[u] = "enter" /\ sessionLock # nobody
    \/ step[u] = "handshake" /\ ForwarderWaits(u)

\* Operations and forwarders take the three kinds of mutex in several orders,
\* and hold some across network calls; they never all wait for one another.
SomebodyGoesOn ==
    LET busy == {u \in Users : step[u] \notin {"idle", "returned"}}
    IN  busy # {} => \E u \in busy : ~Waits(u)

===============================================================================
