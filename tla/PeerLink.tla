-------------------------------- MODULE PeerLink --------------------------------
(***************************************************************************)
(* The file system of a peer: requests by id over a queue of commands,     *)
(* answers handed to whoever waits for that id, and a time-out.            *)
(*                                                                         *)
(* The network thread, the transport and the peer are external.  They pass *)
(* on what is in the queue in order and answer in order; when the link     *)
(* breaks everything on its way is lost, and so are the uploads the peer   *)
(* has not finished.  Afterwards messages get through again.               *)
(***************************************************************************)
EXTENDS Naturals, Sequences

CONSTANTS
    PeerFiles,      \* the files on the peer
    Capacity,       \* of the queue of commands
    MaxRequests,    \* bound on the requests made
    MaxPeerFaults   \* bound on lost links, refusals, failed stores and early time-outs

ASSUME PeerAssumption == {Capacity, MaxRequests, MaxPeerFaults} \subseteq Nat \ {0}

VARIABLES
    request,        \* the request under way, or NoRequest
    stage,          \* where it is
    reply,          \* what it returned, until the caller takes it
    used,           \* ids given out
    pending,        \* get_pending_requests(): the ids somebody waits for
    mail,           \* the channel of the id waited for
    queue,          \* net_tx: commands not yet sent
    inbox,          \* answers on their way back
    uploads,        \* ids of the uploads the peer has accepted, with what it has of them
    temp,           \* downloads[id]: what has arrived of them in a temporary file
    shared,         \* shared[f]: what the peer holds under f
    lost,           \* files whose upload was reported and did not arrive whole
    unstored,       \* those that arrived whole and that the peer could not store
    broken,         \* the link has broken
    peerFaults

waiting == <<request, stage, reply, used, pending, mail, temp>>
wire == <<queue, inbox, uploads>>
peerVars == <<waiting, wire, shared, lost, unstored, broken, peerFaults>>

NoRequest == [kind |-> "none"]
Ids == 1..MaxRequests

PeerFault == peerFaults < MaxPeerFaults /\ peerFaults' = peerFaults + 1

Stage(s) == stage' = s

-------------------------------------------------------------------------------
(* The request.                                                              *)

\* register: a new id, a channel for its answers, an entry in the map.
Request(r) ==
    /\ stage = "idle"
    /\ used < MaxRequests
    /\ used' = used + 1
    /\ request' = r
    /\ pending' = pending \union {used + 1}
    /\ mail' = <<>>
    /\ Stage("send")
    /\ UNCHANGED <<reply, temp, wire, shared, lost, unstored, broken, peerFaults>>

\* Mutant of Close: the entry of the map outlives the request.
CloseKeeping(a) ==
    /\ Stage("returned")
    /\ reply' = a
    /\ UNCHANGED pending

\* PendingGuard and TempFileGuard: nothing of the request is left.
Close(a) ==
    /\ Stage("returned")
    /\ reply' = a
    /\ pending' = pending \ {used}

ReplyTaken ==
    /\ stage' = "idle"
    /\ reply' = "none"
    /\ request' = NoRequest
    /\ mail' = <<>>
    /\ temp' = "none"
    /\ UNCHANGED <<used, pending, wire, shared, lost, unstored, broken, peerFaults>>

Message(kind) == [kind |-> kind, id |-> used, file |-> request.file]

\* send_to_peer_await waits for room; send_to_peer fails when there is none.
Send ==
    /\ stage = "send"
    /\ IF Len(queue) < Capacity
       THEN /\ queue' = Append(queue, Message(request.kind))
            /\ Stage("await")
            /\ UNCHANGED <<reply, pending>>
       ELSE request.kind = "download" /\ Close("error") /\ UNCHANGED queue
    /\ UNCHANGED <<request, used, mail, temp, inbox, uploads, shared, lost, unstored, broken, peerFaults>>

\* The list of delete_entries: one request after the other, each on its own.
NextPath ==
    /\ used < MaxRequests
    /\ used' = used + 1
    /\ request' = [request EXCEPT !.file = Head(request.rest), !.rest = Tail(@)]
    /\ pending' = (pending \ {used}) \union {used + 1}
    /\ mail' = <<>>
    /\ Stage("send")
    /\ UNCHANGED reply

\* Mutant of Received: a refused deletion does not stop the list.
ReceivedPassing(kind) ==
    IF request.kind = "delete" /\ request.rest # <<>> THEN NextPath
    ELSE /\ mail' = Tail(mail)
         /\ CASE request.kind = "upload" /\ kind = "accepted" -> Stage("chunk") /\ UNCHANGED <<reply, pending>>
              [] request.kind = "download" /\ kind = "accepted" -> UNCHANGED <<stage, reply, pending>>
              [] OTHER -> Close(IF kind \in {"done", "complete"} THEN "ok" ELSE "error")
         /\ UNCHANGED <<request, used>>

\* await_peer, and await_transfer_end, which passes over an acceptance.
Received(kind) ==
    IF request.kind = "delete" /\ kind = "done" /\ request.rest # <<>> THEN NextPath
    ELSE /\ mail' = Tail(mail)
         /\ CASE request.kind = "upload" /\ kind = "accepted" -> Stage("chunk") /\ UNCHANGED <<reply, pending>>
              [] request.kind = "download" /\ kind = "accepted" -> UNCHANGED <<stage, reply, pending>>
              [] request.kind = "download" /\ kind = "complete" ->
                     Close(IF temp = "full" THEN "ok" ELSE "error")
              [] OTHER -> Close(IF kind = "done" THEN "ok" ELSE "error")
         /\ UNCHANGED <<request, used>>

Receive ==
    /\ stage = "await" /\ mail # <<>>
    /\ Received(Head(mail))
    /\ UNCHANGED <<temp, wire, shared, lost, unstored, broken, peerFaults>>

\* An answer of this request is still on its way, or the request is.
OnItsWay ==
    \/ \E i \in DOMAIN queue : queue[i].id = used
    \/ \E i \in DOMAIN inbox : inbox[i].id = used

\* PEER_RESPONSE_TIMEOUT: before an answer that is on its way, or for good.
TimeOut ==
    /\ stage = "await" /\ mail = <<>>
    /\ IF OnItsWay THEN PeerFault ELSE UNCHANGED peerFaults
    /\ Close("error")
    /\ UNCHANGED <<request, used, mail, temp, wire, shared, lost, unstored, broken>>

\* Once it is accepted, the content and its end are queued; that is success.
SendChunk ==
    /\ stage = "chunk" /\ Len(queue) < Capacity
    /\ queue' = Append(queue, Message("chunk"))
    /\ Stage("end")
    /\ UNCHANGED <<request, reply, used, pending, mail, temp, inbox, uploads, shared, lost, unstored, broken, peerFaults>>

\* Mutant of SendEnd: the queue takes one more than it has room for.
SendEndAnyway ==
    /\ stage = "end" /\ Len(queue) <= Capacity
    /\ queue' = Append(queue, Message("complete"))
    /\ Close("ok")
    /\ UNCHANGED <<request, used, mail, temp, inbox, uploads, shared, lost, unstored, broken, peerFaults>>

SendEnd ==
    /\ stage = "end" /\ Len(queue) < Capacity
    /\ queue' = Append(queue, Message("complete"))
    /\ Close("ok")
    /\ UNCHANGED <<request, used, mail, temp, inbox, uploads, shared, lost, unstored, broken, peerFaults>>

-------------------------------------------------------------------------------
(* The link and the peer.                                                    *)

Answer(m, kinds) ==
    inbox' = inbox \o [i \in DOMAIN kinds |-> [kind |-> kinds[i], id |-> m.id]]

Held(f) == shared[f] # "none"

\* The peer handles the next message.  At the end of an upload it may fail to
\* store what it got, and what it says of that finds nobody waiting.
Arrive ==
    /\ queue # <<>>
    /\ queue' = Tail(queue)
    /\ LET m == Head(queue)
       IN  \/ /\ m.kind = "upload"
              /\ uploads' = [uploads EXCEPT ![m.id] = "empty"]
              /\ Answer(m, <<"accepted">>)
              /\ UNCHANGED <<shared, lost, unstored, peerFaults>>
           \/ /\ m.kind = "download" /\ Held(m.file)
              /\ Answer(m, <<"accepted", "content", "complete">>)
              /\ UNCHANGED <<uploads, shared, lost, unstored, peerFaults>>
           \/ /\ m.kind = "delete" /\ Held(m.file)
              /\ shared' = [shared EXCEPT ![m.file] = "none"]
              /\ Answer(m, <<"done">>)
              /\ UNCHANGED <<uploads, lost, unstored, peerFaults>>
           \/ /\ m.kind \in {"upload", "download", "delete"}
              /\ IF m.kind = "upload" \/ Held(m.file) THEN PeerFault ELSE UNCHANGED peerFaults
              /\ Answer(m, <<"refused">>)
              /\ UNCHANGED <<uploads, shared, lost, unstored>>
           \/ /\ m.kind = "chunk"
              /\ uploads' = [uploads EXCEPT ![m.id] = IF @ = "empty" THEN "filled" ELSE @]
              /\ UNCHANGED <<inbox, shared, lost, unstored, peerFaults>>
           \/ /\ m.kind = "complete"
              /\ uploads' = [uploads EXCEPT ![m.id] = "none"]
              /\ IF uploads[m.id] = "filled"
                 THEN shared' = [shared EXCEPT ![m.file] = "full"] /\ UNCHANGED lost
                 ELSE lost' = lost \union {m.file} /\ UNCHANGED shared
              /\ UNCHANGED <<inbox, unstored, peerFaults>>
           \/ /\ m.kind = "complete" /\ uploads[m.id] = "filled"
              /\ PeerFault
              /\ uploads' = [uploads EXCEPT ![m.id] = "none"]
              /\ \E old \in {shared[m.file], "none"} : shared' = [shared EXCEPT ![m.file] = old]
              /\ unstored' = unstored \union {m.file}
              /\ UNCHANGED <<inbox, lost>>
    /\ UNCHANGED <<waiting, broken>>

\* on_message: an answer goes to the channel of its id, if there is one; the
\* content of a download goes to its temporary file.
Deliver ==
    /\ inbox # <<>>
    /\ inbox' = Tail(inbox)
    /\ LET m == Head(inbox)
       IN  /\ mail' = IF m.kind # "content" /\ m.id \in pending THEN Append(mail, m.kind) ELSE mail
           /\ temp' = IF m.kind = "content" /\ m.id \in pending THEN "full" ELSE temp
    /\ UNCHANGED <<request, stage, reply, used, pending, queue, uploads, shared, lost, unstored, broken, peerFaults>>

\* The link breaks: what was on its way is gone.
LinkBreaks ==
    /\ queue # <<>> \/ inbox # <<>> \/ \E i \in Ids : uploads[i] # "none"
    /\ PeerFault
    /\ queue' = <<>> /\ inbox' = <<>>
    /\ uploads' = [i \in Ids |-> "none"]
    /\ lost' = lost \union {queue[i].file : i \in {j \in DOMAIN queue : queue[j].kind = "complete"}}
    /\ broken' = TRUE
    /\ UNCHANGED <<waiting, shared, unstored>>

PeerInit ==
    /\ request = NoRequest /\ stage = "idle" /\ reply = "none"
    /\ used = 0 /\ pending = {} /\ mail = <<>> /\ temp = "none"
    /\ queue = <<>> /\ inbox = <<>>
    /\ uploads = [i \in Ids |-> "none"]
    /\ lost = {} /\ unstored = {} /\ broken = FALSE /\ peerFaults = 0

AskPeer == Send \/ Receive \/ SendChunk \/ SendEnd \/ TimeOut
PeerStep == AskPeer \/ Arrive \/ Deliver \/ LinkBreaks

PeerTypeOK ==
    /\ request.kind \in {"none", "upload", "download", "delete"}
    /\ stage \in {"idle", "send", "await", "chunk", "end", "returned"}
    /\ reply \in {"none", "ok", "error"}
    /\ used \in 0..MaxRequests
    /\ pending \subseteq 1..used
    /\ Len(queue) <= Capacity
    /\ uploads \in [Ids -> {"none", "empty", "filled"}]
    /\ temp \in {"none", "full"}
    /\ shared \in [PeerFiles -> {"none", "full"}]
    /\ lost \union unstored \subseteq PeerFiles /\ broken \in BOOLEAN
    /\ peerFaults \in 0..MaxPeerFaults

===============================================================================
