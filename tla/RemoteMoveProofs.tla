---------------------------- MODULE RemoteMoveProofs ----------------------------
(***************************************************************************)
(* Proofs about RemoteMove.  The threads and forwarders of the SFTP file   *)
(* system never all wait for one another, and no request to the peer       *)
(* leaves anything in the map of those that wait for an answer.  Every     *)
(* variable has its type, a content is lost only after an answer that      *)
(* allows it, the sweep deletes in order and up to its first failure, and  *)
(* whoever is told of a success, or of an error, is told the truth.        *)
(*                                                                         *)
(* The lemmas on SftpSession hold for any number of threads, tunnels and   *)
(* faults; only the last theorems are about the two that RemoteMove has.   *)
(***************************************************************************)
EXTENDS RemoteMove, SequenceTheorems, WellFoundedInduction, TLAPS

Steps == {"idle", "resolve", "peek", "clear", "build", "enter", "handshake", "run", "fill",
          "returned"}

\* What the locks are about has the type it should.
Shapes ==
    /\ tunnel \in 0..MaxTunnels /\ built \in 0..MaxTunnels
    /\ {sessionLock, tunnelLock} \subseteq Users \union {nobody}
    /\ sshLock \in [1..MaxTunnels -> Users \union {nobody}]
    /\ DOMAIN forwarder = Users
    /\ step \in [Users -> Steps]
    /\ port \in [Users -> 0..MaxTunnels]
    /\ DOMAIN job = Users

\* The slot of the tunnel is held by whoever asks the tunnel in it.
SlotHeld ==
    /\ \A u \in Users : tunnelLock = u <=> step[u] = "peek"
    /\ tunnelLock # nobody => tunnel # 0

\* Who holds the session is not waiting for it, and looks for a tunnel only
\* to write: the others have resolved theirs before.
SessionHeld ==
    \A u \in Users :
        sessionLock = u =>
            /\ step[u] \in {"resolve", "peek", "clear", "build", "handshake", "run", "fill"}
            /\ step[u] \in {"resolve", "peek", "clear", "build"} => job[u].kind = "write"

\* The SSH session of a tunnel is held only while a channel is opened, which
\* waits for no other mutex.
SshHeld ==
    \A u \in Users : \A t \in 1..MaxTunnels :
        sshLock[t] = u => forwarder[u] = "opening" /\ port[u] = t

\* A forwarder belongs to a handshake, and that to a tunnel.
Dialled ==
    \A u \in Users :
        /\ forwarder[u] # "none" <=> step[u] = "handshake"
        /\ \/ step[u] = "handshake"
           \/ step[u] \in {"enter", "run"} /\ job[u].kind # "write"
           => port[u] # 0

Locks == Shapes /\ SlotHeld /\ SessionHeld /\ SshHeld /\ Dialled

-------------------------------------------------------------------------------
(* Nobody waits in a circle.                                                 *)

\* Where the locks are held as they should be, somebody goes on.
LEMMA NoCircle ==
    ASSUME Locks, SftpAssumption
    PROVE  SomebodyGoesOn
<1> DEFINE busy == {u \in Users : step[u] \notin {"idle", "returned"}}
<1> SUFFICES ASSUME NEW u \in busy, \A v \in busy : Waits(v) PROVE FALSE
  BY DEF SomebodyGoesOn
<1>1. ASSUME NEW t \in 1..MaxTunnels, sshLock[t] # nobody PROVE FALSE
  <2>1. PICK v \in Users : sshLock[t] = v
    BY <1>1 DEF Locks, Shapes
  <2>2. forwarder[v] = "opening" /\ step[v] = "handshake"
    BY <2>1 DEF Locks, SshHeld, Dialled
  <2>3. v \in busy /\ ~Waits(v)
    BY <2>2 DEF Waits, ForwarderWaits
  <2> QED
    BY <2>3
<1>2. ASSUME tunnelLock # nobody PROVE FALSE
  <2>1. PICK v \in Users : tunnelLock = v
    BY <1>2 DEF Locks, Shapes
  <2>2. step[v] = "peek" /\ tunnel \in 1..MaxTunnels
    BY <1>2, <2>1 DEF Locks, Shapes, SlotHeld, SftpAssumption
  <2>3. Waits(v)
    BY <2>2
  <2>4. sshLock[tunnel] # nobody
    BY <2>2, <2>3 DEF Waits
  <2> QED
    BY <1>1, <2>2, <2>4
<1>3. ASSUME NEW v \in Users, step[v] = "handshake" PROVE ~ForwarderWaits(v)
  <2>1. port[v] \in 1..MaxTunnels
    BY <1>3 DEF Locks, Shapes, Dialled, SftpAssumption
  <2> QED
    BY <1>1, <1>2, <2>1 DEF ForwarderWaits
<1>4. sessionLock # nobody
  BY <1>1, <1>2, <1>3 DEF Waits, Locks, Shapes, SlotHeld
<1>5. PICK v \in Users : sessionLock = v
  BY <1>4 DEF Locks, Shapes
<1>6. step[v] \in {"resolve", "peek", "clear", "build", "handshake", "run", "fill"}
  BY <1>5 DEF Locks, SessionHeld
<1>7. ~Waits(v)
  <2>1. step[v] # "peek"
    BY <1>2 DEF Locks, SlotHeld, SftpAssumption
  <2> QED
    BY <1>2, <1>3, <1>6, <2>1 DEF Waits
<1> QED
  BY <1>6, <1>7

-------------------------------------------------------------------------------
(* Every step of the threads, forwarders and faults keeps the locks.         *)

\* A step that touches nothing the locks are about keeps them.
LEMMA LocksStand ==
    ASSUME Locks,
           UNCHANGED <<sessionLock, tunnelLock, sshLock, tunnel, built, forwarder, step, port, job>>
    PROVE  Locks'
BY DEF Locks, Shapes, SlotHeld, SessionHeld, SshHeld, Dialled

\* A thread that has its connection works on, leaves, or begins once more, and
\* in the last two cases lets go of the session.
Works(u) ==
    /\ \E s \in {"run", "fill", "enter", "returned"} :
           /\ step' = [step EXCEPT ![u] = s]
           /\ s \in {"run", "enter"} => step[u] = "run"
           /\ s \in {"enter", "returned"} => sessionLock' # u
    /\ step[u] \in {"run", "fill"}
    /\ sessionLock' \in {sessionLock, nobody}
    /\ UNCHANGED <<tunnelLock, sshLock, tunnel, built, forwarder, port, job>>

\* What an operation or a forwarder does keeps the locks in order.
LEMMA WorkKeepsLocks ==
    ASSUME Locks, SftpAssumption, NEW u \in Users, Works(u)
    PROVE  Locks'
<1>1. Shapes'
  BY DEF Works, Locks, Shapes, Steps
<1>2. SlotHeld'
  BY DEF Works, Locks, Shapes, SlotHeld
<1>3. SessionHeld'
  BY DEF Works, Locks, Shapes, SessionHeld, SftpAssumption
<1>4. SshHeld'
  BY DEF Works, Locks, SshHeld
<1>5. Dialled'
  BY DEF Works, Locks, Shapes, Dialled
<1> QED
  BY <1>1, <1>2, <1>3, <1>4, <1>5 DEF Locks

\* So does every step of the SFTP file system.
LEMMA StepKeepsLocks ==
    ASSUME Locks, SftpAssumption, SftpStep
    PROVE  Locks'
<1>1. ASSUME NEW u \in Users, LookForTunnel(u) PROVE Locks'
  <2>1. Shapes'
    BY <1>1 DEF LookForTunnel, Locks, Shapes, tunnels, Goto, Steps
  <2>2. SlotHeld'
    BY <1>1 DEF LookForTunnel, Locks, Shapes, SlotHeld, tunnels, Goto
  <2>3. SessionHeld'
    BY <1>1 DEF LookForTunnel, Locks, Shapes, SessionHeld, Goto
  <2>4. SshHeld'
    BY <1>1 DEF LookForTunnel, Locks, SshHeld
  <2>5. Dialled'
    BY <1>1 DEF LookForTunnel, Locks, Shapes, Dialled, Goto
  <2> QED
    BY <2>1, <2>2, <2>3, <2>4, <2>5 DEF Locks
<1>2. ASSUME NEW u \in Users, AskTunnel(u) PROVE Locks'
  <2>1. Shapes'
    <3>1. port' \in [Users -> 0..MaxTunnels] /\ DOMAIN forwarder' = Users
      BY <1>2 DEF AskTunnel, AfterPort, Dial, Locks, Shapes
    <3>2. \E s \in Steps : step' = [step EXCEPT ![u] = s]
      BY <1>2 DEF AskTunnel, AfterPort, Dial, Goto, Steps
    <3>3. step' \in [Users -> Steps]
      BY <3>2 DEF Locks, Shapes
    <3> QED
      BY <1>2, <3>1, <3>3 DEF AskTunnel, Locks, Shapes, tunnels
  <2>2. SlotHeld'
    BY <1>2 DEF AskTunnel, AfterPort, Dial, Locks, Shapes, SlotHeld, Goto
  <2>3. SessionHeld'
    BY <1>2 DEF AskTunnel, AfterPort, Dial, Locks, Shapes, SessionHeld, Goto
  <2>4. SshHeld'
    BY <1>2 DEF AskTunnel, AfterPort, Dial, Locks, Shapes, SshHeld, Dialled
  <2>5. Dialled'
    BY <1>2 DEF AskTunnel, AfterPort, Dial, Locks, Shapes, SlotHeld, Dialled, Goto
  <2> QED
    BY <2>1, <2>2, <2>3, <2>4, <2>5 DEF Locks
<1>3. ASSUME NEW u \in Users, ClearTunnel(u) PROVE Locks'
  <2>1. Shapes'
    BY <1>3 DEF ClearTunnel, Locks, Shapes, mutexes, Goto, Steps
  <2>2. SlotHeld'
    BY <1>3 DEF ClearTunnel, Locks, SlotHeld, mutexes, Goto
  <2>3. SessionHeld'
    BY <1>3 DEF ClearTunnel, Locks, SessionHeld, mutexes, Goto
  <2>4. SshHeld'
    BY <1>3 DEF ClearTunnel, Locks, SshHeld, mutexes
  <2>5. Dialled'
    BY <1>3 DEF ClearTunnel, Locks, Dialled, Goto
  <2> QED
    BY <2>1, <2>2, <2>3, <2>4, <2>5 DEF Locks
<1>4. ASSUME NEW u \in Users, BuildTunnel(u) PROVE Locks'
  <2>1. Shapes'
    <3>1. built + 1 \in 1..MaxTunnels /\ built' = built + 1 /\ tunnel' = built + 1
      BY <1>4 DEF BuildTunnel, Locks, Shapes, SftpAssumption
    <3>2. port' \in [Users -> 0..MaxTunnels]
      BY <1>4, <3>1 DEF BuildTunnel, Locks, Shapes, SftpAssumption
    <3>3. step' \in [Users -> Steps]
      <4>1. \E s \in Steps : step' = [step EXCEPT ![u] = s]
        BY <1>4 DEF BuildTunnel, AfterPort, Dial, Goto, Steps
      <4> QED
        BY <4>1 DEF Locks, Shapes
    <3>4. DOMAIN forwarder' = Users /\ UNCHANGED <<job, mutexes>>
      BY <1>4 DEF BuildTunnel, AfterPort, Dial, Locks, Shapes
    <3> QED
      BY <3>1, <3>2, <3>3, <3>4 DEF Locks, Shapes, mutexes
  <2>2. SlotHeld'
    BY <1>4 DEF BuildTunnel, AfterPort, Dial, Locks, Shapes, SlotHeld, mutexes, Goto
  <2>3. SessionHeld'
    BY <1>4 DEF BuildTunnel, AfterPort, Dial, Locks, Shapes, SessionHeld, mutexes, Goto
  <2>4. SshHeld'
    BY <1>4 DEF BuildTunnel, AfterPort, Dial, Locks, Shapes, SshHeld, Dialled, mutexes, Goto
  <2>5. Dialled'
    BY <1>4 DEF BuildTunnel, AfterPort, Dial, Locks, Shapes, Dialled, Goto
  <2> QED
    BY <2>1, <2>2, <2>3, <2>4, <2>5 DEF Locks
<1>5. ASSUME NEW u \in Users, BuildFails(u) PROVE Locks'
  <2>1. Shapes'
    BY <1>5 DEF BuildFails, Locks, Shapes, tunnels, Goto, Return, Steps
  <2>2. SlotHeld'
    BY <1>5 DEF BuildFails, Locks, SlotHeld, tunnels, Goto, Return
  <2>3. SessionHeld'
    BY <1>5 DEF BuildFails, Locks, SessionHeld, Goto, Return
  <2>4. SshHeld'
    BY <1>5 DEF BuildFails, Locks, SshHeld
  <2>5. Dialled'
    BY <1>5 DEF BuildFails, Locks, Dialled, Goto, Return
  <2> QED
    BY <2>1, <2>2, <2>3, <2>4, <2>5 DEF Locks
<1>6. ASSUME NEW u \in Users, TakeSsh(u) PROVE Locks'
  <2>1. Shapes'
    BY <1>6 DEF TakeSsh, Locks, Shapes, tunnels, thread
  <2>2. SlotHeld'
    BY <1>6 DEF TakeSsh, Locks, SlotHeld, tunnels, thread
  <2>3. SessionHeld'
    BY <1>6 DEF TakeSsh, Locks, SessionHeld, thread
  <2>4. SshHeld'
    BY <1>6 DEF TakeSsh, Locks, Shapes, SshHeld, thread
  <2>5. Dialled'
    BY <1>6 DEF TakeSsh, Locks, Dialled, thread
  <2> QED
    BY <2>1, <2>2, <2>3, <2>4, <2>5 DEF Locks
<1>7. ASSUME NEW u \in Users, OpenChannel(u) PROVE Locks'
  <2>1. Shapes'
    BY <1>7 DEF OpenChannel, ReleaseSsh, Locks, Shapes, tunnels, thread
  <2>2. SlotHeld'
    BY <1>7 DEF OpenChannel, Locks, SlotHeld, tunnels, thread
  <2>3. SessionHeld'
    BY <1>7 DEF OpenChannel, Locks, SessionHeld, thread
  <2>4. SshHeld'
    BY <1>7 DEF OpenChannel, ReleaseSsh, Locks, Shapes, SshHeld, thread
  <2>5. Dialled'
    BY <1>7 DEF OpenChannel, Locks, Dialled, thread
  <2> QED
    BY <2>1, <2>2, <2>3, <2>4, <2>5 DEF Locks
<1>8. ASSUME NEW u \in Users, ClearSlot(u) PROVE Locks'
  <2>1. Shapes'
    BY <1>8 DEF ClearSlot, Locks, Shapes, thread
  <2>2. SlotHeld'
    BY <1>8 DEF ClearSlot, Locks, SlotHeld, thread
  <2>3. SessionHeld'
    BY <1>8 DEF ClearSlot, Locks, SessionHeld, thread
  <2>4. SshHeld'
    BY <1>8 DEF ClearSlot, Locks, Shapes, SshHeld, thread
  <2>5. Dialled'
    BY <1>8 DEF ClearSlot, Locks, Dialled, thread
  <2> QED
    BY <2>1, <2>2, <2>3, <2>4, <2>5 DEF Locks
<1>9. ASSUME NEW u \in Users, Enter(u) PROVE Locks'
  <2>1. Shapes'
    BY <1>9 DEF Enter, Reconnect, Dial, Locks, Shapes, SlotHeld, tunnels, Goto, Steps
  <2>2. SlotHeld'
    BY <1>9 DEF Enter, Reconnect, Dial, Locks, Shapes, SlotHeld, tunnels, Goto
  <2>3. SessionHeld'
    BY <1>9 DEF Enter, Reconnect, Dial, Locks, Shapes, SessionHeld, Goto
  <2>4. SshHeld'
    BY <1>9 DEF Enter, Reconnect, Dial, Locks, Shapes, SshHeld, Dialled
  <2>5. Dialled'
    BY <1>9 DEF Enter, Reconnect, Dial, Locks, Shapes, Dialled, Goto
  <2> QED
    BY <2>1, <2>2, <2>3, <2>4, <2>5 DEF Locks
<1>10. ASSUME NEW u \in Users, Connected(u) PROVE Locks'
  <2>1. Shapes'
    BY <1>10 DEF Connected, Locks, Shapes, mutexes, tunnels, Goto, Steps
  <2>2. SlotHeld'
    BY <1>10 DEF Connected, Locks, SlotHeld, mutexes, tunnels, Goto
  <2>3. SessionHeld'
    BY <1>10 DEF Connected, Locks, SessionHeld, mutexes, Goto
  <2>4. SshHeld'
    BY <1>10 DEF Connected, Locks, SshHeld, mutexes
  <2>5. Dialled'
    BY <1>10 DEF Connected, Locks, Shapes, Dialled, Goto
  <2> QED
    BY <2>1, <2>2, <2>3, <2>4, <2>5 DEF Locks
<1>11. ASSUME NEW u \in Users, NotConnected(u) PROVE Locks'
  <2>1. Shapes'
    BY <1>11 DEF NotConnected, Locks, Shapes, tunnels, Goto, Return, Steps
  <2>2. SlotHeld'
    BY <1>11 DEF NotConnected, Locks, SlotHeld, tunnels, Goto, Return
  <2>3. SessionHeld'
    BY <1>11 DEF NotConnected, Locks, SessionHeld, Goto, Return
  <2>4. SshHeld'
    BY <1>11 DEF NotConnected, Locks, SshHeld
  <2>5. Dialled'
    BY <1>11 DEF NotConnected, Locks, Shapes, Dialled, Goto, Return
  <2> QED
    BY <2>1, <2>2, <2>3, <2>4, <2>5 DEF Locks
<1>12. ASSUME NEW u \in Users, AttemptFails(u) PROVE Works(u)
  BY <1>12 DEF AttemptFails, Again, Return, Goto, Others, tunnels, Works
<1>13. ASSUME NEW u \in Users, AnswerLost(u) PROVE Locks'
  BY <1>13, LocksStand DEF AnswerLost, mutexes, tunnels, thread
<1>14. ASSUME NEW u \in Users, List(u) PROVE Works(u)
  BY <1>14 DEF List, Running, Ended, Return, Goto, Others, tunnels, Works
<1>15. ASSUME NEW u \in Users, Delete(u) PROVE Works(u)
  <2>1. step' = [step EXCEPT ![u] = "run"] \/ Again(u) \/ Ended(u)
    BY <1>15 DEF Delete, Running, Locks, Shapes
  <2> QED
    BY <1>15, <2>1 DEF Delete, Running, Again, Ended, Return, Goto, Others, tunnels, Works
<1>16. ASSUME NEW u \in Users, Create(u) PROVE Works(u)
  BY <1>16 DEF Create, Running, Goto, Others, tunnels, Works
<1>17. ASSUME NEW u \in Users, Fill(u) PROVE Works(u)
  BY <1>17 DEF Fill, Ended, Return, Goto, Others, tunnels, Works
<1>18. ASSUME NEW u \in Users, Read(u) PROVE Works(u)
  BY <1>18 DEF Read, Running, Return, Goto, Others, tunnels, Works
<1>19. ASSUME LinkDies \/ SessionCloses PROVE Locks'
  BY <1>19, LocksStand DEF LinkDies, SessionCloses, mutexes, tunnels, thread
<1> QED
  BY <1>1, <1>2, <1>3, <1>4, <1>5, <1>6, <1>7, <1>8, <1>9, <1>10, <1>11, <1>12, <1>13, <1>14,
     <1>15, <1>16, <1>17, <1>18, <1>19, WorkKeepsLocks DEF SftpStep, Operate, Forward

\* So does a caller that begins an operation or takes what it returned.
LEMMA CallersKeepLocks ==
    ASSUME Locks, SftpAssumption, NEW u \in Users,
           (\E j : Call(u, j)) \/ (step[u] = "returned" /\ Taken(u))
    PROVE  Locks'
<1>1. CASE \E j : Call(u, j)
  <2>1. PICK j : Call(u, j)
    BY <1>1
  <2>2. Shapes'
    BY <2>1 DEF Call, Locks, Shapes, mutexes, tunnels, Goto, Steps
  <2>3. SlotHeld' /\ SessionHeld'
    BY <2>1 DEF Call, Locks, Shapes, SlotHeld, SessionHeld, mutexes, tunnels, Goto
  <2>4. SshHeld' /\ Dialled'
    BY <2>1 DEF Call, Locks, Shapes, SshHeld, Dialled, mutexes, Goto
  <2> QED
    BY <2>2, <2>3, <2>4 DEF Locks
<1>2. CASE step[u] = "returned" /\ Taken(u)
  <2>1. Shapes'
    BY <1>2 DEF Taken, Locks, Shapes, mutexes, tunnels, Steps
  <2>2. SlotHeld' /\ SessionHeld'
    BY <1>2 DEF Taken, Locks, Shapes, SlotHeld, SessionHeld, mutexes, tunnels
  <2>3. SshHeld' /\ Dialled'
    BY <1>2 DEF Taken, Locks, Shapes, SshHeld, Dialled, mutexes
  <2> QED
    BY <2>1, <2>2, <2>3 DEF Locks
<1> QED
  BY <1>1, <1>2

-------------------------------------------------------------------------------
(* The requests to the peer.                                                 *)

\* No step leaves anybody in the map once its request is over.
LEMMA PeerKeepsWaiters ==
    ASSUME NoStaleWaiter,
           \/ PeerStep
           \/ \E r : Request(r)
           \/ stage = "returned" /\ ReplyTaken
    PROVE  NoStaleWaiter'
<1>1. CASE \E r : Request(r)
  BY <1>1 DEF NoStaleWaiter, Request, Stage
<1>2. CASE stage = "returned" /\ ReplyTaken
  BY <1>2 DEF NoStaleWaiter, ReplyTaken
<1>3. CASE Send
  BY <1>3 DEF NoStaleWaiter, Send, Close, Stage
<1>4. CASE Receive
  BY <1>4 DEF NoStaleWaiter, Receive, Received, NextPath, Close, Stage
<1>5. CASE SendChunk
  BY <1>5 DEF NoStaleWaiter, SendChunk, Stage
<1>6. CASE SendEnd
  BY <1>6 DEF NoStaleWaiter, SendEnd, Close, Stage
<1>7. CASE TimeOut
  BY <1>7 DEF NoStaleWaiter, TimeOut, Close, Stage
<1>8. CASE Arrive \/ Deliver \/ LinkBreaks
  BY <1>8 DEF NoStaleWaiter, Arrive, Deliver, LinkBreaks, waiting
<1> QED
  BY <1>1, <1>2, <1>3, <1>4, <1>5, <1>6, <1>7, <1>8 DEF PeerStep, AskPeer

-------------------------------------------------------------------------------
(* The move.                                                                 *)

\* A step of the whole is one step of the SFTP file system, or none.
LEMMA OnSftp ==
    ASSUME RemoteMoveAssumption, [Next]_vars
    PROVE  \/ SftpStep
           \/ \E u \in Users : (\E j : Call(u, j)) \/ (step[u] = "returned" /\ Taken(u))
           \/ UNCHANGED sftpVars
<1> DEFINE Callers == \E u \in Users : (\E j : Call(u, j)) \/ (step[u] = "returned" /\ Taken(u))
<1>a. mover \in Users /\ panel \in Users
  BY DEF RemoteMoveAssumption
<1>b. ASSUME NEW j, Sftp(j) PROVE Callers
  BY <1>a, <1>b DEF Sftp
<1>c. ASSUME NEW x, NEW a, Says(x, a) PROVE Callers \/ UNCHANGED sftpVars
  BY <1>a, <1>c DEF Says, SftpSays
<1>d. ASSUME NEW x, NEW s, Deletion(x, s) PROVE Callers \/ UNCHANGED sftpVars
  BY <1>b, <1>d DEF Deletion, Peer
<1> HIDE DEF Callers
<1>1. ASSUME ReadItem PROVE Callers \/ UNCHANGED sftpVars
  BY <1>1, <1>b DEF ReadItem, Peer
<1>2. ASSUME WriteItem PROVE Callers \/ UNCHANGED sftpVars
  BY <1>a, <1>2 DEF WriteItem, SftpSays, Callers
<1>3. ASSUME NextItem \/ ItemFails \/ GivenUp \/ EndSweep PROVE Callers \/ UNCHANGED sftpVars
  BY <1>3, <1>c DEF NextItem, ItemFails, GivenUp, EndSweep
<1>4. ASSUME Sweep \/ GiveUp(FALSE) \/ GiveUp(TRUE) PROVE Callers \/ UNCHANGED sftpVars
  BY <1>4, <1>d DEF Sweep, GiveUp
<1>5. ASSUME Cancelled PROVE Callers \/ UNCHANGED sftpVars
  BY <1>5, <1>c DEF Cancelled
<1>6. ASSUME PanelCalls \/ PanelAnswered PROVE Callers
  BY <1>a, <1>6 DEF PanelCalls, PanelAnswered, Callers
<1>7. ASSUME Retry \/ PeerNext \/ UNCHANGED vars PROVE UNCHANGED sftpVars
  BY <1>7 DEF Retry, PeerNext, vars
<1> QED
  BY <1>1, <1>2, <1>3, <1>4, <1>5, <1>6, <1>7 DEF Next, Move, Decide, SftpNext, Callers

\* It is one step of the peer's file system, or none.
LEMMA OnPeer ==
    ASSUME [Next]_vars
    PROVE  \/ PeerStep
           \/ \E r : Request(r)
           \/ stage = "returned" /\ ReplyTaken
           \/ UNCHANGED peerVars
<1> DEFINE Asked == (\E r : Request(r)) \/ (stage = "returned" /\ ReplyTaken)
<1>a. ASSUME NEW x, NEW a, Says(x, a) PROVE Asked \/ UNCHANGED peerVars
  BY <1>a DEF Says, PeerSays
<1>b. ASSUME NEW x, NEW s, Deletion(x, s) PROVE Asked \/ UNCHANGED peerVars
  BY <1>b DEF Deletion, Sftp, Peer
<1> HIDE DEF Asked
<1>1. ASSUME ReadItem PROVE Asked \/ UNCHANGED peerVars
  BY <1>1 DEF ReadItem, Sftp, Peer, Asked
<1>2. ASSUME WriteItem PROVE Asked \/ UNCHANGED peerVars
  BY <1>2 DEF WriteItem, PeerSays, Asked
<1>3. ASSUME NextItem \/ ItemFails \/ GivenUp \/ EndSweep PROVE Asked \/ UNCHANGED peerVars
  BY <1>3, <1>a DEF NextItem, ItemFails, GivenUp, EndSweep
<1>4. ASSUME Sweep \/ GiveUp(FALSE) \/ GiveUp(TRUE) PROVE Asked \/ UNCHANGED peerVars
  BY <1>4, <1>b DEF Sweep, GiveUp
<1>5. ASSUME Cancelled PROVE Asked \/ UNCHANGED peerVars
  BY <1>5, <1>a DEF Cancelled
<1>6. ASSUME PanelCalls \/ PanelAnswered \/ Retry \/ SftpNext \/ UNCHANGED vars
      PROVE  UNCHANGED peerVars
  BY <1>6 DEF PanelCalls, PanelAnswered, Retry, SftpNext, vars
<1> QED
  BY <1>1, <1>2, <1>3, <1>4, <1>5, <1>6 DEF Next, Move, Decide, PeerNext, Asked

\* At the start everything is free.
LEMMA InitLocks ==
    ASSUME Init, SftpAssumption
    PROVE  Locks /\ NoStaleWaiter
<1>1. Shapes
  BY DEF Init, SftpInit, SftpAssumption, Shapes, Steps
<1>2. SlotHeld /\ SessionHeld
  BY DEF Init, SftpInit, SftpAssumption, SlotHeld, SessionHeld
<1>3. SshHeld /\ Dialled
  BY DEF Init, SftpInit, SftpAssumption, SshHeld, Dialled
<1>4. NoStaleWaiter
  BY DEF Init, PeerInit, NoStaleWaiter
<1> QED
  BY <1>1, <1>2, <1>3, <1>4 DEF Locks

\* The mutexes of the SFTP file system are held as they should be.
LEMMA LocksKept == Spec => []Locks
<1>1. Init => Locks
  BY InitLocks, SftpAssumption
<1>2. ASSUME Locks, [Next]_vars PROVE Locks'
  <2>1. CASE UNCHANGED sftpVars
    BY <1>2, <2>1 DEF sftpVars, mutexes, tunnels, thread, Locks, Shapes, SlotHeld, SessionHeld,
                      SshHeld, Dialled
  <2> QED
    BY <1>2, <2>1, OnSftp, StepKeepsLocks, CallersKeepLocks, SftpAssumption, RemoteMoveAssumption
<1> QED
  BY <1>1, <1>2, PTL DEF Spec

\* Of the operations and forwarders of the SFTP file system one can always go
\* on: the mutexes of the session, the slot and each tunnel's SSH session are
\* taken in several orders, but never in a circle.
THEOREM NobodyStuck == Spec => []SomebodyGoesOn
<1>1. Locks => SomebodyGoesOn
  BY NoCircle, SftpAssumption
<1> QED
  BY <1>1, LocksKept, PTL

\* Whoever waits for a peer's answer is in the map of pending requests, and
\* nobody else, whatever times out, is refused, or is sent in part.
THEOREM WaitersLeave == Spec => []NoStaleWaiter
<1>1. Init => NoStaleWaiter
  BY InitLocks, SftpAssumption
<1>2. ASSUME NoStaleWaiter, [Next]_vars PROVE NoStaleWaiter'
  <2>1. CASE UNCHANGED peerVars
    BY <1>2, <2>1 DEF peerVars, waiting, NoStaleWaiter
  <2> QED
    BY <1>2, <2>1, OnPeer, PeerKeepsWaiters
<1> QED
  BY <1>1, <1>2, PTL DEF Spec

-------------------------------------------------------------------------------
(* The list a move sweeps.                                                   *)

\* What is left of the files, and a list whose later members are smaller.
Kept == Files \ skipped
Downwards(s) == \A i, j \in DOMAIN s : i < j => s[j] < s[i]

\* A set of numbers that is not empty has a least one.
LEMMA LeastNumber ==
    ASSUME NEW T \in SUBSET Nat, T # {}
    PROVE  \E n \in T : \A m \in T : n <= m
<1>1. PICK n \in T : \A m \in T : ~ (<<m, n>> \in OpToRel(<, Nat))
  BY NatLessThanWellFounded, WFMin
<1>2. ASSUME NEW m \in T PROVE n <= m
  <2>1. ~ (m < n)
    BY <1>1 DEF OpToRel
  <2> QED
    BY <2>1
<1> QED
  BY <1>2

\* What holds at zero, and at every number if at the one before, holds up to n.
LEMMA EveryNumber ==
    ASSUME NEW n \in Nat, NEW G \in SUBSET (0..n), 0 \in G,
           \A i \in 1..n : i - 1 \in G => i \in G
    PROVE  \A i \in 0..n : i \in G
<1> DEFINE T == {i \in 0..n : i \notin G}
<1> SUFFICES ASSUME T # {} PROVE FALSE
  OBVIOUS
<1>1. PICK k \in T : \A m \in T : k <= m
  <2>1. T \in SUBSET Nat
    OBVIOUS
  <2> QED
    BY <2>1, LeastNumber
<1>2. k # 0 /\ k \in 1..n
  BY <1>1
<1>3. k - 1 \in G
  BY <1>1, <1>2
<1> QED
  BY <1>1, <1>2, <1>3

\* One file after the other is put in front, unless it was skipped.
Before(f, s) == (IF f \in skipped THEN <<>> ELSE <<f>>) \o s
Pass(g, n) == g = [f \in 0..n |-> IF f = 0 THEN <<>> ELSE Before(f, g[f - 1])]

\* There is a pass over any number of files.
LEMMA PassExists == \A n \in Nat : \E g : Pass(g, n)
<1> DEFINE T == {n \in Nat : ~ \E g : Pass(g, n)}
<1> SUFFICES ASSUME T # {} PROVE FALSE
  OBVIOUS
<1>1. PICK n \in T : \A m \in T : n <= m
  BY LeastNumber
<1>2. n # 0
  <2>1. Pass([f \in 0..0 |-> <<>>], 0)
    BY DEF Pass
  <2> QED
    BY <1>1, <2>1
<1>3. PICK g : Pass(g, n - 1)
  <2>1. n - 1 \in Nat /\ n - 1 \notin T
    BY <1>1, <1>2
  <2> QED
    BY <2>1
<1> DEFINE h == [f \in 0..n |-> IF f < n THEN g[f] ELSE Before(n, g[n - 1])]
<1>4. ASSUME NEW f \in 0..n PROVE h[f] = IF f = 0 THEN <<>> ELSE Before(f, h[f - 1])
  <2>1. n \in Nat
    OBVIOUS
  <2>2. CASE f < n
    <3>1. f \in 0..(n - 1) /\ g[f] = IF f = 0 THEN <<>> ELSE Before(f, g[f - 1])
      BY <1>3, <2>1, <2>2 DEF Pass
    <3>2. f # 0 => h[f - 1] = g[f - 1]
      BY <2>1, <2>2
    <3> QED
      BY <2>2, <3>1, <3>2
  <2>3. CASE f = n
    <3>1. h[n - 1] = g[n - 1]
      BY <1>2, <2>1
    <3> QED
      BY <1>2, <2>3, <3>1
  <2> QED
    BY <2>1, <2>2, <2>3
<1>5. Pass(h, n)
  <2> HIDE DEF h
  <2>1. h = [f \in 0..n |-> h[f]]
    BY DEF h
  <2> QED
    BY <1>4, <2>1 DEF Pass
<1> QED
  BY <1>1, <1>5

\* The sequence s lists the set K, the greatest first.
Lists(s, K) ==
    /\ s \in Seq(K)
    /\ Downwards(s)
    /\ \A f \in K : \E i \in DOMAIN s : s[i] = f

\* A greater one in front makes a longer list.
LEMMA GreaterInFront ==
    ASSUME NEW K \in SUBSET Nat, NEW s, Lists(s, K), NEW f \in Nat, \A k \in K : k < f
    PROVE  Lists(<<f>> \o s, K \union {f})
<1> DEFINE t == <<f>> \o s
<1>1. /\ s \in Seq(K \union {f}) /\ <<f>> \in Seq(K \union {f})
      /\ Len(s) \in Nat /\ DOMAIN s = 1..Len(s) /\ Len(<<f>>) = 1 /\ <<f>>[1] = f
      /\ \A i \in 1..Len(s) : s[i] \in K
  BY DEF Lists
<1>2. /\ t \in Seq(K \union {f}) /\ Len(t) = Len(s) + 1 /\ DOMAIN t = 1..(Len(s) + 1)
      /\ t[1] = f /\ \A i \in 2..(Len(s) + 1) : t[i] = s[i - 1]
  <2>1. /\ t \in Seq(K \union {f}) /\ Len(t) = Len(<<f>>) + Len(s)
        /\ \A i \in 1..(Len(<<f>>) + Len(s)) :
              t[i] = IF i <= Len(<<f>>) THEN <<f>>[i] ELSE s[i - Len(<<f>>)]
    BY <1>1, ConcatProperties
  <2> HIDE DEF t
  <2>2. DOMAIN t = 1..Len(t)
    BY <2>1
  <2> QED
    BY <1>1, <2>1, <2>2
<1> HIDE DEF t
<1>3. Downwards(t)
  <2> SUFFICES ASSUME NEW i \in DOMAIN t, NEW j \in DOMAIN t, i < j PROVE t[j] < t[i]
    BY DEF Downwards
  <2>1. j \in 2..(Len(s) + 1) /\ j - 1 \in 1..Len(s) /\ t[j] = s[j - 1] /\ s[j - 1] \in K
    BY <1>1, <1>2
  <2>2. CASE i = 1
    BY <1>2, <2>1, <2>2
  <2>3. CASE i # 1
    <3>1. i \in 2..(Len(s) + 1) /\ i - 1 \in 1..Len(s) /\ t[i] = s[i - 1] /\ i - 1 < j - 1
      BY <1>1, <1>2, <2>3
    <3> QED
      BY <1>1, <2>1, <3>1 DEF Lists, Downwards
  <2> QED
    BY <2>2, <2>3
<1>4. ASSUME NEW g \in K \union {f} PROVE \E i \in DOMAIN t : t[i] = g
  <2>1. CASE g = f
    BY <1>1, <1>2, <2>1
  <2>2. CASE g # f
    <3>1. PICK i \in 1..Len(s) : s[i] = g
      BY <1>1, <2>2 DEF Lists
    <3>2. i + 1 \in 2..(Len(s) + 1) /\ i + 1 \in DOMAIN t /\ (i + 1) - 1 = i
      BY <1>1, <1>2
    <3> QED
      BY <1>2, <3>1, <3>2
  <2> QED
    BY <2>1, <2>2
<1> QED
  BY <1>2, <1>3, <1>4 DEF Lists, t

\* The sweep has exactly what was not skipped on its list, last one first.
LEMMA SweptLists ==
    ASSUME RemoteMoveAssumption
    PROVE  Lists(Swept, Kept)
<1> DEFINE g == CHOOSE h : h = [f \in 0..N |->
                   IF f = 0 THEN <<>>
                   ELSE (IF f \in skipped THEN <<>> ELSE <<f>>) \o h[f - 1]]
<1>1. N \in Nat /\ Files = 1..N
  BY DEF RemoteMoveAssumption
<1>2. Pass(g, N) /\ Swept = g[N]
  <2>1. \E h : Pass(h, N)
    BY <1>1, PassExists
  <2>2. Pass(g, N)
    BY <2>1 DEF Pass, Before
  <2> QED
    BY <2>2 DEF Swept
<1> HIDE DEF g
<1> DEFINE K(n) == {f \in Kept : f <= n}
           G == {n \in 0..N : Lists(g[n], K(n))}
<1>3. 0 \in G
  <2>1. g[0] = <<>> /\ K(0) = {} /\ 0 \in 0..N
    BY <1>1, <1>2 DEF Pass, Kept
  <2>2. Lists(<<>>, {})
    BY DEF Lists, Downwards
  <2> QED
    BY <2>1, <2>2
<1>4. ASSUME NEW n \in 1..N, n - 1 \in G PROVE n \in G
  <2>1. n \in Nat /\ n \in 0..N /\ n \in Files /\ g[n] = Before(n, g[n - 1])
    BY <1>1, <1>2 DEF Pass
  <2>2. Lists(g[n - 1], K(n - 1))
    BY <1>4
  <2>3. CASE n \in skipped
    <3>1. K(n) = K(n - 1)
      BY <1>1, <2>1, <2>3 DEF Kept
    <3>2. g[n] = g[n - 1]
      <4>1. g[n - 1] \in Seq(K(n - 1))
        BY <2>2 DEF Lists
      <4>2. g[n] = <<>> \o g[n - 1]
        BY <2>1, <2>3 DEF Before
      <4> QED
        BY <4>1, <4>2, ConcatEmptySeq
    <3> HIDE DEF K
    <3> QED
      BY <2>1, <2>2, <3>1, <3>2
  <2>4. CASE n \notin skipped
    <3>1. K(n) = K(n - 1) \union {n} /\ K(n - 1) \in SUBSET Nat /\ \A k \in K(n - 1) : k < n
      BY <1>1, <2>1, <2>4 DEF Kept
    <3>2. g[n] = <<n>> \o g[n - 1]
      BY <2>1, <2>4 DEF Before
    <3> HIDE DEF K
    <3> DEFINE k == K(n - 1)
               q == g[n - 1]
    <3>3. Lists(<<n>> \o q, k \union {n})
      <4>1. k \in SUBSET Nat /\ Lists(q, k) /\ n \in Nat /\ \A i \in k : i < n
        BY <2>1, <2>2, <3>1
      <4> HIDE DEF k, q
      <4> QED
        BY <4>1, GreaterInFront
    <3> QED
      BY <2>1, <3>1, <3>2, <3>3
  <2> QED
    BY <2>3, <2>4
<1> HIDE DEF G
<1>5. N \in G
  <2>1. G \in SUBSET (0..N)
    BY DEF G
  <2>2. \A i \in 1..N : i - 1 \in G => i \in G
    BY <1>4
  <2>3. \A i \in 0..N : i \in G
    BY <1>1, <1>3, <2>1, <2>2, EveryNumber
  <2> QED
    BY <1>1, <2>3
<1>6. K(N) = Kept
  BY <1>1 DEF Kept
<1> QED
  BY <1>2, <1>5, <1>6 DEF G

-------------------------------------------------------------------------------
(* What an operation of the SFTP file system is, and what a step does to it. *)

\* The session, the tunnels and the answers have the type they should; the
\* rest of SftpTypeOK is in Shapes.
Fields ==
    /\ session \in 0..MaxTunnels /\ closed \in BOOLEAN
    /\ link \in [1..MaxTunnels -> BOOLEAN] /\ auth \in [1..MaxTunnels -> BOOLEAN]
    /\ forwarder \in [Users -> {"none", "accepted", "opening", "open", "clearing", "failed"}]
    /\ attempts \in [Users -> 0..1]
    /\ answer \in [Users -> {"none", "ok", "error"}]
    /\ store \in [Files -> {"none", "part", "full"}]
    /\ cuts \in Nat /\ cuts <= faults /\ faults \in 0..MaxFaults

\* An operation has what its kind needs, its place in a list is on the list,
\* and its answer is there exactly once it has returned.
WellFormed(j) ==
    /\ j.kind \in {"list", "read", "write", "delete"}
    /\ j.kind \in {"read", "write"} => j.file \in Files
    /\ j.kind = "delete" => j.paths \in Seq(Files) /\ j.paths # <<>>

JobOf(u) ==
    /\ step[u] = "idle" <=> job[u].kind = "none"
    /\ step[u] # "idle" => WellFormed(job[u])
    /\ job[u].kind = "delete" => next[u] \in 1..Len(job[u].paths)
    /\ step[u] = "fill" => job[u].kind = "write"
    /\ answer[u] = "none" <=> step[u] # "returned"

Jobs == next \in [Users -> Nat] /\ \A u \in Users : JobOf(u)

\* One path of the list of u is deleted: the place moves on, stays where the
\* answer is lost, or goes back to the first where the path was gone already.
DeletesOne(u, n, a) ==
    /\ job[u].kind = "delete" /\ step[u] = "run"
    /\ store' = [store EXCEPT ![job[u].paths[next[u]]] = "none"]
    /\ \/ a = "none" /\ n = next[u]
       \/ a = "none" /\ n = next[u] + 1 /\ next[u] # Len(job[u].paths)
       \/ a = "ok" /\ n = next[u] /\ next[u] = Len(job[u].paths)

WritesSome(u, n, a) ==
    /\ job[u].kind = "write" /\ n = next[u]
    /\ \/ a = "none" /\ store' = [store EXCEPT ![job[u].file] = "part"]
       \/ a = "error" /\ store' = store
       \/ a \in {"ok", "error"} /\ store' = [store EXCEPT ![job[u].file] = "full"]

\* All a step of u's thread does to the operation and to the files.
AdvancesTo(u, s, n, a) ==
    /\ step' = [step EXCEPT ![u] = s]
    /\ next' = [next EXCEPT ![u] = n]
    /\ answer' = [answer EXCEPT ![u] = a]
    /\ s = "fill" => job[u].kind = "write"
    /\ a = "none" <=> s # "returned"
    /\ \/ UNCHANGED store /\ n \in {1, next[u]} /\ (a = "ok" => job[u].kind \in {"list", "read"})
       \/ DeletesOne(u, n, a)
       \/ WritesSome(u, n, a)

Advances(u) ==
    /\ step[u] \notin {"idle", "returned"}
    /\ UNCHANGED job
    /\ \E s \in Steps \ {"idle"}, n \in Nat, a \in {"none", "ok", "error"} : AdvancesTo(u, s, n, a)

opVars == <<job, step, next, answer, store>>

\* A thread that only goes from one point to another advances, and so does
\* one that returns an error or tries again.
LEMMA GoesOn ==
    ASSUME Locks, Fields, Jobs, NEW u \in Users, step[u] \notin {"idle", "returned"},
           NEW s \in Steps \ {"idle", "fill", "returned"}, Goto(u, s),
           UNCHANGED <<job, next, answer, store>>
    PROVE  Advances(u)
<1>1. /\ next[u] \in Nat /\ answer[u] = "none"
      /\ next' = [next EXCEPT ![u] = next[u]] /\ answer' = [answer EXCEPT ![u] = "none"]
  BY DEF Jobs, JobOf, Fields
<1>2. AdvancesTo(u, s, next[u], "none")
  BY <1>1 DEF Goto, AdvancesTo
<1> QED
  BY <1>1, <1>2 DEF Advances

\* An operation that fails advances to its end.
LEMMA Errs ==
    ASSUME Locks, Fields, Jobs, NEW u \in Users, step[u] \notin {"idle", "returned"},
           Return(u, "error"), UNCHANGED <<job, next, store>>
    PROVE  Advances(u)
<1>1. next[u] \in Nat /\ next' = [next EXCEPT ![u] = next[u]]
  BY DEF Jobs
<1>2. AdvancesTo(u, "returned", next[u], "error")
  BY <1>1 DEF Return, Goto, AdvancesTo
<1> QED
  BY <1>1, <1>2 DEF Advances, Steps

\* One that starts a second attempt goes back to the beginning of it.
LEMMA TriesAgain ==
    ASSUME Locks, Fields, Jobs, NEW u \in Users, step[u] \notin {"idle", "returned"},
           Again(u), UNCHANGED <<job, store>>
    PROVE  Advances(u)
<1>1. CASE attempts[u] = 0
  <2>1. answer[u] = "none" /\ answer' = [answer EXCEPT ![u] = "none"]
    BY <1>1 DEF Again, Jobs, JobOf, Fields
  <2>2. AdvancesTo(u, "enter", 1, "none")
    BY <1>1, <2>1 DEF Again, Goto, AdvancesTo
  <2> QED
    BY <2>2 DEF Advances, Steps
<1>2. CASE attempts[u] # 0
  BY <1>2, Errs DEF Again
<1> QED
  BY <1>1, <1>2

\* A step of the SFTP file system is one of a thread on its operation, or it
\* touches neither the operations nor the files.
LEMMA StepAdvances ==
    ASSUME Locks, Fields, Jobs, SftpAssumption, SftpStep
    PROVE  (\E u \in Users : Advances(u)) \/ UNCHANGED opVars
<1>1. ASSUME NEW u \in Users, LookForTunnel(u) PROVE Advances(u)
  <2>1. Goto(u, "clear") \/ Goto(u, "peek")
    BY <1>1 DEF LookForTunnel
  <2> QED
    BY <1>1, <2>1, GoesOn DEF LookForTunnel, Steps
<1>2. ASSUME NEW u \in Users, AskTunnel(u) PROVE Advances(u)
  <2>1. Goto(u, "clear") \/ Goto(u, "handshake") \/ Goto(u, "enter")
    BY <1>2 DEF AskTunnel, AfterPort, Dial
  <2> QED
    BY <1>2, <2>1, GoesOn DEF AskTunnel, Steps
<1>3. ASSUME NEW u \in Users, ClearTunnel(u) PROVE Advances(u)
  BY <1>3, GoesOn DEF ClearTunnel, Steps
<1>4. ASSUME NEW u \in Users, BuildTunnel(u) PROVE Advances(u)
  <2>1. Goto(u, "handshake") \/ Goto(u, "enter")
    BY <1>4 DEF BuildTunnel, AfterPort, Dial
  <2> QED
    BY <1>4, <2>1, GoesOn DEF BuildTunnel, Steps
<1>5. ASSUME NEW u \in Users, BuildFails(u) PROVE Advances(u)
  BY <1>5, Errs DEF BuildFails
<1>6. ASSUME NEW u \in Users, Forward(u) PROVE UNCHANGED opVars
  BY <1>6 DEF Forward, TakeSsh, OpenChannel, ClearSlot, thread, opVars
<1>7. ASSUME NEW u \in Users, Enter(u) PROVE Advances(u)
  <2>1. Goto(u, "run") \/ Goto(u, "resolve") \/ Goto(u, "handshake")
    BY <1>7 DEF Enter, Reconnect, Dial
  <2> QED
    BY <1>7, <2>1, GoesOn DEF Enter, Steps
<1>8. ASSUME NEW u \in Users, Connected(u) PROVE Advances(u)
  BY <1>8, GoesOn DEF Connected, Steps
<1>9. ASSUME NEW u \in Users, NotConnected(u) PROVE Advances(u)
  BY <1>9, Errs DEF NotConnected
<1>10. ASSUME NEW u \in Users, AttemptFails(u) PROVE Advances(u)
  BY <1>10, TriesAgain DEF AttemptFails, Others
<1>11. ASSUME NEW u \in Users, AnswerLost(u) PROVE Advances(u)
  <2>1. /\ next[u] \in Nat /\ answer[u] = "none" /\ step[u] = "run"
        /\ step' = [step EXCEPT ![u] = "run"] /\ next' = [next EXCEPT ![u] = next[u]]
        /\ answer' = [answer EXCEPT ![u] = "none"]
    BY <1>11 DEF AnswerLost, Running, thread, Locks, Shapes, Jobs, JobOf, Fields
  <2>2. AdvancesTo(u, "run", next[u], "none")
    BY <1>11, <2>1 DEF AnswerLost, Running, AdvancesTo, DeletesOne
  <2> QED
    BY <1>11, <2>1, <2>2 DEF AnswerLost, thread, Advances, Steps
<1>12. ASSUME NEW u \in Users, List(u) PROVE Advances(u)
  <2>1. AdvancesTo(u, "returned", next[u], "ok")
    BY <1>12 DEF List, Running, Ended, Return, Goto, AdvancesTo, Jobs
  <2> QED
    BY <1>12, <2>1 DEF List, Running, Others, Advances, Steps, Jobs
<1>13. ASSUME NEW u \in Users, Delete(u) PROVE Advances(u)
  <2> DEFINE f == job[u].paths[next[u]]
  <2>1. /\ step[u] = "run" /\ job[u].kind = "delete" /\ answer[u] = "none" /\ UNCHANGED job
        /\ store' = [store EXCEPT ![f] = "none"] /\ next[u] \in Nat /\ f \in Files
    BY <1>13 DEF Delete, Running, Others, Jobs, JobOf, WellFormed
  <2>2. CASE store[f] = "none"
    <3>1. Again(u) /\ UNCHANGED store
      BY <1>13, <2>1, <2>2 DEF Delete, Fields
    <3> QED
      BY <2>1, <3>1, TriesAgain
  <2>3. CASE store[f] # "none" /\ next[u] = Len(job[u].paths)
    <3>1. Ended(u)
      BY <1>13, <2>3 DEF Delete
    <3>2. next' = [next EXCEPT ![u] = next[u]]
      BY <3>1 DEF Ended, Jobs
    <3>3. AdvancesTo(u, "returned", next[u], "ok")
      BY <2>1, <2>3, <3>1, <3>2 DEF Ended, Return, Goto, AdvancesTo, DeletesOne
    <3> QED
      BY <2>1, <3>3 DEF Advances, Steps
  <2>4. CASE store[f] # "none" /\ next[u] # Len(job[u].paths)
    <3>1. next' = [next EXCEPT ![u] = next[u] + 1] /\ UNCHANGED <<step, answer>>
      BY <1>13, <2>4 DEF Delete
    <3>2. step' = [step EXCEPT ![u] = "run"] /\ answer' = [answer EXCEPT ![u] = "none"]
      BY <2>1, <3>1 DEF Locks, Shapes, Fields
    <3>3. AdvancesTo(u, "run", next[u] + 1, "none")
      BY <2>1, <2>4, <3>1, <3>2 DEF AdvancesTo, DeletesOne
    <3> QED
      BY <2>1, <3>3 DEF Advances, Steps
  <2> QED
    BY <2>2, <2>3, <2>4
<1>14. ASSUME NEW u \in Users, Create(u) PROVE Advances(u)
  <2>1. /\ job[u].kind = "write" /\ next[u] \in Nat
        /\ next' = [next EXCEPT ![u] = next[u]] /\ answer' = [answer EXCEPT ![u] = "none"]
    BY <1>14 DEF Create, Running, Jobs, JobOf, Fields
  <2>2. AdvancesTo(u, "fill", next[u], "none")
    BY <1>14, <2>1 DEF Create, Goto, AdvancesTo, WritesSome
  <2> QED
    BY <1>14, <2>1, <2>2 DEF Create, Running, Others, Advances, Steps
<1>15. ASSUME NEW u \in Users, Fill(u) PROVE Advances(u)
  <2>1. /\ job[u].kind = "write" /\ next[u] \in Nat /\ next' = [next EXCEPT ![u] = next[u]]
        /\ UNCHANGED job
    BY <1>15 DEF Fill, Ended, Others, Jobs, JobOf
  <2>2. CASE SessionLive
    <3>1. AdvancesTo(u, "returned", next[u], "ok")
      BY <1>15, <2>1, <2>2 DEF Fill, Ended, Return, Goto, AdvancesTo, WritesSome
    <3> QED
      BY <1>15, <2>1, <3>1 DEF Fill, Advances, Steps
  <2>3. CASE ~SessionLive
    <3>1. AdvancesTo(u, "returned", next[u], "error")
      BY <1>15, <2>1, <2>3 DEF Fill, Return, Goto, AdvancesTo, WritesSome
    <3> QED
      BY <1>15, <2>1, <3>1 DEF Fill, Advances, Steps
  <2> QED
    BY <2>2, <2>3
<1>16. ASSUME NEW u \in Users, Read(u) PROVE Advances(u)
  <2>1. /\ next[u] \in Nat /\ next' = [next EXCEPT ![u] = next[u]] /\ job[u].kind = "read"
    BY <1>16 DEF Read, Running, Jobs
  <2>2. \E a \in {"ok", "error"} : AdvancesTo(u, "returned", next[u], a)
    BY <1>16, <2>1 DEF Read, Running, Return, Goto, AdvancesTo
  <2> QED
    BY <1>16, <2>1, <2>2 DEF Read, Running, Others, Advances, Steps
<1>17. ASSUME LinkDies \/ SessionCloses PROVE UNCHANGED opVars
  BY <1>17 DEF LinkDies, SessionCloses, thread, opVars
<1> QED
  BY <1>1, <1>2, <1>3, <1>4, <1>5, <1>6, <1>7, <1>8, <1>9, <1>10, <1>11, <1>12, <1>13, <1>14,
     <1>15, <1>16, <1>17 DEF SftpStep, Operate

\* What a step does to its own thread, it does to nobody else's.
LEMMA OnlyOne ==
    ASSUME Locks, Fields, Jobs, NEW u \in Users, Advances(u)
    PROVE  /\ UNCHANGED job
           /\ step[u] \notin {"idle", "returned"} /\ step'[u] \in Steps \ {"idle"}
           /\ \A v \in Users \ {u} : step'[v] = step[v] /\ next'[v] = next[v] /\ answer'[v] = answer[v]
           /\ step' \in [Users -> Steps] /\ next' \in [Users -> Nat]
           /\ AdvancesTo(u, step'[u], next'[u], answer'[u])
<1>1. PICK s \in Steps \ {"idle"}, n \in Nat, a \in {"none", "ok", "error"} : AdvancesTo(u, s, n, a)
  BY DEF Advances
<1>2. /\ step \in [Users -> Steps] /\ next \in [Users -> Nat]
      /\ answer \in [Users -> {"none", "ok", "error"}]
  BY DEF Locks, Shapes, Jobs, Fields
<1>3. /\ step' = [step EXCEPT ![u] = s] /\ next' = [next EXCEPT ![u] = n]
      /\ answer' = [answer EXCEPT ![u] = a]
  BY <1>1 DEF AdvancesTo
<1>4. step'[u] = s /\ next'[u] = n /\ answer'[u] = a
  BY <1>2, <1>3
<1> QED
  BY <1>1, <1>2, <1>3, <1>4 DEF Advances

\* An operation under way goes on with the job it was given.
LEMMA AdvancingKeepsJobs ==
    ASSUME Locks, Fields, Jobs, NEW u \in Users, Advances(u)
    PROVE  Jobs'
<1>1. /\ UNCHANGED job
      /\ step[u] \notin {"idle", "returned"} /\ step'[u] \in Steps \ {"idle"}
      /\ \A v \in Users \ {u} : step'[v] = step[v] /\ next'[v] = next[v] /\ answer'[v] = answer[v]
      /\ step' \in [Users -> Steps] /\ next' \in [Users -> Nat]
      /\ AdvancesTo(u, step'[u], next'[u], answer'[u])
  BY OnlyOne
<1>2. ASSUME NEW v \in Users \ {u} PROVE JobOf(v)'
  BY <1>1 DEF Jobs, JobOf, WellFormed
<1>3. JobOf(u)'
  <2>1. WellFormed(job[u])'
    BY <1>1 DEF Jobs, JobOf, WellFormed
  <2>2. ASSUME job[u].kind = "delete" PROVE next'[u] \in 1..Len(job[u].paths)
    <3>1. Len(job[u].paths) \in Nat /\ next[u] \in 1..Len(job[u].paths)
      BY <1>1, <2>2 DEF Jobs, JobOf, WellFormed
    <3>2. \/ next'[u] \in {1, next[u]}
          \/ next'[u] = next[u] + 1 /\ next[u] # Len(job[u].paths)
      BY <1>1 DEF AdvancesTo, DeletesOne, WritesSome
    <3> QED
      BY <3>1, <3>2
  <2>3. /\ step'[u] = "fill" => job[u].kind = "write"
        /\ answer'[u] = "none" <=> step'[u] # "returned"
        /\ job[u].kind # "none"
    BY <1>1 DEF AdvancesTo, Jobs, JobOf, WellFormed
  <2> QED
    BY <1>1, <2>1, <2>2, <2>3 DEF JobOf
<1> QED
  BY <1>1, <1>2, <1>3 DEF Jobs

\* A caller begins what is well formed, or takes what was returned.
Begins(u) == \E j : WellFormed(j) /\ Call(u, j)
Takes(u) == step[u] = "returned" /\ Taken(u)

\* A call brings a job of its own, and its end leaves none.
LEMMA CallersKeepJobs ==
    ASSUME Locks, Fields, Jobs, NEW u \in Users, Begins(u) \/ Takes(u)
    PROVE  Jobs'
<1>1. CASE Begins(u)
  <2>1. PICK j : WellFormed(j) /\ Call(u, j)
    BY <1>1 DEF Begins
  <2>2. /\ job'[u] = j /\ next'[u] = 1 /\ step'[u] \notin {"idle", "fill", "returned"}
        /\ answer'[u] = "none" /\ next' \in [Users -> Nat]
        /\ \A v \in Users \ {u} :
              job'[v] = job[v] /\ step'[v] = step[v] /\ next'[v] = next[v] /\ answer'[v] = answer[v]
    BY <2>1 DEF Call, Goto, Locks, Shapes, Jobs, JobOf
  <2>3. j.kind = "delete" => 1 \in 1..Len(j.paths)
    BY <2>1 DEF WellFormed
  <2>4. JobOf(u)'
    BY <2>1, <2>2, <2>3 DEF JobOf, WellFormed
  <2>5. ASSUME NEW v \in Users \ {u} PROVE JobOf(v)'
    BY <2>2 DEF Jobs, JobOf, WellFormed
  <2> QED
    BY <2>2, <2>4, <2>5 DEF Jobs
<1>2. CASE Takes(u)
  <2>1. /\ job'[u].kind = "none" /\ step'[u] = "idle" /\ answer'[u] = "none"
        /\ next' \in [Users -> Nat]
        /\ \A v \in Users \ {u} :
              job'[v] = job[v] /\ step'[v] = step[v] /\ next'[v] = next[v] /\ answer'[v] = answer[v]
    BY <1>2 DEF Takes, Taken, NoJob, Locks, Shapes, Fields, Jobs
  <2>2. JobOf(u)'
    BY <2>1 DEF JobOf
  <2>3. ASSUME NEW v \in Users \ {u} PROVE JobOf(v)'
    BY <2>1 DEF Jobs, JobOf, WellFormed
  <2> QED
    BY <2>1, <2>2, <2>3 DEF Jobs
<1> QED
  BY <1>1, <1>2

\* The fields keep their types: all but the answer and the files step by step.
LEMMA AdvancingKeepsFiles ==
    ASSUME Locks, Fields, Jobs, NEW u \in Users, Advances(u)
    PROVE  answer' \in [Users -> {"none", "ok", "error"}] /\ store' \in [Files -> {"none", "part", "full"}]
<1>1. PICK s \in Steps \ {"idle"}, n \in Nat, a \in {"none", "ok", "error"} : AdvancesTo(u, s, n, a)
  BY DEF Advances
<1>2. answer' \in [Users -> {"none", "ok", "error"}]
  BY <1>1 DEF AdvancesTo, Fields
<1>3. store' \in [Files -> {"none", "part", "full"}]
  BY <1>1 DEF AdvancesTo, DeletesOne, WritesSome, Fields
<1> QED
  BY <1>2, <1>3

\* What is left of Fields.
Rest ==
    /\ session \in 0..MaxTunnels /\ closed \in BOOLEAN
    /\ link \in [1..MaxTunnels -> BOOLEAN] /\ auth \in [1..MaxTunnels -> BOOLEAN]
    /\ forwarder \in [Users -> {"none", "accepted", "opening", "open", "clearing", "failed"}]
    /\ attempts \in [Users -> 0..1]
    /\ cuts \in Nat /\ cuts <= faults /\ faults \in 0..MaxFaults

\* Every step of the SFTP file system keeps the types.
LEMMA StepKeepsFields ==
    ASSUME Locks, Fields, Jobs, SftpAssumption, SftpStep
    PROVE  Fields'
<1>0. MaxTunnels \in Nat /\ MaxFaults \in Nat
  BY DEF SftpAssumption
<1>1. ASSUME NEW u \in Users, LookForTunnel(u) \/ ClearTunnel(u) \/ TakeSsh(u) \/ ClearSlot(u)
      PROVE  Rest'
  BY <1>1 DEF LookForTunnel, ClearTunnel, TakeSsh, ClearSlot, tunnels, mutexes, thread, Fields, Rest
<1>2. ASSUME NEW u \in Users, AskTunnel(u) PROVE Rest'
  BY <1>2 DEF AskTunnel, AfterPort, Dial, tunnels, Fields, Rest
<1>3. ASSUME NEW u \in Users, BuildTunnel(u) PROVE Rest'
  BY <1>3 DEF BuildTunnel, AfterPort, Dial, Fields, Rest
<1>4. ASSUME NEW u \in Users, BuildFails(u) PROVE Rest'
  BY <1>0, <1>4 DEF BuildFails, Fault, tunnels, Fields, Rest
<1>5. ASSUME NEW u \in Users, OpenChannel(u) PROVE Rest'
  BY <1>5 DEF OpenChannel, tunnels, thread, Fields, Rest
<1>6. ASSUME NEW u \in Users, Enter(u) PROVE Rest'
  <2>1. session' \in {0, session}
    BY <1>6 DEF Enter
  <2>3. closed' \in BOOLEAN
    BY <1>6, Zenon DEF Enter, Fields
  <2>2. forwarder' = forwarder \/ forwarder' = [forwarder EXCEPT ![u] = "accepted"]
    BY <1>6 DEF Enter, Reconnect, Dial
  <2> QED
    BY <1>0, <1>6, <2>1, <2>2, <2>3 DEF Enter, tunnels, Fields, Rest
<1>7. ASSUME NEW u \in Users, Connected(u) \/ NotConnected(u) PROVE Rest'
  <2>1. session' \in {session, port[u]}
    BY <1>7 DEF Connected, NotConnected
  <2>3. closed' \in BOOLEAN
    BY <1>7, Zenon DEF Connected, NotConnected, Fields
  <2>2. forwarder' = [forwarder EXCEPT ![u] = "none"] /\ UNCHANGED <<tunnels, attempts, cuts, faults>>
    BY <1>7 DEF Connected, NotConnected
  <2> QED
    BY <2>1, <2>2, <2>3 DEF tunnels, Locks, Shapes, Fields, Rest
<1>8. ASSUME NEW u \in Users, Again(u), UNCHANGED Others, faults' = faults \/ Fault PROVE Rest'
  <2>1. session' \in {0, session}
    BY <1>8 DEF Again
  <2>4. closed' \in BOOLEAN
    BY <1>8, Zenon DEF Again, Fields
  <2>3. attempts' = attempts \/ attempts' = [attempts EXCEPT ![u] = 1]
    BY <1>8 DEF Again
  <2>2. faults' \in 0..MaxFaults /\ cuts' \in Nat /\ cuts' <= faults'
    BY <1>0, <1>8 DEF Fault, Others, Fields
  <2> QED
    BY <1>0, <1>8, <2>1, <2>2, <2>3, <2>4 DEF Others, tunnels, Fields, Rest
<1>9. ASSUME NEW u \in Users, AttemptFails(u) PROVE Rest'
  BY <1>8, <1>9 DEF AttemptFails
<1>10. ASSUME NEW u \in Users, AnswerLost(u) PROVE Rest'
  BY <1>0, <1>10 DEF AnswerLost, Fault, tunnels, thread, Fields, Rest
<1>11. ASSUME NEW u \in Users, Delete(u) PROVE Rest'
  <2>1. CASE Again(u)
    BY <1>8, <1>11, <2>1 DEF Delete
  <2>2. CASE UNCHANGED <<attempts, session, closed>>
    BY <1>11, <2>2 DEF Delete, Others, tunnels, Fields, Rest
  <2> QED
    BY <1>11, <2>1, <2>2 DEF Delete, Ended
<1>12. ASSUME NEW u \in Users, List(u) \/ Create(u) \/ Fill(u) PROVE Rest'
  BY <1>12 DEF List, Create, Fill, Ended, Others, tunnels, Fields, Rest
<1>13. ASSUME NEW u \in Users, Read(u) PROVE Rest'
  BY <1>0, <1>13 DEF Read, Fault, Others, tunnels, Fields, Rest
<1>14. ASSUME LinkDies PROVE Rest'
  <2>1. link' \in [1..MaxTunnels -> BOOLEAN] /\ auth' \in [1..MaxTunnels -> BOOLEAN]
    BY <1>14 DEF LinkDies, Fields
  <2>2. faults' \in 0..MaxFaults /\ cuts' \in Nat /\ cuts' <= faults'
    BY <1>0, <1>14 DEF LinkDies, Fault, Fields
  <2> QED
    BY <1>14, <2>1, <2>2 DEF LinkDies, thread, Fields, Rest
<1>15. ASSUME SessionCloses PROVE Rest'
  BY <1>0, <1>15 DEF SessionCloses, Fault, tunnels, thread, Fields, Rest
<1>16. Rest'
  BY <1>1, <1>2, <1>3, <1>4, <1>5, <1>6, <1>7, <1>9, <1>10, <1>11, <1>12, <1>13, <1>14, <1>15
  DEF SftpStep, Operate, Forward
<1>17. answer' \in [Users -> {"none", "ok", "error"}] /\ store' \in [Files -> {"none", "part", "full"}]
  BY StepAdvances, AdvancingKeepsFiles DEF opVars, Fields
<1> QED
  BY <1>16, <1>17 DEF Rest, Fields

\* So do the calls and the reading of their results.
LEMMA CallersKeepFields ==
    ASSUME Locks, Fields, NEW u \in Users, Begins(u) \/ Takes(u)
    PROVE  Fields'
<1>1. CASE Begins(u)
  BY <1>1 DEF Begins, Call, tunnels, Fields
<1>2. CASE Takes(u)
  BY <1>2 DEF Takes, Taken, tunnels, Fields
<1> QED
  BY <1>1, <1>2

-------------------------------------------------------------------------------
(* What goes to the peer and comes back.                                     *)

\* The sequence t is s without its first, and s with e behind it.
Shortens(s, t) ==
    /\ 1 \in DOMAIN s
    /\ \A i \in DOMAIN t : i \in Nat /\ i + 1 \in DOMAIN s /\ t[i] = s[i + 1]
    /\ \A i \in DOMAIN s : i # 1 => i - 1 \in DOMAIN t /\ t[i - 1] = s[i]

Lengthens(s, e, t) ==
    /\ \A i \in DOMAIN s : i \in Nat /\ i < Len(s) + 1 /\ i \in DOMAIN t /\ t[i] = s[i]
    /\ Len(s) + 1 \in DOMAIN t /\ t[Len(s) + 1] = e
    /\ \A i \in DOMAIN t : i = Len(s) + 1 \/ i \in DOMAIN s

\* A queue without its first element.
LEMMA TailOf ==
    ASSUME NEW S, NEW s \in Seq(S), s # <<>>
    PROVE  Tail(s) \in Seq(S) /\ Head(s) = s[1] /\ Len(Tail(s)) = Len(s) - 1 /\ Shortens(s, Tail(s))
<1>1. /\ Head(s) = s[1] /\ Tail(s) \in Seq(S) /\ Len(Tail(s)) = Len(s) - 1
      /\ \A i \in 1..Len(Tail(s)) : Tail(s)[i] = s[i + 1]
  BY HeadTailProperties
<1>2. DOMAIN s = 1..Len(s) /\ Len(s) \in Nat \ {0} /\ DOMAIN Tail(s) = 1..(Len(s) - 1)
  BY <1>1
<1> DEFINE t == Tail(s)
<1> HIDE DEF t
<1>3. Shortens(s, t)
  BY <1>1, <1>2 DEF Shortens, t
<1> QED
  BY <1>1, <1>3 DEF t

\* A queue with one more element.
LEMMA AppendOf ==
    ASSUME NEW S, NEW s \in Seq(S), NEW e \in S
    PROVE  Append(s, e) \in Seq(S) /\ Len(Append(s, e)) = Len(s) + 1 /\ Lengthens(s, e, Append(s, e))
<1> DEFINE t == Append(s, e)
<1>1. /\ t \in Seq(S) /\ Len(t) = Len(s) + 1 /\ t[Len(s) + 1] = e
      /\ \A i \in 1..Len(s) : t[i] = s[i]
  BY AppendProperties
<1> HIDE DEF t
<1>2. DOMAIN s = 1..Len(s) /\ Len(s) \in Nat /\ DOMAIN t = 1..(Len(s) + 1)
  BY <1>1
<1>3. Lengthens(s, e, t)
  BY <1>1, <1>2 DEF Lengthens
<1> QED
  BY <1>1, <1>3 DEF t

Requests == [kind : {"upload", "download", "delete"}, file : PeerFiles, rest : Seq(PeerFiles)]
Commands == [kind : {"upload", "download", "delete", "chunk", "complete"}, id : Ids, file : PeerFiles]
AnswerKinds == {"accepted", "content", "complete", "done", "refused"}
Answers == [kind : AnswerKinds, id : Ids]

\* What is on its way has the id of a request that was made, and what is asked
\* for is there exactly while it is asked for.
Letters ==
    /\ used \in Nat
    /\ queue \in Seq(Commands) /\ \A i \in DOMAIN queue : queue[i].id <= used
    /\ inbox \in Seq(Answers) /\ \A i \in DOMAIN inbox : inbox[i].id <= used
    /\ mail \in Seq(AnswerKinds \ {"content"})
    /\ \A i \in Ids : i > used => uploads[i] = "none"
    /\ stage = "idle" => request = NoRequest
    /\ stage # "idle" => request \in Requests /\ used > 0
    /\ stage \in {"chunk", "end"} => request.kind = "upload"
    /\ reply = "none" <=> stage # "returned"

\* A new id is taken; the request ends; it puts a letter into the queue; or it
\* reads that it was accepted.
Renews(r) ==
    /\ used < MaxRequests /\ used' = used + 1
    /\ request' = r /\ mail' = <<>> /\ stage' = "send"
    /\ stage \in {"idle", "await"}
    /\ UNCHANGED <<reply, temp, wire, shared, lost, unstored, broken, peerFaults>>

Quits ==
    /\ UNCHANGED <<used, wire, shared, lost, unstored, broken>>
    /\ \/ /\ stage' = "idle" /\ request' = NoRequest /\ mail' = <<>> /\ reply' = "none"
          /\ temp' = "none" /\ UNCHANGED peerFaults
       \/ /\ stage' = "returned" /\ request' = request /\ reply' \in {"ok", "error"}
          /\ stage \in {"send", "await"}
          /\ mail' = mail \/ (mail # <<>> /\ mail' = Tail(mail))
          /\ temp' = temp /\ peerFaults' \in 0..MaxPeerFaults

Posts(k, s) ==
    /\ \/ stage = "send" /\ k = request.kind /\ s = "await" /\ reply' = reply
       \/ stage = "chunk" /\ k = "chunk" /\ s = "end" /\ reply' = reply
       \/ stage = "end" /\ k = "complete" /\ s = "returned" /\ reply' = "ok"
    /\ Len(queue) < Capacity
    /\ queue' = Append(queue, Message(k)) /\ stage' = s
    /\ UNCHANGED <<request, used, mail, temp, inbox, uploads, shared, lost, unstored, broken, peerFaults>>

Reads ==
    /\ stage = "await" /\ mail # <<>> /\ mail' = Tail(mail) /\ Head(mail) = "accepted"
    /\ \/ request.kind = "upload" /\ stage' = "chunk"
       \/ request.kind = "download" /\ stage' = "await"
    /\ UNCHANGED <<request, used, reply, temp, wire, shared, lost, unstored, broken, peerFaults>>

AsksPeer == \E r \in Requests : Request(r)
ReadsReply == stage = "returned" /\ ReplyTaken

\* What a step of the link does, told by its effect on the request under way.
LEMMA PeerDoes ==
    ASSUME Letters, PeerTypeOK, PeerAssumption, PeerStep \/ AsksPeer \/ ReadsReply
    PROVE  \/ \E r \in Requests : Renews(r)
           \/ Quits \/ Reads
           \/ \E k, s : Posts(k, s)
           \/ Arrive \/ Deliver \/ LinkBreaks
<1>0. MaxPeerFaults \in Nat
  BY DEF PeerAssumption
<1>1. ASSUME AsksPeer PROVE \E r \in Requests : Renews(r)
  BY <1>1 DEF AsksPeer, Request, Stage, Renews
<1>2. ASSUME ReadsReply PROVE Quits
  BY <1>2 DEF ReadsReply, ReplyTaken, Quits
<1>3. ASSUME Send PROVE Quits \/ \E k, s : Posts(k, s)
  <2>1. CASE Len(queue) < Capacity
    <3>1. Posts(request.kind, "await")
      BY <1>3, <2>1 DEF Send, Stage, Posts
    <3> QED
      BY <3>1
  <2>2. CASE ~(Len(queue) < Capacity)
    BY <1>3, <2>2 DEF Send, Close, Stage, Quits, wire, PeerTypeOK
  <2> QED
    BY <2>1, <2>2
<1>4. ASSUME SendChunk PROVE Posts("chunk", "end")
  BY <1>4 DEF SendChunk, Stage, Posts
<1>5. ASSUME SendEnd PROVE Posts("complete", "returned")
  BY <1>5 DEF SendEnd, Close, Stage, Posts
<1>6. ASSUME TimeOut PROVE Quits
  BY <1>0, <1>6 DEF TimeOut, PeerFault, Close, Stage, Quits, PeerTypeOK
<1>7. ASSUME Receive PROVE Quits \/ Reads \/ \E r \in Requests : Renews(r)
  <2>1. stage = "await" /\ mail # <<>> /\ request \in Requests
    BY <1>7 DEF Receive, Letters
  <2>2. UNCHANGED <<temp, wire, shared, lost, unstored, broken, peerFaults>> /\ Received(Head(mail))
    BY <1>7 DEF Receive
  <2>3. CASE request.kind = "delete" /\ Head(mail) = "done" /\ request.rest # <<>>
    <3>1. NextPath
      BY <2>2, <2>3 DEF Received
    <3>2. Head(request.rest) \in PeerFiles /\ Tail(request.rest) \in Seq(PeerFiles)
      BY <2>1, <2>3 DEF Requests
    <3>3. request' \in Requests
      BY <2>1, <3>1, <3>2 DEF NextPath, Requests
    <3> QED
      BY <2>1, <2>2, <3>1, <3>3 DEF NextPath, Stage, Renews
  <2>4. CASE ~(request.kind = "delete" /\ Head(mail) = "done" /\ request.rest # <<>>)
    <3>1. mail' = Tail(mail) /\ UNCHANGED <<request, used>>
      BY <2>2, <2>4 DEF Received
    <3>2. CASE request.kind = "upload" /\ Head(mail) = "accepted"
      BY <2>1, <2>2, <2>4, <3>1, <3>2 DEF Received, Stage, Reads
    <3>3. CASE request.kind = "download" /\ Head(mail) = "accepted"
      BY <2>1, <2>2, <2>4, <3>1, <3>3 DEF Received, Reads
    <3>4. CASE Head(mail) # "accepted" \/ request.kind = "delete"
      <4>1. \E a \in {"ok", "error"} : Close(a)
        BY <2>1, <2>2, <2>4, <3>4 DEF Received
      <4> QED
        BY <2>1, <2>2, <3>1, <4>1 DEF Close, Stage, Quits, PeerTypeOK
    <3> QED
      BY <2>1, <3>2, <3>3, <3>4 DEF Requests
  <2> QED
    BY <2>3, <2>4
<1> QED
  BY <1>1, <1>2, <1>3, <1>4, <1>5, <1>6, <1>7 DEF PeerStep, AskPeer

\* What comes back when the peer handles a letter is put behind the rest.
Comes(kind, id) == [kind |-> kind, id |-> id]

\* Answers come after those that are on their way.
LEMMA AnswerOf ==
    ASSUME Letters, NEW m, m.id \in 1..used, m.id \in Ids,
           NEW kinds \in Seq(AnswerKinds), Answer(m, kinds)
    PROVE  /\ inbox' \in Seq(Answers) /\ \A i \in DOMAIN inbox' : inbox'[i].id <= used
           /\ \A i \in DOMAIN inbox : i \in DOMAIN inbox' /\ inbox'[i] = inbox[i]
           /\ \A i \in DOMAIN kinds :
                 Len(inbox) + i \in DOMAIN inbox' /\ inbox'[Len(inbox) + i] = Comes(kinds[i], m.id)
           /\ \A i \in DOMAIN inbox' :
                 \/ i \in DOMAIN inbox
                 \/ \E j \in DOMAIN kinds : i = Len(inbox) + j
<1> DEFINE more == [i \in DOMAIN kinds |-> Comes(kinds[i], m.id)]
<1>1. /\ more \in Seq(Answers) /\ Len(more) = Len(kinds)
      /\ \A i \in 1..Len(kinds) : more[i] = Comes(kinds[i], m.id)
  <2>1. Len(kinds) \in Nat /\ DOMAIN kinds = 1..Len(kinds) /\ \A i \in 1..Len(kinds) : kinds[i] \in AnswerKinds
    OBVIOUS
  <2>2. \A i \in 1..Len(kinds) : Comes(kinds[i], m.id) \in Answers
    BY <2>1 DEF Comes, Answers
  <2>3. more = [i \in 1..Len(kinds) |-> Comes(kinds[i], m.id)]
    BY <2>1
  <2> QED
    BY <2>1, <2>2, <2>3, IsASeq
<1>2. inbox' = inbox \o more
  BY DEF Answer, Comes
<1> HIDE DEF more
<1>3. /\ inbox' \in Seq(Answers) /\ Len(inbox') = Len(inbox) + Len(kinds)
      /\ \A i \in 1..(Len(inbox) + Len(kinds)) :
            inbox'[i] = IF i <= Len(inbox) THEN inbox[i] ELSE more[i - Len(inbox)]
  <2>1. inbox \in Seq(Answers)
    BY DEF Letters
  <2>2. /\ inbox \o more \in Seq(Answers) /\ Len(inbox \o more) = Len(inbox) + Len(more)
        /\ \A i \in 1..(Len(inbox) + Len(more)) :
              (inbox \o more)[i] = IF i <= Len(inbox) THEN inbox[i] ELSE more[i - Len(inbox)]
    BY <1>1, <2>1, ConcatProperties
  <2> QED
    BY <1>1, <1>2, <2>2
<1>4. /\ Len(inbox) \in Nat /\ DOMAIN inbox = 1..Len(inbox)
      /\ Len(kinds) \in Nat /\ DOMAIN kinds = 1..Len(kinds)
      /\ DOMAIN inbox' = 1..(Len(inbox) + Len(kinds))
  BY <1>3 DEF Letters
<1>5. \A i \in DOMAIN inbox : i \in DOMAIN inbox' /\ inbox'[i] = inbox[i]
  BY <1>3, <1>4
<1>6. ASSUME NEW i \in DOMAIN kinds
      PROVE  Len(inbox) + i \in DOMAIN inbox' /\ inbox'[Len(inbox) + i] = Comes(kinds[i], m.id)
  <2>1. /\ Len(inbox) + i \in 1..(Len(inbox) + Len(kinds))
        /\ ~(Len(inbox) + i <= Len(inbox)) /\ (Len(inbox) + i) - Len(inbox) = i
    BY <1>4
  <2> QED
    BY <1>1, <1>3, <1>4, <2>1
<1>7. ASSUME NEW i \in DOMAIN inbox', i \notin DOMAIN inbox
      PROVE  \E j \in DOMAIN kinds : i = Len(inbox) + j
  <2>1. i - Len(inbox) \in DOMAIN kinds /\ i = Len(inbox) + (i - Len(inbox))
    BY <1>4, <1>7
  <2> QED
    BY <2>1
<1>8. \A i \in DOMAIN inbox' : inbox'[i].id <= used
  <2> SUFFICES ASSUME NEW i \in DOMAIN inbox' PROVE inbox'[i].id <= used
    OBVIOUS
  <2>1. CASE i \in DOMAIN inbox
    BY <1>5, <2>1 DEF Letters
  <2>2. CASE i \notin DOMAIN inbox
    <3>1. PICK j \in DOMAIN kinds : i = Len(inbox) + j
      BY <1>7, <2>2
    <3>2. inbox'[Len(inbox) + j] = Comes(kinds[j], m.id)
      BY <1>6
    <3>3. Comes(kinds[j], m.id).id = m.id
      BY DEF Comes
    <3> QED
      BY <3>1, <3>2, <3>3 DEF Letters
  <2> QED
    BY <2>1, <2>2
<1> QED
  BY <1>3, <1>5, <1>6, <1>7, <1>8

\* The peer handles the first letter.
Handles(m, kinds) ==
    \/ /\ m.kind = "upload" /\ kinds = <<"accepted">>
       /\ uploads' = [uploads EXCEPT ![m.id] = "empty"]
       /\ UNCHANGED <<shared, lost, unstored, peerFaults>>
    \/ /\ m.kind = "download" /\ kinds = <<"accepted", "content", "complete">> /\ Held(m.file)
       /\ UNCHANGED <<uploads, shared, lost, unstored, peerFaults>>
    \/ /\ m.kind = "delete" /\ kinds = <<"done">> /\ Held(m.file)
       /\ shared' = [shared EXCEPT ![m.file] = "none"]
       /\ UNCHANGED <<uploads, lost, unstored, peerFaults>>
    \/ /\ m.kind \in {"upload", "download", "delete"} /\ kinds = <<"refused">>
       /\ IF m.kind = "upload" \/ Held(m.file) THEN PeerFault ELSE UNCHANGED peerFaults
       /\ UNCHANGED <<uploads, shared, lost, unstored>>
    \/ /\ m.kind = "chunk" /\ kinds = <<>>
       /\ uploads' = [uploads EXCEPT ![m.id] = IF @ = "empty" THEN "filled" ELSE @]
       /\ UNCHANGED <<shared, lost, unstored, peerFaults>>
    \/ /\ m.kind = "complete" /\ kinds = <<>>
       /\ uploads' = [uploads EXCEPT ![m.id] = "none"]
       /\ IF uploads[m.id] = "filled"
          THEN shared' = [shared EXCEPT ![m.file] = "full"] /\ UNCHANGED lost
          ELSE lost' = lost \union {m.file} /\ UNCHANGED shared
       /\ UNCHANGED <<unstored, peerFaults>>
    \/ /\ m.kind = "complete" /\ kinds = <<>>
       /\ PeerFault
       /\ uploads' = [uploads EXCEPT ![m.id] = "none"]
       /\ \E old \in {shared[m.file], "none"} : shared' = [shared EXCEPT ![m.file] = old]
       /\ unstored' = unstored \union {m.file}
       /\ UNCHANGED lost

Answered(m, kinds) ==
    /\ inbox' \in Seq(Answers) /\ \A i \in DOMAIN inbox' : inbox'[i].id <= used
    /\ \A i \in DOMAIN inbox : i \in DOMAIN inbox' /\ inbox'[i] = inbox[i]
    /\ \A i \in DOMAIN kinds :
          Len(inbox) + i \in DOMAIN inbox' /\ inbox'[Len(inbox) + i] = Comes(kinds[i], m.id)
    /\ \A i \in DOMAIN inbox' :
          \/ i \in DOMAIN inbox
          \/ \E j \in DOMAIN kinds : i = Len(inbox) + j

\* The peer handles the first letter of the queue, and answers to its id.
LEMMA ArrivalHandles ==
    ASSUME Letters, Arrive
    PROVE  /\ 1 \in DOMAIN queue /\ queue[1] \in Commands
           /\ queue' \in Seq(Commands) /\ Shortens(queue, queue') /\ Len(queue') = Len(queue) - 1
           /\ UNCHANGED <<waiting, broken>>
           /\ \E kinds \in Seq(AnswerKinds) : Handles(queue[1], kinds) /\ Answered(queue[1], kinds)
<1> DEFINE m == queue[1]
<1>1. /\ queue # <<>> /\ queue' = Tail(queue) /\ queue \in Seq(Commands) /\ UNCHANGED <<waiting, broken>>
  BY DEF Arrive, Letters
<1>2. /\ 1 \in DOMAIN queue /\ queue' \in Seq(Commands) /\ Shortens(queue, queue')
      /\ Head(queue) = m /\ Len(queue') = Len(queue) - 1
  BY <1>1, TailOf DEF Shortens
<1>3. m \in Commands /\ m.id \in 1..used /\ m.id \in Ids
  <2>1. m \in Commands
    BY <1>1, <1>2, ElementOfSeq
  <2>2. m.id \in Ids /\ m.id <= used
    BY <1>2, <2>1 DEF Letters, Commands
  <2> QED
    BY <2>1, <2>2 DEF Letters, Ids
<1>4. /\ <<>> \in Seq(AnswerKinds) /\ <<"accepted">> \in Seq(AnswerKinds) /\ <<"done">> \in Seq(AnswerKinds)
      /\ <<"refused">> \in Seq(AnswerKinds) /\ <<"accepted", "content", "complete">> \in Seq(AnswerKinds)
  BY DEF AnswerKinds
<1>5. ASSUME NEW kinds \in Seq(AnswerKinds), Answer(m, kinds) PROVE Answered(m, kinds)
  <2> HIDE DEF m
  <2> QED
    BY <1>3, <1>5, AnswerOf DEF Answered
<1>6. ASSUME UNCHANGED inbox PROVE Answered(m, <<>>)
  BY <1>6 DEF Answered, Letters
<1>7. \E kinds \in Seq(AnswerKinds) : Handles(m, kinds) /\ (Answer(m, kinds) \/ (kinds = <<>> /\ UNCHANGED inbox))
  <2> HIDE DEF m
  <2> QED
    BY <1>2, <1>4 DEF Arrive, Handles
<1> HIDE DEF m
<1>8. \E kinds \in Seq(AnswerKinds) : Handles(m, kinds) /\ Answered(m, kinds)
  BY <1>5, <1>6, <1>7
<1> QED
  BY <1>1, <1>2, <1>3, <1>8 DEF m

\* The rest of PeerTypeOK; whose answers are waited for is NoStaleWaiter.
PeerFields ==
    /\ stage \in {"idle", "send", "await", "chunk", "end", "returned"}
    /\ reply \in {"none", "ok", "error"}
    /\ used \in 0..MaxRequests
    /\ Len(queue) <= Capacity
    /\ uploads \in [Ids -> {"none", "empty", "filled"}]
    /\ temp \in {"none", "full"}
    /\ shared \in [PeerFiles -> {"none", "full"}]
    /\ lost \subseteq PeerFiles /\ unstored \subseteq PeerFiles
    /\ broken \in BOOLEAN
    /\ peerFaults \in 0..MaxPeerFaults

\* The types of the link follow from those of its letters.
LEMMA PeerTypes ==
    ASSUME PeerFields, Letters, NoStaleWaiter
    PROVE  PeerTypeOK
<1>1. pending \subseteq 1..used
  BY DEF PeerFields, Letters, NoStaleWaiter
<1>2. request.kind \in {"none", "upload", "download", "delete"}
  BY DEF Letters, PeerFields, NoRequest, Requests
<1> QED
  BY <1>1, <1>2 DEF PeerFields, PeerTypeOK

\* Every letter is one.
LEMMA EveryLetter ==
    ASSUME Letters
    PROVE  /\ \A i \in DOMAIN queue :
                 /\ queue[i] \in Commands /\ queue[i].id \in Ids /\ queue[i].id \in Nat
                 /\ queue[i].id <= used /\ queue[i].file \in PeerFiles
           /\ \A i \in DOMAIN inbox :
                 /\ inbox[i] \in Answers /\ inbox[i].id \in Ids /\ inbox[i].id \in Nat
                 /\ inbox[i].id <= used /\ inbox[i].kind \in AnswerKinds
<1>1. queue \in Seq(Commands) /\ inbox \in Seq(Answers)
  BY DEF Letters
<1>2. /\ \A i \in DOMAIN queue : queue[i] \in Commands
      /\ \A i \in DOMAIN inbox : inbox[i] \in Answers
  BY <1>1, ElementOfSeq
<1>3. \A c \in Commands : c.id \in Ids /\ c.id \in Nat /\ c.file \in PeerFiles
  BY DEF Commands, Ids
<1>4. \A a \in Answers : a.id \in Ids /\ a.id \in Nat /\ a.kind \in AnswerKinds
  BY DEF Answers, Ids
<1> QED
  BY <1>2, <1>3, <1>4 DEF Letters

\* A new request has a new id.
LEMMA RenewingKeepsLetters ==
    ASSUME PeerFields, Letters, PeerAssumption, NEW r \in Requests, Renews(r)
    PROVE  PeerFields' /\ Letters'
<1>1. MaxRequests \in Nat /\ used \in Nat /\ used' = used + 1 /\ used' \in 0..MaxRequests
  BY DEF PeerAssumption, PeerFields, Renews
<1>2. PeerFields'
  BY <1>1 DEF PeerFields, Renews, wire
<1>3. \A i \in DOMAIN queue' : queue'[i].id <= used'
  <2>1. \A i \in DOMAIN queue : queue[i].id \in Nat
    BY EveryLetter
  <2> QED
    BY <1>1, <2>1 DEF Letters, Renews, wire
<1>4. \A i \in DOMAIN inbox' : inbox'[i].id <= used'
  <2>1. \A i \in DOMAIN inbox : inbox[i].id \in Nat
    BY EveryLetter
  <2> QED
    BY <1>1, <2>1 DEF Letters, Renews, wire
<1>5. \A i \in Ids : i > used' => uploads'[i] = "none"
  <2>1. \A i \in Ids : i \in Nat
    BY DEF Ids
  <2>2. uploads' = uploads /\ \A i \in Ids : i > used => uploads[i] = "none"
    BY DEF Letters, Renews, wire
  <2> QED
    BY <1>1, <2>1, <2>2
<1>6. mail' \in Seq(AnswerKinds \ {"content"})
  <2>1. mail' = <<>>
    BY DEF Renews
  <2> QED
    BY <2>1
<1> QED
  BY <1>1, <1>2, <1>3, <1>4, <1>5, <1>6 DEF Letters, Renews, wire

\* A request that ends leaves its letters on their way.
LEMMA QuittingKeepsLetters ==
    ASSUME PeerFields, Letters, Quits
    PROVE  PeerFields' /\ Letters'
<1>1. PeerFields'
  BY DEF PeerFields, Quits, wire
<1>2. mail' \in Seq(AnswerKinds \ {"content"})
  <2>1. mail \in Seq(AnswerKinds \ {"content"})
    BY DEF Letters
  <2>2. mail # <<>> => Tail(mail) \in Seq(AnswerKinds \ {"content"})
    BY <2>1, TailOf
  <2>3. <<>> \in Seq(AnswerKinds \ {"content"})
    OBVIOUS
  <2> QED
    BY <2>1, <2>2, <2>3 DEF Quits
<1>3. (stage' = "idle" => request' = NoRequest) /\ (stage' # "idle" => request' \in Requests /\ used' > 0)
  BY DEF Letters, Quits
<1>4. stage' \notin {"chunk", "end"} /\ (reply' = "none" <=> stage' # "returned")
  BY DEF Quits
<1> QED
  BY <1>1, <1>2, <1>3, <1>4 DEF Letters, Quits, wire

\* What is sent has the id of the request under way.
LEMMA PostingKeepsLetters ==
    ASSUME PeerFields, Letters, PeerAssumption, NEW k, NEW s, Posts(k, s)
    PROVE  /\ PeerFields' /\ Letters'
           /\ Lengthens(queue, Message(k), queue')
<1>1. Message(k) \in Commands /\ Message(k).id <= used
  <2>1. /\ request \in Requests /\ used > 0 /\ used \in 0..MaxRequests
        /\ k \in {"upload", "download", "delete", "chunk", "complete"}
    BY DEF Letters, PeerFields, Posts, Requests
  <2> QED
    BY <2>1 DEF Message, Commands, Ids, Requests
<1>2. /\ queue' \in Seq(Commands) /\ Len(queue') = Len(queue) + 1
      /\ Lengthens(queue, Message(k), queue')
  BY <1>1, AppendOf DEF Letters, Posts
<1>3. Len(queue') <= Capacity
  BY <1>2 DEF Posts, Letters, PeerAssumption
<1>4. PeerFields'
  BY <1>3 DEF PeerFields, Posts
<1>5. \A i \in DOMAIN queue' : queue'[i].id <= used
  BY <1>1, <1>2 DEF Lengthens, Letters
<1>6. Letters'
  BY <1>2, <1>5 DEF Letters, Posts, Requests
<1> QED
  BY <1>2, <1>4, <1>6

\* An answer that is read is gone.
LEMMA ReadingKeepsLetters ==
    ASSUME PeerFields, Letters, Reads
    PROVE  PeerFields' /\ Letters' /\ mail[1] = "accepted" /\ Shortens(mail, mail')
<1>1. /\ mail' \in Seq(AnswerKinds \ {"content"}) /\ mail[1] = "accepted"
      /\ Shortens(mail, mail')
  BY TailOf DEF Letters, Reads
<1>2. PeerFields'
  BY DEF PeerFields, Reads, wire
<1> QED
  BY <1>1, <1>2 DEF Letters, Reads, wire

\* The peer answers requests that were made, and no others.
LEMMA ArrivingKeepsLetters ==
    ASSUME PeerFields, Letters, PeerAssumption, Arrive
    PROVE  PeerFields' /\ Letters'
<1> DEFINE m == queue[1]
<1>1. /\ 1 \in DOMAIN queue /\ m \in Commands
      /\ queue' \in Seq(Commands) /\ Shortens(queue, queue') /\ Len(queue') = Len(queue) - 1
      /\ UNCHANGED <<waiting, broken>>
  BY ArrivalHandles
<1>2. PICK kinds \in Seq(AnswerKinds) : Handles(m, kinds) /\ Answered(m, kinds)
  BY ArrivalHandles
<1>3. m.id \in Ids /\ m.file \in PeerFiles /\ m.id <= used
  BY <1>1 DEF Commands, Letters
<1> HIDE DEF m
<1>4. Len(queue') <= Capacity
  <2>1. Len(queue) \in Nat /\ Capacity \in Nat
    BY DEF Letters, PeerAssumption
  <2> QED
    BY <1>1, <2>1 DEF PeerFields
<1>5. uploads' \in [Ids -> {"none", "empty", "filled"}] /\ \A i \in Ids : i > used => uploads'[i] = "none"
  <2>1. uploads' = uploads \/ \E x \in {"none", "empty", "filled"} : uploads' = [uploads EXCEPT ![m.id] = x]
    BY <1>2, <1>3 DEF Handles, PeerFields
  <2>2. used \in Nat /\ Ids \subseteq Nat
    BY DEF Letters, Ids
  <2>3. uploads' \in [Ids -> {"none", "empty", "filled"}]
    BY <2>1 DEF PeerFields
  <2>4. \A i \in Ids : i # m.id => uploads'[i] = uploads[i]
    BY <2>1 DEF PeerFields
  <2>5. \A i \in Ids : i > used => i # m.id
    BY <1>3, <2>2
  <2> QED
    BY <2>3, <2>4, <2>5 DEF Letters
<1>6. /\ shared' \in [PeerFiles -> {"none", "full"}]
      /\ lost' \subseteq PeerFiles /\ unstored' \subseteq PeerFiles
  <2>1. shared' = shared \/ \E x \in {"none", "full"} : shared' = [shared EXCEPT ![m.file] = x]
    BY <1>2, <1>3 DEF Handles, PeerFields
  <2> QED
    BY <1>2, <1>3, <2>1 DEF Handles, PeerFields
<1>7. peerFaults' \in 0..MaxPeerFaults
  <2>1. ASSUME peerFaults' # peerFaults PROVE PeerFault
    BY <1>2, <2>1 DEF Handles
  <2> QED
    BY <2>1 DEF PeerFault, PeerFields, PeerAssumption
<1>8. PeerFields'
  BY <1>1, <1>4, <1>5, <1>6, <1>7 DEF PeerFields, waiting
<1>9. \A i \in DOMAIN queue' : queue'[i].id <= used
  BY <1>1 DEF Shortens, Letters
<1>10. Letters'
  BY <1>1, <1>2, <1>5, <1>9 DEF Letters, Answered, waiting
<1> QED
  BY <1>8, <1>10

\* An answer reaches the channel, its content the temporary file, or neither.
Puts(m) ==
    /\ mail' = IF m.kind # "content" /\ m.id \in pending THEN Append(mail, m.kind) ELSE mail
    /\ temp' = IF m.kind = "content" /\ m.id \in pending THEN "full" ELSE temp

\* An answer that comes in goes to the request that waits for it, or nowhere.
LEMMA DeliveringKeepsLetters ==
    ASSUME PeerFields, Letters, Deliver
    PROVE  /\ PeerFields' /\ Letters'
           /\ 1 \in DOMAIN inbox /\ inbox[1] \in Answers /\ Shortens(inbox, inbox') /\ Puts(inbox[1])
           /\ mail' = mail \/ Lengthens(mail, inbox[1].kind, mail')
<1> DEFINE m == inbox[1]
<1>1. /\ 1 \in DOMAIN inbox /\ inbox' \in Seq(Answers) /\ Shortens(inbox, inbox')
      /\ m = Head(inbox)
  BY TailOf DEF Letters, Deliver, Shortens
<1>2. m \in Answers
  BY <1>1, ElementOfSeq DEF Letters
<1>3. Puts(m)
  BY <1>1 DEF Deliver, Puts
<1> HIDE DEF m
<1>4. mail' \in Seq(AnswerKinds \ {"content"}) /\ (mail' = mail \/ Lengthens(mail, m.kind, mail'))
  <2>1. CASE m.kind # "content" /\ m.id \in pending
    <3>1. m.kind \in AnswerKinds \ {"content"}
      BY <1>2, <2>1 DEF Answers
    <3> QED
      BY <1>3, <2>1, <3>1, AppendOf DEF Puts, Letters
  <2>2. CASE ~(m.kind # "content" /\ m.id \in pending)
    BY <1>3, <2>2 DEF Puts, Letters
  <2> QED
    BY <2>1, <2>2
<1>5. PeerFields'
  BY <1>3 DEF PeerFields, Puts, Deliver
<1>6. \A i \in DOMAIN inbox' : inbox'[i].id <= used
  BY <1>1 DEF Shortens, Letters
<1>7. Letters'
  BY <1>1, <1>4, <1>6 DEF Letters, Deliver
<1> QED
  BY <1>1, <1>2, <1>3, <1>4, <1>5, <1>7 DEF m

\* A link that breaks takes all letters with it.
LEMMA BreakingKeepsLetters ==
    ASSUME PeerFields, Letters, PeerAssumption, LinkBreaks
    PROVE  PeerFields' /\ Letters'
<1>1. queue' = <<>> /\ inbox' = <<>> /\ Len(queue') = 0 /\ DOMAIN queue' = {} /\ DOMAIN inbox' = {}
  BY DEF LinkBreaks
<1>2. lost' \subseteq PeerFiles
  BY EveryLetter DEF LinkBreaks, PeerFields
<1>3. peerFaults' \in 0..MaxPeerFaults /\ 0 <= Capacity
  BY DEF LinkBreaks, PeerFault, PeerFields, PeerAssumption
<1>4. PeerFields'
  BY <1>1, <1>2, <1>3 DEF PeerFields, LinkBreaks, waiting
<1>5. Letters'
  BY <1>1 DEF Letters, LinkBreaks, waiting
<1> QED
  BY <1>4, <1>5

-------------------------------------------------------------------------------
(* In which order things go to the peer and come back.                       *)

AskKinds == {"upload", "download", "delete"}

\* Of a request that was not sent there is nothing anywhere.
Unsent ==
    stage = "send" =>
        /\ \A i \in DOMAIN queue : queue[i].id # used
        /\ \A i \in DOMAIN inbox : inbox[i].id # used
        /\ mail = <<>> /\ uploads[used] = "none"

\* One that the peer has not read is not answered, and nothing follows it.
Unanswered ==
    \A i \in DOMAIN queue : queue[i].kind \in AskKinds =>
        /\ \A j \in DOMAIN inbox : inbox[j].id # queue[i].id
        /\ uploads[queue[i].id] = "none"
        /\ queue[i].id = used => mail = <<>> /\ stage \notin {"chunk", "end"}

\* Two letters of one request are its content and its end.
ChunkThenEnd ==
    \A i, j \in DOMAIN queue :
        i < j /\ queue[i].id = queue[j].id => queue[i].kind = "chunk" /\ queue[j].kind = "complete"

\* What is on its way for the request under way is about it.
Fits(kind) ==
    /\ request.kind = "upload" => kind \in {"accepted", "refused"}
    /\ request.kind = "download" => kind \in {"accepted", "content", "complete", "refused"}
    /\ request.kind = "delete" => kind \in {"done", "refused"}

Belongs(m) ==
    /\ m.file = request.file
    /\ m.kind = request.kind \/ (request.kind = "upload" /\ m.kind \in {"chunk", "complete"})

Fitting ==
    stage # "idle" =>
        /\ \A i \in DOMAIN queue : queue[i].id = used => Belongs(queue[i])
        /\ \A i \in DOMAIN inbox : inbox[i].id = used => Fits(inbox[i].kind)
        /\ \A i \in DOMAIN mail : Fits(mail[i])

\* How far the upload under way has got.
SoFar ==
    /\ stage = "await" => \A i \in DOMAIN queue : queue[i].id = used => queue[i].kind \in AskKinds
    /\ stage = "chunk" => \A i \in DOMAIN queue : queue[i].id # used
    /\ stage = "end" => \A i \in DOMAIN queue : queue[i].id = used => queue[i].kind = "chunk"

InOrder == Unsent /\ Unanswered /\ ChunkThenEnd /\ Fitting /\ SoFar

PeerBasics == PeerFields /\ Letters /\ NoStaleWaiter /\ PeerAssumption

\* No letter of a new request is on its way yet.
LEMMA RenewingKeepsOrder ==
    ASSUME PeerBasics, InOrder, NEW r \in Requests, Renews(r)
    PROVE  InOrder'
<1>1. /\ used' = used + 1 /\ used' \in Ids /\ used \in Nat
      /\ UNCHANGED <<queue, inbox, uploads>> /\ mail' = <<>> /\ stage' = "send"
  BY DEF PeerBasics, PeerFields, PeerAssumption, Renews, wire, Ids
<1>2. /\ \A i \in DOMAIN queue : queue[i].id # used'
      /\ \A i \in DOMAIN inbox : inbox[i].id # used'
      /\ uploads[used'] = "none"
  <2>1. uploads[used'] = "none"
    BY <1>1 DEF PeerBasics, Letters
  <2> QED
    BY <1>1, <2>1, EveryLetter DEF PeerBasics
<1>3. Unsent' /\ SoFar'
  BY <1>1, <1>2 DEF Unsent, SoFar
<1>4. Unanswered'
  BY <1>1, <1>2 DEF InOrder, Unanswered
<1>5. ChunkThenEnd'
  BY <1>1 DEF InOrder, ChunkThenEnd
<1>6. Fitting'
  BY <1>1, <1>2 DEF Fitting
<1> QED
  BY <1>3, <1>4, <1>5, <1>6 DEF InOrder

\* Giving up a request reorders nothing.
LEMMA QuittingKeepsOrder ==
    ASSUME PeerBasics, InOrder, Quits
    PROVE  InOrder'
<1>1. UNCHANGED <<used, queue, inbox, uploads>> /\ stage' \in {"idle", "returned"}
  BY DEF Quits, wire
<1>2. Unsent' /\ SoFar' /\ ChunkThenEnd'
  BY <1>1 DEF InOrder, Unsent, SoFar, ChunkThenEnd
<1>3. mail = <<>> => mail' = <<>>
  BY DEF Quits
<1>4. Unanswered'
  BY <1>1, <1>3 DEF InOrder, Unanswered
<1>5. Fitting'
  <2>1. CASE stage' = "idle"
    BY <2>1 DEF Fitting
  <2>2. CASE stage' = "returned"
    <3>1. request' = request /\ stage # "idle" /\ (mail' = mail \/ (mail # <<>> /\ mail' = Tail(mail)))
      BY <2>2 DEF Quits
    <3>2. mail' = mail \/ Shortens(mail, mail')
      BY <3>1, TailOf DEF PeerBasics, Letters
    <3>3. \A i \in DOMAIN mail' : Fits(mail'[i])
      BY <3>1, <3>2 DEF Shortens, InOrder, Fitting
    <3> QED
      BY <1>1, <3>1, <3>3 DEF InOrder, Fitting, Fits, Belongs
  <2> QED
    BY <1>1, <2>1, <2>2
<1> QED
  BY <1>2, <1>4, <1>5 DEF InOrder

\* The letters of a request are sent in order.
LEMMA PostingKeepsOrder ==
    ASSUME PeerBasics, InOrder, NEW k, NEW s, Posts(k, s)
    PROVE  InOrder'
<1> DEFINE m == Message(k)
           l == Len(queue) + 1
<1>1. /\ Lengthens(queue, m, queue') /\ m.id = used /\ m.kind = k /\ m.file = request.file
      /\ UNCHANGED <<request, used, mail, inbox, uploads>> /\ stage' = s /\ request \in Requests
  BY PostingKeepsLetters DEF PeerBasics, Posts, Message, Letters
<1>2. Len(queue) \in Nat /\ l \in Nat
  BY DEF PeerBasics, Letters
<1> HIDE DEF m, l
<1>3. /\ l \in DOMAIN queue' /\ queue'[l] = m
      /\ \A i \in DOMAIN queue : i < l /\ i \in DOMAIN queue' /\ queue'[i] = queue[i]
      /\ \A i \in DOMAIN queue' : i = l \/ i \in DOMAIN queue
  BY <1>1 DEF Lengthens, l
<1>4. \A i \in DOMAIN queue : queue[i].id = used => k = "complete" /\ queue[i].kind = "chunk"
  <2>1. CASE stage = "send" \/ stage = "chunk"
    BY <2>1 DEF InOrder, Unsent, SoFar
  <2>2. CASE stage = "end"
    BY <2>2 DEF InOrder, SoFar, Posts
  <2> QED
    BY <2>1, <2>2 DEF Posts
<1>5. Unsent'
  BY <1>1 DEF Unsent, Posts
<1>6. Unanswered'
  <2> SUFFICES ASSUME NEW i \in DOMAIN queue', queue'[i].kind \in AskKinds
               PROVE  /\ \A j \in DOMAIN inbox : inbox[j].id # queue'[i].id
                      /\ uploads[queue'[i].id] = "none"
                      /\ queue'[i].id = used => mail = <<>> /\ s \notin {"chunk", "end"}
    BY <1>1 DEF Unanswered
  <2>1. CASE i = l
    <3>1. stage = "send" /\ s = "await"
      BY <1>1, <1>3, <2>1 DEF Posts, AskKinds
    <3> QED
      BY <1>1, <1>3, <2>1, <3>1 DEF InOrder, Unsent
  <2>2. CASE i \in DOMAIN queue
    BY <1>3, <1>4, <2>2 DEF InOrder, Unanswered, AskKinds
  <2> QED
    BY <1>3, <2>1, <2>2
<1>7. ChunkThenEnd'
  <2> SUFFICES ASSUME NEW i \in DOMAIN queue', NEW j \in DOMAIN queue', i < j,
                      queue'[i].id = queue'[j].id
               PROVE  queue'[i].kind = "chunk" /\ queue'[j].kind = "complete"
    BY DEF ChunkThenEnd
  <2>0. \A n \in DOMAIN queue : n \in Nat
    BY DEF PeerBasics, Letters
  <2>1. i \in DOMAIN queue
    BY <1>2, <1>3, <2>0
  <2>2. CASE j = l
    BY <1>1, <1>3, <1>4, <2>1, <2>2
  <2>3. CASE j \in DOMAIN queue
    BY <1>3, <2>1, <2>3 DEF InOrder, ChunkThenEnd
  <2> QED
    BY <1>3, <2>2, <2>3
<1>8. Fitting'
  <2>1. Belongs(m)
    <3>1. k = request.kind \/ (request.kind = "upload" /\ k \in {"chunk", "complete"})
      BY DEF Posts, PeerBasics, Letters
    <3> QED
      BY <1>1, <3>1 DEF Belongs
  <2>2. stage # "idle"
    BY DEF Posts
  <2>3. \A i \in DOMAIN queue' : queue'[i].id = used => Belongs(queue'[i])
    BY <1>3, <2>1, <2>2 DEF InOrder, Fitting
  <2> QED
    BY <1>1, <2>2, <2>3 DEF InOrder, Fitting, Fits, Belongs
<1>9. SoFar'
  <2>1. CASE s = "await"
    <3>1. stage = "send" /\ k \in AskKinds
      BY <1>1, <2>1 DEF Posts, Requests, AskKinds
    <3> QED
      BY <1>1, <1>3, <1>4, <2>1, <3>1 DEF SoFar, AskKinds
  <2>2. CASE s = "end"
    BY <1>1, <1>3, <1>4, <2>2 DEF SoFar, Posts
  <2>3. CASE s = "returned"
    BY <1>1, <2>3 DEF SoFar
  <2> QED
    BY <2>1, <2>2, <2>3 DEF Posts
<1> QED
  BY <1>5, <1>6, <1>7, <1>8, <1>9 DEF InOrder

\* Reading an answer reorders nothing.
LEMMA ReadingKeepsOrder ==
    ASSUME PeerBasics, InOrder, Reads
    PROVE  InOrder'
<1>1. /\ UNCHANGED <<request, used, queue, inbox, uploads>> /\ mail # <<>>
      /\ stage = "await" /\ stage' \in {"await", "chunk"} /\ Shortens(mail, mail')
  BY ReadingKeepsLetters DEF PeerBasics, Reads, wire
<1>2. \A i \in DOMAIN queue : queue[i].id # used
  BY <1>1 DEF InOrder, Unanswered, SoFar
<1>3. Unsent' /\ ChunkThenEnd' /\ SoFar'
  BY <1>1, <1>2 DEF InOrder, Unsent, ChunkThenEnd, SoFar
<1>4. Unanswered'
  BY <1>1, <1>2 DEF InOrder, Unanswered
<1>5. Fitting'
  BY <1>1 DEF InOrder, Fitting, Fits, Belongs, Shortens
<1> QED
  BY <1>3, <1>4, <1>5 DEF InOrder

\* The peer reads the letters in the order they were sent in.
LEMMA ArrivingKeepsOrder ==
    ASSUME PeerBasics, InOrder, Arrive
    PROVE  InOrder'
<1> DEFINE m == queue[1]
<1>1. /\ 1 \in DOMAIN queue /\ m \in Commands /\ Shortens(queue, queue')
      /\ UNCHANGED <<request, stage, used, mail>>
      /\ \E kinds \in Seq(AnswerKinds) : Handles(m, kinds) /\ Answered(m, kinds)
  BY ArrivalHandles DEF PeerBasics, waiting
<1>2. PICK kinds \in Seq(AnswerKinds) : Handles(m, kinds) /\ Answered(m, kinds)
  BY <1>1
<1>3. m.id \in Ids /\ uploads \in [Ids -> {"none", "empty", "filled"}] /\ \A i \in DOMAIN queue : i \in Nat
  BY <1>1 DEF Commands, PeerBasics, PeerFields, Letters
<1> HIDE DEF m
<1>4. /\ \A id \in Ids : id # m.id => uploads'[id] = uploads[id]
      /\ \A i \in DOMAIN inbox' :
            \/ i \in DOMAIN inbox /\ inbox'[i] = inbox[i]
            \/ inbox'[i].id = m.id /\ \E j \in DOMAIN kinds : inbox'[i].kind = kinds[j]
      /\ kinds # <<>> => m.kind \in AskKinds
  <2>1. \A id \in Ids : id # m.id => uploads'[id] = uploads[id]
    BY <1>2, <1>3 DEF Handles
  <2>2. ASSUME NEW i \in DOMAIN inbox', i \notin DOMAIN inbox
        PROVE  inbox'[i].id = m.id /\ \E j \in DOMAIN kinds : inbox'[i].kind = kinds[j]
    <3>1. PICK j \in DOMAIN kinds : i = Len(inbox) + j
      BY <1>2, <2>2 DEF Answered
    <3>2. inbox'[Len(inbox) + j] = Comes(kinds[j], m.id)
      BY <1>2 DEF Answered
    <3>3. Comes(kinds[j], m.id).id = m.id /\ Comes(kinds[j], m.id).kind = kinds[j]
      BY DEF Comes
    <3> QED
      BY <3>1, <3>2, <3>3
  <2>3. \A i \in DOMAIN inbox : inbox'[i] = inbox[i]
    BY <1>2 DEF Answered
  <2>4. kinds # <<>> => m.kind \in AskKinds
    BY <1>2 DEF Handles, AskKinds
  <2> QED
    BY <2>1, <2>2, <2>3, <2>4
\* The letters left behind are those of the queue but the first.
<1>5. ASSUME NEW i \in DOMAIN queue'
      PROVE  /\ i + 1 \in DOMAIN queue /\ queue'[i] = queue[i + 1] /\ 1 < i + 1
             /\ queue[i + 1].id \in Ids
             /\ queue[i + 1].id = m.id => m.kind = "chunk" /\ queue[i + 1].kind = "complete"
  <2>1. i \in Nat /\ i + 1 \in DOMAIN queue /\ queue'[i] = queue[i + 1]
    BY <1>1 DEF Shortens
  <2>2. i # 0
    <3>1. queue' \in Seq(Commands)
      BY ArrivalHandles DEF PeerBasics
    <3> QED
      BY <3>1
  <2>3. 1 < i + 1
    BY <2>1, <2>2
  <2> QED
    BY <1>1, <2>1, <2>3, EveryLetter DEF InOrder, ChunkThenEnd, PeerBasics, m
\* What there is of a request that the first letter is not about, was there.
<1>6. ASSUME NEW i \in DOMAIN queue', queue'[i].kind \in AskKinds
      PROVE  /\ \A j \in DOMAIN inbox' : inbox'[j].id # queue'[i].id
             /\ uploads'[queue'[i].id] = "none"
  <2>1. queue'[i].id # m.id /\ queue'[i].id \in Ids
    BY <1>5, <1>6 DEF AskKinds
  <2>2. /\ \A j \in DOMAIN inbox : inbox[j].id # queue'[i].id
        /\ uploads[queue'[i].id] = "none"
    BY <1>5, <1>6 DEF InOrder, Unanswered
  <2> QED
    BY <1>4, <2>1, <2>2
<1>7. Unsent'
  <2> SUFFICES ASSUME stage = "send"
               PROVE  /\ \A i \in DOMAIN queue' : queue'[i].id # used
                      /\ \A i \in DOMAIN inbox' : inbox'[i].id # used
                      /\ mail = <<>> /\ uploads'[used] = "none"
    BY <1>1 DEF Unsent
  <2>1. m.id # used /\ used \in Ids
    BY <1>1 DEF InOrder, Unsent, m, PeerBasics, PeerFields, PeerAssumption, Letters, Ids
  <2> QED
    BY <1>4, <1>5, <2>1 DEF InOrder, Unsent
<1>8. Unanswered'
  BY <1>1, <1>5, <1>6 DEF InOrder, Unanswered
<1>9. ChunkThenEnd'
  <2> SUFFICES ASSUME NEW i \in DOMAIN queue', NEW j \in DOMAIN queue', i < j,
                      queue'[i].id = queue'[j].id
               PROVE  queue'[i].kind = "chunk" /\ queue'[j].kind = "complete"
    BY DEF ChunkThenEnd
  <2>1. i + 1 < j + 1
    BY <1>1 DEF Shortens
  <2> QED
    BY <1>5, <2>1 DEF InOrder, ChunkThenEnd
<1>10. Fitting'
  <2> SUFFICES ASSUME stage # "idle"
               PROVE  /\ \A i \in DOMAIN queue' : queue'[i].id = used => Belongs(queue'[i])
                      /\ \A i \in DOMAIN inbox' : inbox'[i].id = used => Fits(inbox'[i].kind)
                      /\ \A i \in DOMAIN mail : Fits(mail[i])
    BY <1>1 DEF Fitting, Fits, Belongs
  <2>1. ASSUME m.id = used, NEW j \in DOMAIN kinds PROVE Fits(kinds[j])
    <3>1. Belongs(m)
      BY <1>1, <2>1 DEF InOrder, Fitting, m
    <3>2. CASE m.kind = "upload"
      <4>1. kinds[j] \in {"accepted", "refused"} /\ request.kind = "upload"
        BY <1>2, <3>1, <3>2 DEF Handles, Belongs
      <4> QED
        BY <4>1 DEF Fits
    <3>3. CASE m.kind = "download"
      <4>1. kinds[j] \in {"accepted", "content", "complete", "refused"} /\ request.kind = "download"
        BY <1>2, <3>1, <3>3 DEF Handles, Belongs
      <4> QED
        BY <4>1 DEF Fits
    <3>4. CASE m.kind = "delete"
      <4>1. kinds[j] \in {"done", "refused"} /\ request.kind = "delete"
        BY <1>2, <3>1, <3>4 DEF Handles, Belongs
      <4> QED
        BY <4>1 DEF Fits
    <3> QED
      BY <1>4, <3>2, <3>3, <3>4 DEF AskKinds
  <2>2. \A i \in DOMAIN queue' : queue'[i].id = used => Belongs(queue'[i])
    BY <1>5 DEF InOrder, Fitting
  <2>3. \A i \in DOMAIN inbox' : inbox'[i].id = used => Fits(inbox'[i].kind)
    BY <1>4, <2>1 DEF InOrder, Fitting
  <2> QED
    BY <2>2, <2>3 DEF InOrder, Fitting
<1>11. SoFar'
  BY <1>1, <1>5 DEF InOrder, SoFar
<1> QED
  BY <1>7, <1>8, <1>9, <1>10, <1>11 DEF InOrder

\* What is delivered is about the request that waits.
LEMMA DeliveringKeepsOrder ==
    ASSUME PeerBasics, InOrder, Deliver
    PROVE  InOrder'
<1> DEFINE m == inbox[1]
<1>1. /\ 1 \in DOMAIN inbox /\ m \in Answers /\ Shortens(inbox, inbox') /\ Puts(m)
      /\ mail' = mail \/ Lengthens(mail, m.kind, mail')
      /\ UNCHANGED <<request, stage, used, queue, uploads>>
  BY DeliveringKeepsLetters DEF PeerBasics, Deliver
<1> HIDE DEF m
<1>2. \A i \in DOMAIN inbox' : i + 1 \in DOMAIN inbox /\ inbox'[i] = inbox[i + 1]
  BY <1>1 DEF Shortens
\* The channel is that of the request under way.
<1>3. mail' = mail \/ (m.id = used /\ stage \notin {"idle", "returned"} /\ Lengthens(mail, m.kind, mail'))
  BY <1>1 DEF Puts, PeerBasics, NoStaleWaiter
<1>4. Unsent'
  BY <1>1, <1>2, <1>3 DEF InOrder, Unsent, m
<1>5. Unanswered'
  BY <1>1, <1>2, <1>3 DEF InOrder, Unanswered, m
<1>6. Fitting'
  <2>1. \A i \in DOMAIN inbox' : inbox'[i].id = used /\ stage # "idle" => Fits(inbox'[i].kind)
    BY <1>2 DEF InOrder, Fitting
  <2>2. \A i \in DOMAIN mail' : stage # "idle" => Fits(mail'[i])
    BY <1>1, <1>3 DEF InOrder, Fitting, Lengthens, m
  <2> QED
    BY <1>1, <2>1, <2>2 DEF InOrder, Fitting, Fits, Belongs
<1>7. SoFar' /\ ChunkThenEnd'
  BY <1>1 DEF InOrder, SoFar, ChunkThenEnd
<1> QED
  BY <1>4, <1>5, <1>6, <1>7 DEF InOrder

\* After the link broke nothing is on its way.
LEMMA BreakingKeepsOrder ==
    ASSUME PeerBasics, InOrder, LinkBreaks
    PROVE  InOrder'
<1>1. /\ DOMAIN queue' = {} /\ DOMAIN inbox' = {} /\ UNCHANGED <<request, stage, used, mail>>
      /\ uploads' = [i \in Ids |-> "none"]
  BY DEF LinkBreaks, waiting
<1>2. Unsent'
  <2>1. stage = "send" => used \in Ids
    BY DEF PeerBasics, PeerFields, PeerAssumption, Letters, Ids
  <2> QED
    BY <1>1, <2>1 DEF InOrder, Unsent
<1>3. Unanswered' /\ ChunkThenEnd' /\ SoFar'
  BY <1>1 DEF Unanswered, ChunkThenEnd, SoFar
<1>4. Fitting'
  BY <1>1 DEF InOrder, Fitting, Fits, Belongs
<1> QED
  BY <1>2, <1>3, <1>4 DEF InOrder

-------------------------------------------------------------------------------
(* What the peer has of the uploads, while the link holds.                   *)

Accepted ==
    \/ \E i \in DOMAIN inbox : inbox[i].id = used /\ inbox[i].kind = "accepted"
    \/ \E i \in DOMAIN mail : mail[i] = "accepted"

\* One that was accepted is there, without content yet; when its end is to be
\* sent or on its way, its content is there or on its way before it.
UploadBegun ==
    request.kind = "upload" /\ (stage = "chunk" \/ (stage = "await" /\ Accepted)) =>
        uploads[used] = "empty"

UploadSent ==
    stage = "end" =>
        \/ uploads[used] = "filled"
        \/ uploads[used] = "empty" /\ \E i \in DOMAIN queue : queue[i].id = used /\ queue[i].kind = "chunk"

Filled(i) ==
    \/ uploads[queue[i].id] = "filled"
    \/ /\ uploads[queue[i].id] = "empty"
       /\ \E j \in DOMAIN queue : j < i /\ queue[j].id = queue[i].id /\ queue[j].kind = "chunk"

Uploading ==
    ~broken =>
        /\ UploadBegun /\ UploadSent
        /\ \A i \in DOMAIN queue : queue[i].kind = "complete" => Filled(i)

\* The end of an upload is sent after its content.
LEMMA PostingKeepsUploads ==
    ASSUME PeerBasics, InOrder, Uploading, NEW k, NEW s, Posts(k, s)
    PROVE  Uploading'
<1> SUFFICES ASSUME ~broken
             PROVE  /\ UploadBegun' /\ UploadSent'
                    /\ \A i \in DOMAIN queue' : queue'[i].kind = "complete" => Filled(i)'
  BY DEF Uploading, Posts
<1> DEFINE m == Message(k)
           l == Len(queue) + 1
<1>1. /\ Lengthens(queue, m, queue') /\ m.id = used /\ m.kind = k
      /\ UNCHANGED <<request, used, mail, inbox, uploads>> /\ stage' = s /\ request \in Requests
  BY PostingKeepsLetters DEF PeerBasics, Posts, Message, Letters
<1>2. Len(queue) \in Nat /\ l \in Nat
  BY DEF PeerBasics, Letters
<1> HIDE DEF m, l
<1>3. /\ l \in DOMAIN queue' /\ queue'[l] = m
      /\ \A i \in DOMAIN queue : i < l /\ i \in DOMAIN queue' /\ queue'[i] = queue[i]
      /\ \A i \in DOMAIN queue' : i = l \/ i \in DOMAIN queue
  BY <1>1 DEF Lengthens, l
<1>4. UploadBegun'
  <2>1. stage = "send" => ~Accepted
    BY DEF InOrder, Unsent, Accepted
  <2> QED
    BY <1>1, <2>1 DEF UploadBegun, Accepted, Posts
<1>5. UploadSent'
  <2> SUFFICES ASSUME s = "end" PROVE UploadSent'
    BY <1>1 DEF UploadSent
  <2>1. stage = "chunk" /\ k = "chunk" /\ request.kind = "upload" /\ uploads[used] = "empty"
    BY DEF Posts, PeerBasics, Letters, Uploading, UploadBegun
  <2> QED
    BY <1>1, <1>3, <2>1 DEF UploadSent
<1>6. ASSUME NEW i \in DOMAIN queue', queue'[i].kind = "complete" PROVE Filled(i)'
  <2>1. CASE i = l
    <3>1. stage = "end"
      BY <1>1, <1>3, <1>6, <2>1 DEF Posts, Requests
    <3> QED
      BY <1>1, <1>3, <2>1, <3>1 DEF Uploading, UploadSent, Filled
  <2>2. CASE i \in DOMAIN queue
    BY <1>1, <1>3, <1>6, <2>2 DEF Uploading, Filled
  <2> QED
    BY <1>3, <2>1, <2>2
<1> QED
  BY <1>4, <1>5, <1>6

\* The content arrives before the end.
LEMMA ArrivingKeepsUploads ==
    ASSUME PeerBasics, InOrder, Uploading, Arrive
    PROVE  Uploading'
<1> DEFINE m == queue[1]
<1>1. /\ 1 \in DOMAIN queue /\ m \in Commands /\ Shortens(queue, queue')
      /\ UNCHANGED <<request, stage, used, mail, broken>>
      /\ \E kinds \in Seq(AnswerKinds) : Handles(m, kinds) /\ Answered(m, kinds)
  BY ArrivalHandles DEF PeerBasics, waiting
<1> SUFFICES ASSUME ~broken
             PROVE  /\ UploadBegun' /\ UploadSent'
                    /\ \A i \in DOMAIN queue' : queue'[i].kind = "complete" => Filled(i)'
  BY <1>1 DEF Uploading
<1>2. PICK kinds \in Seq(AnswerKinds) : Handles(m, kinds) /\ Answered(m, kinds)
  BY <1>1
<1>3. /\ m.id \in Ids /\ uploads \in [Ids -> {"none", "empty", "filled"}]
      /\ m.kind \in AskKinds \union {"chunk", "complete"}
  BY <1>1 DEF Commands, PeerBasics, PeerFields, AskKinds
<1> HIDE DEF m
<1>4. /\ \A id \in Ids : id # m.id => uploads'[id] = uploads[id]
      /\ m.kind = "chunk" =>
            uploads'[m.id] = IF uploads[m.id] = "empty" THEN "filled" ELSE uploads[m.id]
  BY <1>2, <1>3 DEF Handles
<1>5. ASSUME NEW i \in DOMAIN queue' PROVE i \in Nat \ {0} /\ i + 1 \in DOMAIN queue /\ queue'[i] = queue[i + 1]
  <2>1. queue' \in Seq(Commands)
    BY ArrivalHandles DEF PeerBasics
  <2> QED
    BY <1>1, <2>1 DEF Shortens
<1>6. UploadBegun'
  <2> SUFFICES ASSUME request.kind = "upload", stage = "chunk" \/ (stage = "await" /\ Accepted')
               PROVE  uploads'[used] = "empty"
    BY <1>1 DEF UploadBegun
  <2>1. used \in Ids
    BY DEF PeerBasics, PeerFields, PeerAssumption, Letters, Ids, NoRequest
  <2>2. CASE m.id = used
    <3>1. stage = "await"
      BY <1>1, <2>2 DEF InOrder, SoFar, m
    <3>2. m.kind = "upload"
      <4>1. m.kind \in AskKinds /\ Belongs(m)
        BY <1>1, <2>2, <3>1 DEF InOrder, SoFar, Fitting, m
      <4> QED
        BY <4>1 DEF Belongs, AskKinds
    <3>3. ~Accepted
      BY <1>1, <2>2, <3>2 DEF InOrder, Unanswered, AskKinds, Accepted, m
    <3>4. kinds # <<"refused">>
      <4>1. ASSUME kinds = <<"refused">>, NEW i \in DOMAIN inbox' PROVE ~(inbox'[i].id = used /\ inbox'[i].kind = "accepted")
        <5>1. CASE i \in DOMAIN inbox
          BY <1>2, <3>3, <5>1 DEF Answered, Accepted
        <5>2. CASE i \notin DOMAIN inbox
          <6>1. PICK j \in DOMAIN kinds : i = Len(inbox) + j
            BY <1>2, <5>2 DEF Answered
          <6>2. inbox'[Len(inbox) + j] = Comes(kinds[j], m.id) /\ kinds[j] = "refused"
            BY <1>2, <4>1 DEF Answered
          <6>3. Comes(kinds[j], m.id).kind = kinds[j]
            BY DEF Comes
          <6> QED
            BY <6>1, <6>2, <6>3
        <5> QED
          BY <5>1, <5>2
      <4> QED
        BY <1>1, <3>1, <3>3, <4>1 DEF Accepted
    <3>5. uploads' = [uploads EXCEPT ![m.id] = "empty"]
      BY <1>2, <3>2, <3>4 DEF Handles
    <3> QED
      BY <1>3, <2>2, <3>5
  <2>3. CASE m.id # used
    <3>1. Accepted' => Accepted
      <4>1. ASSUME NEW i \in DOMAIN inbox', inbox'[i].id = used PROVE i \in DOMAIN inbox /\ inbox'[i] = inbox[i]
        <5>1. ASSUME i \notin DOMAIN inbox PROVE FALSE
          <6>1. PICK j \in DOMAIN kinds : i = Len(inbox) + j
            BY <1>2, <5>1 DEF Answered
          <6>2. inbox'[Len(inbox) + j] = Comes(kinds[j], m.id)
            BY <1>2 DEF Answered
          <6>3. Comes(kinds[j], m.id).id = m.id
            BY DEF Comes
          <6> QED
            BY <2>3, <4>1, <6>1, <6>2, <6>3
        <5> QED
          BY <1>2, <5>1 DEF Answered
      <4> QED
        BY <1>1, <4>1 DEF Accepted
    <3> QED
      BY <1>4, <2>1, <2>3, <3>1 DEF Uploading, UploadBegun
  <2> QED
    BY <2>2, <2>3
<1>7. UploadSent'
  <2> SUFFICES ASSUME stage = "end" PROVE UploadSent'
    BY <1>1 DEF UploadSent
  <2>1. used \in Ids
    BY DEF PeerBasics, PeerFields, PeerAssumption, Letters, Ids
  <2>2. CASE m.id = used
    <3>1. m.kind = "chunk"
      BY <1>1, <2>2 DEF InOrder, SoFar, m
    <3> QED
      BY <1>1, <1>4, <2>2, <3>1 DEF Uploading, UploadSent
  <2>3. CASE m.id # used
    <3>1. uploads'[used] = uploads[used]
      BY <1>4, <2>1, <2>3
    <3>2. ASSUME NEW i \in DOMAIN queue, queue[i].id = used
          PROVE  i - 1 \in DOMAIN queue' /\ queue'[i - 1] = queue[i]
      BY <1>1, <2>3, <3>2 DEF Shortens, m
    <3> QED
      BY <1>1, <3>1, <3>2 DEF Uploading, UploadSent
  <2> QED
    BY <2>2, <2>3
<1>8. ASSUME NEW i \in DOMAIN queue', queue'[i].kind = "complete" PROVE Filled(i)'
  <2> DEFINE id == queue[i + 1].id
  <2>1. /\ i + 1 \in DOMAIN queue /\ queue'[i] = queue[i + 1] /\ 1 < i + 1
        /\ id \in Ids /\ queue[i + 1].kind = "complete"
    BY <1>5, <1>8, EveryLetter DEF PeerBasics
  <2>2. Filled(i + 1)
    BY <2>1 DEF Uploading
  <2>3. CASE m.id = id
    <3>1. m.kind = "chunk"
      BY <1>1, <2>1, <2>3 DEF InOrder, ChunkThenEnd, m
    <3>2. uploads'[id] = "filled"
      BY <1>4, <2>2, <2>3, <3>1 DEF Filled
    <3> QED
      BY <2>1, <3>2 DEF Filled
  <2>4. CASE m.id # id
    <3>1. uploads'[id] = uploads[id]
      BY <1>4, <2>1, <2>4
    <3>2. ASSUME NEW j \in DOMAIN queue, j < i + 1, queue[j].id = id
          PROVE  j - 1 \in DOMAIN queue' /\ queue'[j - 1] = queue[j] /\ j - 1 < i
      <4>1. j # 1 /\ j \in Nat /\ i \in Nat
        BY <1>5, <2>4, <3>2 DEF m, PeerBasics, Letters
      <4> QED
        BY <1>1, <3>2, <4>1 DEF Shortens
    <3>3. \/ uploads[id] = "filled"
          \/ /\ uploads[id] = "empty"
             /\ \E j \in DOMAIN queue : j < i + 1 /\ queue[j].id = id /\ queue[j].kind = "chunk"
      BY <2>2 DEF Filled
    <3> QED
      BY <2>1, <3>1, <3>2, <3>3 DEF Filled
  <2> QED
    BY <2>3, <2>4
<1> QED
  BY <1>6, <1>7, <1>8

\* While the link holds, an upload that ends was filled.
LEMMA PeerKeepsUploads ==
    ASSUME PeerBasics, InOrder, Uploading,
           \/ \E r \in Requests : Renews(r)
           \/ Quits \/ Reads
           \/ \E k, s : Posts(k, s)
           \/ Arrive \/ Deliver \/ LinkBreaks
    PROVE  Uploading'
<1>1. ASSUME NEW r \in Requests, Renews(r) PROVE Uploading'
  BY <1>1 DEF Renews, wire, Uploading, UploadBegun, UploadSent, Filled
<1>2. ASSUME Quits PROVE Uploading'
  BY <1>2 DEF Quits, wire, Uploading, UploadBegun, UploadSent, Filled
<1>3. ASSUME Reads PROVE Uploading'
  <2>1. /\ UNCHANGED <<request, used, queue, inbox, uploads, broken>> /\ stage = "await"
        /\ mail[1] = "accepted" /\ 1 \in DOMAIN mail /\ stage' \in {"await", "chunk"}
    BY <1>3, ReadingKeepsLetters DEF PeerBasics, Reads, wire, Shortens
  <2>2. Accepted
    BY <2>1 DEF Accepted
  <2> QED
    BY <2>1, <2>2 DEF Uploading, UploadBegun, UploadSent, Filled
<1>4. ASSUME Deliver PROVE Uploading'
  <2> DEFINE m == inbox[1]
  <2>1. /\ 1 \in DOMAIN inbox /\ Shortens(inbox, inbox') /\ Puts(m)
        /\ mail' = mail \/ Lengthens(mail, m.kind, mail')
        /\ UNCHANGED <<request, stage, used, queue, uploads, broken>>
    BY <1>4, DeliveringKeepsLetters DEF PeerBasics, Deliver
  <2>2. Accepted' => Accepted \/ stage \notin {"chunk", "await"}
    <3> HIDE DEF m
    <3>1. mail' = mail \/ (m.id = used /\ Lengthens(mail, m.kind, mail')) \/ stage \notin {"chunk", "await"}
      BY <2>1 DEF Puts, PeerBasics, NoStaleWaiter
    <3> QED
      BY <2>1, <3>1 DEF Accepted, Shortens, Lengthens, m
  <2> HIDE DEF m
  <2> QED
    BY <2>1, <2>2 DEF Uploading, UploadBegun, UploadSent, Filled
<1>5. ASSUME LinkBreaks PROVE Uploading'
  BY <1>5 DEF LinkBreaks, Uploading
<1> QED
  BY <1>1, <1>2, <1>3, <1>4, <1>5, PostingKeepsUploads, ArrivingKeepsUploads

-------------------------------------------------------------------------------
(* Whose turn it is, and what it was given to do.                            *)

MoveTypes ==
    /\ up \in BOOLEAN
    /\ pc \in {"item", "read", "write", "ask", "skip", "abort", "sweep", "done"}
    /\ cur \in 1..(N + 1)
    /\ skipped \subseteq Files
    /\ result \in {"none", "ok", "cancelled", "failed"}
    /\ retries \in 0..MaxRetries /\ calls \in 0..MaxCalls

\* The side that works for the transfer, by where the transfer is.
MoverBusy == IF up THEN pc \in {"read", "sweep"} ELSE pc \in {"write", "skip", "abort"}
PeerBusy == IF up THEN pc \in {"write", "skip", "abort"} ELSE pc \in {"read", "sweep"}

Turns ==
    /\ step[mover] # "idle" <=> MoverBusy
    /\ stage # "idle" <=> PeerBusy
    /\ step[panel] # "idle" => job[panel].kind = "list"
    /\ pc \in {"read", "write", "ask", "skip", "abort"} => cur \in Files
    /\ pc = "skip" => cur \in skipped
    /\ \A f \in skipped : f < cur \/ (f = cur /\ pc = "skip")
    /\ pc = "sweep" \/ result \in {"ok", "failed"} => cur = N + 1
    /\ pc # "done" <=> result = "none"

\* What it works on.
Given ==
    /\ up /\ pc = "read" => job[mover] = [kind |-> "read", file |-> cur]
    /\ ~up /\ pc = "write" => job[mover] = [kind |-> "write", file |-> cur]
    /\ ~up /\ pc \in {"skip", "abort"} => job[mover] = [kind |-> "delete", paths |-> <<cur>>]
    /\ up /\ pc = "sweep" =>
          job[mover].kind = "delete" /\ Lists(job[mover].paths, Kept) /\ job[mover].paths # <<>>
    /\ ~up /\ pc = "read" => request = Download(cur)
    /\ up /\ pc = "write" => request = Upload(cur)
    /\ up /\ pc \in {"skip", "abort"} => request = [kind |-> "delete", file |-> cur, rest |-> <<>>]
    /\ ~up /\ pc = "sweep" =>
          /\ request \in [kind : {"delete"}, file : Kept, rest : Seq(Kept)]
          /\ Lists(request.rest, {f \in Kept : f < request.file})

Basics ==
    /\ Locks /\ NoStaleWaiter
    /\ Fields /\ Jobs /\ PeerFields /\ Letters
    /\ MoveTypes /\ Turns /\ Given

Assumptions == RemoteMoveAssumption /\ SftpAssumption /\ PeerAssumption

\* What is behind the first of a list lists what is smaller.
LEMMA RestLists ==
    ASSUME NEW K \in SUBSET Nat, NEW s, Lists(s, K), s # <<>>
    PROVE  Head(s) \in K /\ Lists(Tail(s), {f \in K : f < Head(s)})
<1> DEFINE t == Tail(s)
           h == Head(s)
<1>1. s \in Seq(K) /\ h = s[1] /\ t \in Seq(K) /\ Len(t) = Len(s) - 1 /\ Shortens(s, t)
  BY TailOf DEF Lists
<1>2. h \in K
  BY <1>1
<1> HIDE DEF t, h
<1>3. DOMAIN s = 1..Len(s) /\ Len(s) \in Nat /\ DOMAIN t = 1..Len(t) /\ Len(t) \in Nat
  BY <1>1
<1>4. \A i \in DOMAIN t : t[i] = s[i + 1] /\ i + 1 \in DOMAIN s /\ t[i] \in K /\ t[i] < h
  <2> SUFFICES ASSUME NEW i \in DOMAIN t PROVE t[i] = s[i + 1] /\ i + 1 \in DOMAIN s /\ t[i] \in K /\ t[i] < h
    OBVIOUS
  <2>1. t[i] = s[i + 1] /\ i + 1 \in DOMAIN s /\ 1 \in DOMAIN s /\ 1 < i + 1
    BY <1>1, <1>3 DEF Shortens
  <2> QED
    BY <1>1, <2>1 DEF Lists, Downwards
<1>5. t \in Seq({f \in K : f < h})
  <2>1. \A i \in 1..Len(t) : t[i] \in {f \in K : f < h}
    BY <1>3, <1>4
  <2> DEFINE S == {f \in K : f < h}
  <2> HIDE DEF S
  <2>2. t = [i \in 1..Len(t) |-> t[i]]
    BY <1>1
  <2> QED
    BY <1>3, <2>1, <2>2, IsASeq DEF S
<1>6. Downwards(t)
  <2> SUFFICES ASSUME NEW i \in DOMAIN t, NEW j \in DOMAIN t, i < j PROVE t[j] < t[i]
    BY DEF Downwards
  <2>1. i + 1 < j + 1
    BY <1>3
  <2> QED
    BY <1>4, <2>1 DEF Lists, Downwards
<1>7. ASSUME NEW f \in K, f < h PROVE \E i \in DOMAIN t : t[i] = f
  <2>1. PICK i \in DOMAIN s : s[i] = f
    BY DEF Lists
  <2>2. i # 1
    BY <1>1, <1>2, <1>7, <2>1
  <2> QED
    BY <1>1, <2>1, <2>2 DEF Shortens
<1>8. Lists(t, {f \in K : f < h})
  BY <1>5, <1>6, <1>7 DEF Lists
<1> QED
  BY <1>2, <1>8 DEF t, h

\* What a caller of the SFTP file system does to the operations.
OthersStay(u) ==
    \A v \in Users \ {u} :
        job'[v] = job[v] /\ step'[v] = step[v] /\ next'[v] = next[v] /\ answer'[v] = answer[v]

Started(u, j) ==
    /\ step[u] = "idle" /\ step'[u] \notin {"idle", "fill", "returned"}
    /\ job'[u] = j /\ next'[u] = 1 /\ OthersStay(u) /\ UNCHANGED <<answer, store>>

Rested(u) ==
    /\ step[u] = "returned" /\ step'[u] = "idle"
    /\ job'[u] = NoJob /\ answer'[u] = "none" /\ OthersStay(u) /\ UNCHANGED store

\* A call starts an operation with its job.
LEMMA CallStarts ==
    ASSUME Locks, Fields, Jobs, NEW u \in Users, NEW j, Call(u, j)
    PROVE  Started(u, j)
BY DEF Locks, Shapes, Fields, Jobs, Call, Goto, Started, OthersStay

\* A thread whose result was taken rests.
LEMMA TakingRests ==
    ASSUME Locks, Fields, Jobs, NEW u \in Users, step[u] = "returned", Taken(u)
    PROVE  Rested(u)
BY DEF Locks, Shapes, Fields, Jobs, Taken, Rested, OthersStay

\* What the transfer does to the two sides: it has one of them begin, or takes
\* what it said.
ByMover(j) == Started(mover, j) /\ UNCHANGED peerVars
ByPeer(r) == Request(r) /\ UNCHANGED sftpVars
MoverSaid(a) == answer[mover] = a /\ Rested(mover) /\ UNCHANGED peerVars
PeerSaid(a) == reply = a /\ ReadsReply /\ UNCHANGED sftpVars

Erase(s) == [kind |-> "delete", paths |-> s]
EraseThere(s) == [kind |-> "delete", file |-> Head(s), rest |-> Tail(s)]

\* What the transfer asks of a side is done by the mover or by the peer.
LEMMA MoveDoes ==
    ASSUME Assumptions, Basics
    PROVE  /\ \A j : Sftp(j) => ByMover(j)
           /\ \A r : Peer(r) => ByPeer(r)
           /\ \A x \in BOOLEAN : \A a : Says(x, a) => IF x THEN MoverSaid(a) ELSE PeerSaid(a)
           /\ \A x \in BOOLEAN : \A s :
                 Deletion(x, s) => IF x THEN ByMover(Erase(s)) ELSE ByPeer(EraseThere(s))
<1>0. mover \in Users /\ Locks /\ Fields /\ Jobs
  BY DEF Assumptions, RemoteMoveAssumption, Basics
<1>1. ASSUME NEW j, Sftp(j) PROVE ByMover(j)
  BY <1>0, <1>1, CallStarts DEF Sftp, ByMover
<1>2. ASSUME NEW r, Peer(r) PROVE ByPeer(r)
  BY <1>2 DEF Peer, ByPeer
<1>3. ASSUME NEW x \in BOOLEAN, NEW a, Says(x, a) PROVE IF x THEN MoverSaid(a) ELSE PeerSaid(a)
  BY <1>0, <1>3, TakingRests DEF Says, SftpSays, PeerSays, MoverSaid, PeerSaid, ReadsReply
<1>4. ASSUME NEW x \in BOOLEAN, NEW s, Deletion(x, s)
      PROVE  IF x THEN ByMover(Erase(s)) ELSE ByPeer(EraseThere(s))
  BY <1>1, <1>2, <1>4 DEF Deletion, Erase, EraseThere
<1> QED
  BY <1>1, <1>2, <1>3, <1>4

\* Reading an item is the turn of the source.
LEMMA ReadingIsTurn ==
    ASSUME Assumptions, Basics, ReadItem
    PROVE  /\ IF up THEN ByMover([kind |-> "read", file |-> cur]) ELSE ByPeer(Download(cur))
           /\ Turns' /\ Given'
<1>0. /\ mover # panel /\ panel \in Users /\ up \in BOOLEAN /\ N \in Nat /\ Files = 1..N
      /\ pc = "item" /\ pc' = "read" /\ cur <= N /\ cur \in Files
      /\ UNCHANGED <<up, cur, skipped, result>>
  BY DEF Assumptions, RemoteMoveAssumption, Basics, MoveTypes, ReadItem
<1>1. CASE up
  <2>1. ByMover([kind |-> "read", file |-> cur])
    BY <1>1, MoveDoes DEF ReadItem
  <2>2. Turns'
    BY <1>0, <1>1, <2>1 DEF ByMover, Started, OthersStay, peerVars, waiting, Basics, Turns, MoverBusy, PeerBusy
  <2>3. Given'
    BY <1>0, <1>1, <2>1 DEF ByMover, Started, Given
  <2> QED
    BY <1>1, <2>1, <2>2, <2>3
<1>2. CASE ~up
  <2>1. ByPeer(Download(cur))
    BY <1>2, MoveDoes DEF ReadItem
  <2>2. Turns'
    BY <1>0, <1>2, <2>1 DEF ByPeer, Request, Stage, sftpVars, thread, Basics, Turns, MoverBusy, PeerBusy
  <2>3. Given'
    BY <1>0, <1>2, <2>1 DEF ByPeer, Request, Download, Given
  <2> QED
    BY <1>2, <2>1, <2>2, <2>3
<1> QED
  BY <1>0, <1>1, <1>2

\* Writing it is the turn of the destination.
LEMMA WritingIsTurn ==
    ASSUME Assumptions, Basics, WriteItem
    PROVE  /\ IF up THEN answer[mover] = "ok" /\ Rested(mover) /\ Request(Upload(cur))
              ELSE reply = "ok" /\ ReadsReply /\ Started(mover, [kind |-> "write", file |-> cur])
           /\ Turns' /\ Given'
<1>0. /\ mover # panel /\ panel \in Users /\ mover \in Users /\ up \in BOOLEAN
      /\ Locks /\ Fields /\ Jobs
      /\ pc = "read" /\ pc' = "write" /\ UNCHANGED <<up, cur, skipped, result>>
  BY DEF Assumptions, RemoteMoveAssumption, Basics, MoveTypes, WriteItem
<1>1. CASE up
  <2>1. answer[mover] = "ok" /\ Rested(mover) /\ Request(Upload(cur))
    BY <1>0, <1>1, TakingRests DEF WriteItem, SftpSays
  <2>2. Turns'
    BY <1>0, <1>1, <2>1 DEF Rested, OthersStay, Request, Stage, Basics, Turns, MoverBusy, PeerBusy
  <2>3. Given'
    BY <1>0, <1>1, <2>1 DEF Request, Given, Upload
  <2> QED
    BY <1>1, <2>1, <2>2, <2>3
<1>2. CASE ~up
  <2>1. reply = "ok" /\ ReadsReply /\ Started(mover, [kind |-> "write", file |-> cur])
    BY <1>0, <1>2, CallStarts DEF WriteItem, PeerSays, ReadsReply
  <2>2. Turns'
    BY <1>0, <1>2, <2>1 DEF Started, OthersStay, ReadsReply, ReplyTaken, Basics, Turns, MoverBusy, PeerBusy
  <2>3. Given'
    BY <1>0, <1>2, <2>1 DEF Started, Given
  <2> QED
    BY <1>2, <2>1, <2>2, <2>3
<1> QED
  BY <1>0, <1>1, <1>2

\* Where the transfer only takes an answer.
LEMMA TakingIsTurn ==
    ASSUME Assumptions, Basics, UNCHANGED up, NEW x \in BOOLEAN, NEW a, Says(x, a),
           pc' \in {"item", "ask", "done"}
    PROVE  /\ IF x THEN MoverSaid(a) /\ MoverBusy ELSE PeerSaid(a) /\ PeerBusy
           /\ step'[mover] = "idle" /\ stage' = "idle"
           /\ step'[panel] # "idle" => job'[panel].kind = "list"
           /\ Given'
<1>0. /\ mover # panel /\ panel \in Users /\ mover \in Users /\ up \in BOOLEAN
      /\ pc \in {"item", "read", "write", "ask", "skip", "abort", "sweep", "done"}
  BY DEF Assumptions, RemoteMoveAssumption, Basics, MoveTypes
<1>1. IF x THEN MoverSaid(a) ELSE PeerSaid(a)
  BY MoveDoes
<1>2. ~(MoverBusy /\ PeerBusy)
  BY <1>0 DEF MoverBusy, PeerBusy
<1>3. CASE x
  <2>1. MoverSaid(a) /\ step[mover] = "returned" /\ step'[mover] = "idle" /\ stage' = stage
    BY <1>1, <1>3 DEF MoverSaid, Rested, peerVars, waiting
  <2>2. step'[panel] = step[panel] /\ job'[panel] = job[panel]
    BY <1>0, <2>1 DEF MoverSaid, Rested, OthersStay
  <2> QED
    BY <1>2, <1>3, <2>1, <2>2 DEF Basics, Turns, Given
<1>4. CASE ~x
  <2>1. PeerSaid(a) /\ stage = "returned" /\ stage' = "idle" /\ UNCHANGED <<step, job>>
    BY <1>1, <1>4 DEF PeerSaid, ReadsReply, ReplyTaken, sftpVars, thread
  <2> QED
    BY <1>2, <1>4, <2>1 DEF Basics, Turns, Given
<1> QED
  BY <1>3, <1>4

\* An answer that the transfer reads is one to what it asked.
LEMMA AnswersAreTurns ==
    ASSUME Assumptions, Basics, NextItem \/ ItemFails \/ GivenUp \/ EndSweep \/ Cancelled
    PROVE  Turns' /\ Given'
<1>0. /\ up \in BOOLEAN /\ N \in Nat /\ Files = 1..N /\ cur \in 1..(N + 1) /\ skipped \subseteq Files
      /\ pc \in {"item", "read", "write", "ask", "skip", "abort", "sweep", "done"}
  BY DEF Assumptions, RemoteMoveAssumption, Basics, MoveTypes
<1>1. UNCHANGED <<up, skipped>> /\ pc' \in {"item", "ask", "done"}
  BY DEF NextItem, ItemFails, GivenUp, EndSweep, Cancelled, Finish
<1>2. \/ pc = "item" /\ UNCHANGED <<sftpVars, peerVars>>
      \/ \E x \in BOOLEAN : \E a : Says(x, a)
  BY <1>0 DEF NextItem, ItemFails, GivenUp, EndSweep, Cancelled
<1>3. /\ step'[mover] = "idle" /\ stage' = "idle"
      /\ step'[panel] # "idle" => job'[panel].kind = "list"
      /\ Given'
  <2>1. CASE pc = "item" /\ UNCHANGED <<sftpVars, peerVars>>
    BY <1>0, <1>1, <2>1 DEF sftpVars, thread, peerVars, waiting, Basics, Turns, MoverBusy, PeerBusy, Given
  <2>2. CASE \E x \in BOOLEAN : \E a : Says(x, a)
    BY <1>1, <2>2, TakingIsTurn
  <2> QED
    BY <1>2, <2>1, <2>2
<1>4. ~MoverBusy' /\ ~PeerBusy'
  BY <1>1 DEF MoverBusy, PeerBusy
<1>5. (pc' = "ask" => cur' \in Files) /\ (result' \in {"ok", "failed"} => cur' = N + 1)
      /\ (pc' # "done" <=> result' = "none")
  BY <1>0 DEF Basics, Turns, NextItem, ItemFails, GivenUp, EndSweep, Cancelled, Finish
<1>6. \A f \in skipped : f < cur'
  <2>1. CASE NextItem \/ (GivenUp /\ pc = "skip")
    <3>1. cur' = cur + 1 /\ cur \in Nat /\ \A f \in skipped : f \in Nat /\ (f < cur \/ f = cur)
      BY <1>0, <2>1 DEF NextItem, GivenUp, Basics, Turns
    <3> QED
      BY <3>1
  <2>2. CASE ItemFails \/ EndSweep \/ Cancelled \/ (GivenUp /\ pc = "abort")
    BY <2>2 DEF ItemFails, EndSweep, Cancelled, GivenUp, Basics, Turns
  <2> QED
    BY <2>1, <2>2 DEF GivenUp
<1>7. Turns'
  BY <1>1, <1>3, <1>4, <1>5, <1>6 DEF Turns
<1> QED
  BY <1>3, <1>7

\* A retry reads the same item again.
LEMMA RetryIsTurn ==
    ASSUME Assumptions, Basics, Retry
    PROVE  Turns' /\ Given'
BY DEF Retry, Assumptions, Basics, MoveTypes, sftpVars, thread, peerVars, waiting, Turns, MoverBusy,
       PeerBusy, Given

\* Skip and Abort are the turn of the destination.
LEMMA GivingUpIsTurn ==
    ASSUME Assumptions, Basics, NEW abort \in BOOLEAN, GiveUp(abort)
    PROVE  /\ IF up THEN ByPeer(EraseThere(<<cur>>)) ELSE ByMover(Erase(<<cur>>))
           /\ Turns' /\ Given'
<1>0. /\ up \in BOOLEAN /\ mover # panel /\ panel \in Users
      /\ pc = "ask" /\ pc' = (IF abort THEN "abort" ELSE "skip")
      /\ skipped' = (IF abort THEN skipped ELSE skipped \union {cur})
      /\ UNCHANGED <<up, cur, result>> /\ Deletion(~up, <<cur>>)
  BY DEF Assumptions, RemoteMoveAssumption, Basics, MoveTypes, GiveUp
<1>1. IF up THEN ByPeer(EraseThere(<<cur>>)) ELSE ByMover(Erase(<<cur>>))
  BY <1>0, MoveDoes
<1>2. cur \in Files /\ \A f \in skipped' : f < cur \/ (f = cur /\ pc' = "skip")
  BY <1>0 DEF Basics, Turns
<1>3. CASE up
  <2>1. Request(EraseThere(<<cur>>)) /\ UNCHANGED <<step, job>>
    BY <1>1, <1>3 DEF ByPeer, sftpVars, thread
  <2>2. EraseThere(<<cur>>) = [kind |-> "delete", file |-> cur, rest |-> <<>>]
    BY DEF EraseThere
  <2> HIDE DEF EraseThere
  <2>3. Turns'
    BY <1>0, <1>2, <1>3, <2>1 DEF Request, Stage, Basics, Turns, MoverBusy, PeerBusy
  <2>4. Given'
    BY <1>0, <1>3, <2>1, <2>2 DEF Request, Given
  <2> QED
    BY <1>1, <2>3, <2>4
<1>4. CASE ~up
  <2>1. Started(mover, Erase(<<cur>>)) /\ stage' = stage /\ step'[panel] = step[panel] /\ job'[panel] = job[panel]
    BY <1>0, <1>1, <1>4 DEF ByMover, Started, OthersStay, peerVars, waiting
  <2>2. Turns'
    BY <1>0, <1>2, <1>4, <2>1 DEF Started, Basics, Turns, MoverBusy, PeerBusy
  <2>3. Given'
    BY <1>0, <1>4, <2>1 DEF Started, Erase, Given
  <2> QED
    BY <1>1, <2>2, <2>3
<1> QED
  BY <1>3, <1>4

\* The sweep is the turn of the source, and given what is left of the list.
LEMMA SweepingIsTurn ==
    ASSUME Assumptions, Basics, Sweep
    PROVE  /\ cur = N + 1 /\ UNCHANGED <<up, cur, skipped>> /\ pc = "item"
           /\ \/ Kept = {} /\ Finish("ok") /\ UNCHANGED <<sftpVars, peerVars>>
              \/ /\ Swept # <<>> /\ Lists(Swept, Kept) /\ pc' = "sweep" /\ UNCHANGED result
                 /\ IF up THEN ByMover(Erase(Swept)) ELSE ByPeer(EraseThere(Swept))
           /\ Turns' /\ Given'
<1>0. /\ up \in BOOLEAN /\ mover # panel /\ panel \in Users /\ N \in Nat /\ Files = 1..N
      /\ cur = N + 1 /\ pc = "item" /\ UNCHANGED <<up, cur, skipped>>
  BY DEF Assumptions, RemoteMoveAssumption, Basics, MoveTypes, Sweep
<1>1. Lists(Swept, Kept) /\ Kept \in SUBSET Nat /\ Kept' = Kept
  BY <1>0, SweptLists DEF Assumptions, Kept
<1> DEFINE s == Swept
<1>2. IF s = <<>> THEN Finish("ok") /\ UNCHANGED <<sftpVars, peerVars>>
      ELSE pc' = "sweep" /\ Deletion(up, s) /\ UNCHANGED result
  BY DEF Sweep
<1> HIDE DEF s
<1>3. CASE s = <<>>
  <2>1. Kept = {}
    BY <1>1, <1>3 DEF Lists, s
  <2>2. Finish("ok") /\ UNCHANGED <<sftpVars, peerVars>>
    BY <1>2, <1>3
  <2>3. Turns' /\ Given'
    BY <1>0, <2>2 DEF Finish, sftpVars, thread, peerVars, waiting, Basics, Turns, MoverBusy, PeerBusy, Given
  <2> QED
    BY <1>0, <2>1, <2>2, <2>3
<1>4. CASE s # <<>>
  <2>1. pc' = "sweep" /\ UNCHANGED result /\ IF up THEN ByMover(Erase(s)) ELSE ByPeer(EraseThere(s))
    BY <1>0, <1>2, <1>4, MoveDoes
  <2>2. Lists(s, Kept)
    BY <1>1 DEF s
  <2>3. ASSUME up PROVE Turns' /\ Given'
    <3>1. Started(mover, Erase(s)) /\ stage' = stage /\ step'[panel] = step[panel] /\ job'[panel] = job[panel]
      BY <1>0, <2>1, <2>3 DEF ByMover, Started, OthersStay, peerVars, waiting
    <3>2. Turns'
      BY <1>0, <2>1, <2>3, <3>1 DEF Started, Basics, Turns, MoverBusy, PeerBusy
    <3>3. job'[mover].kind = "delete" /\ Lists(job'[mover].paths, Kept') /\ job'[mover].paths # <<>>
      BY <1>1, <1>4, <2>2, <3>1 DEF Started, Erase
    <3>4. Given'
      BY <1>0, <2>1, <2>3, <3>3 DEF Given
    <3> QED
      BY <3>2, <3>4
  <2>4. ASSUME ~up PROVE Turns' /\ Given'
    <3>1. Request(EraseThere(s)) /\ UNCHANGED <<step, job>>
      BY <2>1, <2>4 DEF ByPeer, sftpVars, thread
    <3>2. Turns'
      BY <1>0, <2>1, <2>4, <3>1 DEF Request, Stage, Basics, Turns, MoverBusy, PeerBusy
    <3>3. Head(s) \in Kept /\ Lists(Tail(s), {f \in Kept : f < Head(s)})
      BY <1>1, <1>4, <2>2, RestLists
    <3>4. request' = [kind |-> "delete", file |-> Head(s), rest |-> Tail(s)]
      BY <3>1 DEF Request, EraseThere
    <3>5. Given'
      <4>1. request'.file = Head(s) /\ request'.rest = Tail(s)
        BY <3>4
      <4>2. Tail(s) \in Seq(Kept)
        BY <1>4, <2>2, TailOf DEF Lists
      <4>3. request' \in [kind : {"delete"}, file : Kept', rest : Seq(Kept')]
        BY <1>1, <3>3, <3>4, <4>2
      <4>4. Lists(request'.rest, {f \in Kept' : f < request'.file})
        BY <1>1, <3>3, <4>1
      <4> QED
        BY <1>0, <2>1, <2>4, <4>3, <4>4 DEF Given
    <3> QED
      BY <3>2, <3>5
  <2>5. Turns' /\ Given'
    BY <1>0, <2>3, <2>4
  <2> QED
    BY <1>0, <1>4, <2>1, <2>2, <2>5 DEF s
<1> QED
  BY <1>3, <1>4

\* The panel lists, and does nothing else.
LEMMA PanelIsTurn ==
    ASSUME Assumptions, Basics, PanelCalls \/ PanelAnswered
    PROVE  /\ Started(panel, [kind |-> "list"]) \/ Rested(panel)
           /\ UNCHANGED <<peerVars, up, pc, cur, skipped, result>>
           /\ Turns' /\ Given'
<1>0. mover # panel /\ panel \in Users /\ mover \in Users /\ Locks /\ Fields /\ Jobs
  BY DEF Assumptions, RemoteMoveAssumption, Basics
<1>1. Started(panel, [kind |-> "list"]) \/ Rested(panel)
  BY <1>0, CallStarts, TakingRests DEF PanelCalls, PanelAnswered
<1>2. UNCHANGED <<peerVars, up, pc, cur, skipped, result>>
  BY DEF PanelCalls, PanelAnswered, moveVars
<1>3. /\ step'[mover] = step[mover] /\ job'[mover] = job[mover]
      /\ step'[panel] # "idle" => job'[panel].kind = "list"
      /\ UNCHANGED <<stage, request>>
  BY <1>0, <1>1, <1>2 DEF Started, Rested, OthersStay, peerVars, waiting
<1>4. Turns'
  BY <1>2, <1>3 DEF Basics, Turns, MoverBusy, PeerBusy
<1>5. Given'
  BY <1>2, <1>3 DEF Basics, Given, Kept
<1> QED
  BY <1>1, <1>2, <1>4, <1>5

\* The SFTP file system works for whoever called it.
LEMMA SftpStepIsTurn ==
    ASSUME Assumptions, Basics, SftpStep, UNCHANGED <<peerVars, moveVars>>
    PROVE  Turns' /\ Given'
<1>0. mover # panel /\ panel \in Users /\ mover \in Users /\ Locks /\ Fields /\ Jobs /\ SftpAssumption
  BY DEF Assumptions, RemoteMoveAssumption, Basics
<1>1. /\ UNCHANGED job
      /\ \A u \in Users : step'[u] = step[u] \/ (step[u] \notin {"idle", "returned"} /\ step'[u] # "idle")
  <2>1. CASE \E u \in Users : Advances(u)
    <3>1. PICK u \in Users : Advances(u)
      BY <2>1
    <3> QED
      BY <1>0, <3>1, OnlyOne
  <2>2. CASE UNCHANGED opVars
    BY <2>2 DEF opVars
  <2> QED
    BY <1>0, <2>1, <2>2, StepAdvances
<1>2. UNCHANGED <<stage, request, up, pc, cur, skipped, result>>
  BY DEF peerVars, waiting, moveVars
<1>3. Turns'
  BY <1>0, <1>1, <1>2 DEF Basics, Turns, MoverBusy, PeerBusy
<1>4. Given'
  BY <1>0, <1>1, <1>2 DEF Basics, Given, Kept
<1> QED
  BY <1>3, <1>4

\* The next of a list of deletions is asked for where the one before was done.
Continues ==
    /\ stage = "await" /\ mail # <<>> /\ Head(mail) = "done"
    /\ request.kind = "delete" /\ request.rest # <<>>
    /\ Renews([request EXCEPT !.file = Head(request.rest), !.rest = Tail(request.rest)])

\* What the peer's side does to the request.
LEMMA PeerStepIsTurn ==
    ASSUME Assumptions, Basics, PeerStep, UNCHANGED <<sftpVars, moveVars>>
    PROVE  /\ request' = request \/ Continues
           /\ stage # "idle" <=> stage' # "idle"
           /\ Turns' /\ Given'
<1>0. UNCHANGED <<job, step, up, pc, cur, skipped, result>>
  BY DEF sftpVars, thread, moveVars
<1>1. /\ request' = request \/ Continues
      /\ stage' = stage \/ (stage # "idle" /\ stage' # "idle")
  <2>1. CASE Receive
    <3>1. CASE request.kind = "delete" /\ Head(mail) = "done" /\ request.rest # <<>>
      <4>1. NextPath
        BY <2>1, <3>1 DEF Receive, Received
      <4>2. Continues
        BY <2>1, <3>1, <4>1 DEF Receive, NextPath, Stage, Continues, Renews
      <4> QED
        BY <2>1, <4>1, <4>2 DEF Receive, NextPath, Stage
    <3>2. CASE ~(request.kind = "delete" /\ Head(mail) = "done" /\ request.rest # <<>>)
      <4>1. request' = request /\ stage = "await"
        BY <2>1, <3>2 DEF Receive, Received
      <4>2. stage' \in {"chunk", "await", "returned"}
        BY <2>1, <3>2, <4>1 DEF Receive, Received, Close, Stage
      <4> QED
        BY <4>1, <4>2
    <3> QED
      BY <3>1, <3>2
  <2>2. CASE Send \/ SendChunk \/ SendEnd \/ TimeOut
    BY <2>2 DEF Send, SendChunk, SendEnd, TimeOut, Close, Stage
  <2>3. CASE Arrive \/ Deliver \/ LinkBreaks
    BY <2>3 DEF Arrive, Deliver, LinkBreaks, waiting
  <2> QED
    BY <2>1, <2>2, <2>3 DEF PeerStep, AskPeer
<1>2. stage # "idle" <=> stage' # "idle"
  BY <1>1
<1>3. Turns'
  BY <1>0, <1>2 DEF Basics, Turns, MoverBusy, PeerBusy
<1>4. ASSUME request' = request PROVE Given'
  BY <1>0, <1>4 DEF Basics, Given, Kept
<1>5. ASSUME Continues PROVE Given'
  <2> DEFINE K == {f \in Kept : f < request.file}
             h == Head(request.rest)
  <2>1. request \in Requests /\ request.rest # <<>> /\ request.kind = "delete"
    BY <1>5 DEF Continues, Basics, Letters
  <2>2. request' = [request EXCEPT !.file = h, !.rest = Tail(request.rest)]
    BY <1>5 DEF Continues, Renews
  <2>3. PeerBusy
    BY <1>5 DEF Continues, Basics, Turns
  <2>4. ~up /\ pc = "sweep"
    BY <1>5, <2>1, <2>3 DEF Basics, Given, PeerBusy, Upload, Download
  <2>5. Lists(request.rest, K) /\ Kept \in SUBSET Nat
    BY <2>4 DEF Basics, Given, Assumptions, RemoteMoveAssumption, Kept
  <2>6. h \in K /\ Lists(Tail(request.rest), {f \in K : f < h})
    <3>1. K \in SUBSET Nat
      BY <2>5
    <3> HIDE DEF K
    <3> QED
      BY <2>1, <2>5, <3>1, RestLists
  <2>7. {f \in K : f < h} = {f \in Kept : f < h}
    <3>1. request.file \in Nat
      BY <2>1, <2>4 DEF Requests, Assumptions, RemoteMoveAssumption
    <3>2. h \in Nat /\ h < request.file
      BY <2>5, <2>6
    <3>3. \A f \in Kept : f < h => f < request.file
      <4> HIDE DEF h
      <4> QED
        BY <2>5, <3>1, <3>2
    <3> QED
      BY <3>3
  <2>8. Kept' = Kept
    BY <1>0 DEF Kept
  <2>9. /\ request' \in [kind : {"delete"}, file : Kept', rest : Seq(Kept')]
        /\ Lists(request'.rest, {f \in Kept' : f < request'.file})
    <3>1. request \in [kind : {"delete"}, file : Kept, rest : Seq(Kept)]
      BY <2>4 DEF Basics, Given
    <3>2. Tail(request.rest) \in Seq(Kept)
      BY <2>1, <3>1, TailOf
    <3> HIDE DEF h
    <3>3. request' \in [kind : {"delete"}, file : Kept, rest : Seq(Kept)]
      BY <2>2, <2>6, <3>1, <3>2
    <3>4. request'.file = h /\ request'.rest = Tail(request.rest)
      BY <2>2, <3>1
    <3> QED
      BY <2>6, <2>7, <2>8, <3>3, <3>4
  <2>10. Given'
    BY <1>0, <2>4, <2>9 DEF Given
  <2> QED
    BY <2>10
<1> QED
  BY <1>1, <1>2, <1>3, <1>4, <1>5

\* Every step of the whole is a step of the transfer, of the panel, or of one
\* of the two file systems, and keeps whose turn it is.
LEMMA StepKeepsTurns ==
    ASSUME Assumptions, Basics, [Next]_vars
    PROVE  Turns' /\ Given'
<1>1. CASE UNCHANGED vars
  BY <1>1 DEF vars, sftpVars, thread, peerVars, waiting, moveVars, Basics, Turns, MoverBusy, PeerBusy,
              Given, Kept
<1>2. CASE SftpNext \/ PeerNext
  BY <1>2, SftpStepIsTurn, PeerStepIsTurn DEF SftpNext, PeerNext
<1>3. CASE Move \/ Cancelled
  BY <1>3, ReadingIsTurn, WritingIsTurn, AnswersAreTurns, SweepingIsTurn DEF Move
<1>4. CASE Decide \/ PanelCalls \/ PanelAnswered
  BY <1>4, RetryIsTurn, GivingUpIsTurn, PanelIsTurn DEF Decide
<1> QED
  BY <1>1, <1>2, <1>3, <1>4 DEF Next

\* Every step keeps the types of the move.
LEMMA StepKeepsMoveTypes ==
    ASSUME Assumptions, Basics, [Next]_vars
    PROVE  MoveTypes'
<1>0. /\ N \in Nat /\ Files = 1..N /\ MaxRetries \in Nat /\ MaxCalls \in Nat
      /\ pc \in {"item", "read", "write", "ask", "skip", "abort", "sweep", "done"}
      /\ cur \in 1..(N + 1) /\ skipped \subseteq Files
      /\ retries \in 0..MaxRetries /\ calls \in 0..MaxCalls
      /\ pc \in {"write", "skip", "ask"} => cur \in Files
  BY DEF Assumptions, RemoteMoveAssumption, Basics, MoveTypes, Turns
<1>1. up' \in BOOLEAN
  BY DEF Basics, MoveTypes, Next, Move, Decide, ReadItem, WriteItem, NextItem, ItemFails, Retry, GiveUp,
         GivenUp, Cancelled, Sweep, EndSweep, PanelCalls, PanelAnswered, SftpNext, PeerNext, vars, moveVars
<1>2. /\ pc' \in {"item", "read", "write", "ask", "skip", "abort", "sweep", "done"}
      /\ result' \in {"none", "ok", "cancelled", "failed"}
  BY DEF Basics, MoveTypes, Next, Move, Decide, ReadItem, WriteItem, NextItem, ItemFails, Retry, GiveUp,
         GivenUp, Cancelled, Sweep, EndSweep, PanelCalls, PanelAnswered, SftpNext, PeerNext, vars,
         moveVars, Finish
<1>3. cur' \in 1..(N + 1)
  <2>1. UNCHANGED cur \/ (cur \in Files /\ cur' = cur + 1)
    BY <1>0 DEF Next, Move, Decide, ReadItem, WriteItem, NextItem, ItemFails, Retry, GiveUp,
         GivenUp, Cancelled, Sweep, EndSweep, PanelCalls, PanelAnswered, SftpNext, PeerNext, vars, moveVars
  <2> QED
    BY <1>0, <2>1
<1>4. skipped' \subseteq Files
  <2>1. UNCHANGED skipped \/ (cur \in Files /\ skipped' = skipped \union {cur})
    BY <1>0 DEF Next, Move, Decide, ReadItem, WriteItem, NextItem, ItemFails, Retry, GiveUp,
         GivenUp, Cancelled, Sweep, EndSweep, PanelCalls, PanelAnswered, SftpNext, PeerNext, vars, moveVars
  <2> QED
    BY <1>0, <2>1
<1>5. retries' \in 0..MaxRetries /\ calls' \in 0..MaxCalls
  BY <1>0 DEF Next, Move, Decide, ReadItem, WriteItem, NextItem, ItemFails, Retry, GiveUp,
         GivenUp, Cancelled, Sweep, EndSweep, PanelCalls, PanelAnswered, SftpNext, PeerNext, vars, moveVars
<1> QED
  BY <1>1, <1>2, <1>3, <1>4, <1>5 DEF MoveTypes

\* Whoever has a turn was given something that makes sense.
LEMMA GivenWell ==
    ASSUME Assumptions, MoveTypes', Turns', Given'
    PROVE  /\ \A u \in Users : step'[u] # "idle" => WellFormed(job'[u])
           /\ stage' # "idle" => request' \in Requests
<1>0. /\ N \in Nat /\ Files = 1..N /\ PeerFiles = Files /\ Users = {mover, panel} /\ up' \in BOOLEAN
      /\ pc' \in {"read", "write", "skip", "abort"} => cur' \in Files
      /\ Kept' = Files \ skipped'
  BY DEF Assumptions, RemoteMoveAssumption, MoveTypes, Turns, Kept
<1>1. step'[panel] # "idle" => WellFormed(job'[panel])
  BY DEF Turns, WellFormed
<1>2. ASSUME step'[mover] # "idle" PROVE WellFormed(job'[mover])
  <2>1. CASE up' /\ pc' = "read"
    BY <1>0, <2>1 DEF Given, WellFormed
  <2>2. CASE ~up' /\ pc' = "write"
    BY <1>0, <2>2 DEF Given, WellFormed
  <2>3. CASE ~up' /\ pc' \in {"skip", "abort"}
    <3>1. job'[mover] = [kind |-> "delete", paths |-> <<cur'>>] /\ <<cur'>> \in Seq(Files) /\ <<cur'>> # <<>>
      BY <1>0, <2>3 DEF Given
    <3> QED
      BY <3>1 DEF WellFormed
  <2>4. CASE up' /\ pc' = "sweep"
    <3>1. job'[mover].kind = "delete" /\ Lists(job'[mover].paths, Kept') /\ job'[mover].paths # <<>>
      BY <2>4 DEF Given
    <3>2. job'[mover].paths \in Seq(Files)
      <4>1. job'[mover].paths \in Seq(Kept') /\ Kept' \subseteq Files
        BY <1>0, <3>1 DEF Lists
      <4> QED
        BY <4>1, SeqMonotonic
    <3> QED
      BY <3>1, <3>2 DEF WellFormed
  <2> QED
    BY <1>0, <1>2, <2>1, <2>2, <2>3, <2>4 DEF Turns, MoverBusy
<1>3. ASSUME stage' # "idle" PROVE request' \in Requests
  <2>1. CASE pc' \in {"read", "write", "skip", "abort"}
    <3>1. /\ <<>> \in Seq(PeerFiles) /\ cur' \in PeerFiles
          /\ request' \in {[kind |-> "upload", file |-> cur', rest |-> <<>>],
                           [kind |-> "download", file |-> cur', rest |-> <<>>],
                           [kind |-> "delete", file |-> cur', rest |-> <<>>]}
      BY <1>0, <1>3, <2>1 DEF Turns, PeerBusy, Given, Upload, Download
    <3>2. \A k \in {"upload", "download", "delete"} :
             [kind |-> k, file |-> cur', rest |-> <<>>] \in Requests
      BY <3>1 DEF Requests
    <3> QED
      BY <3>1, <3>2
  <2>2. CASE ~up' /\ pc' = "sweep"
    <3>1. request' \in [kind : {"delete"}, file : Kept', rest : Seq(Kept')]
      BY <2>2 DEF Given
    <3>2. Seq(Kept') \subseteq Seq(PeerFiles)
      BY <1>0, SeqMonotonic
    <3> QED
      BY <1>0, <3>1, <3>2 DEF Requests
  <2> QED
    BY <1>0, <1>3, <2>1, <2>2 DEF Turns, PeerBusy
<1> QED
  BY <1>0, <1>1, <1>2, <1>3

\* On either side a step of the whole is one of that side's, or none.
LEMMA OnEither ==
    ASSUME Assumptions, Basics, [Next]_vars
    PROVE  /\ SftpStep \/ (\E u \in Users : Begins(u) \/ Takes(u)) \/ UNCHANGED sftpVars
           /\ PeerStep \/ AsksPeer \/ ReadsReply \/ UNCHANGED peerVars
<1>0. RemoteMoveAssumption /\ Locks /\ Fields /\ Jobs
  BY DEF Assumptions, Basics
<1>1. /\ \A u \in Users : step'[u] # "idle" => WellFormed(job'[u])
      /\ stage' # "idle" => request' \in Requests
  BY StepKeepsTurns, StepKeepsMoveTypes, GivenWell
<1>2. ASSUME NEW u \in Users, NEW j, Call(u, j) PROVE Begins(u)
  <2>1. Started(u, j)
    BY <1>0, <1>2, CallStarts
  <2> QED
    BY <1>1, <1>2, <2>1 DEF Started, Begins
<1>3. ASSUME NEW r, Request(r) PROVE AsksPeer
  <2>1. request' = r /\ stage' = "send"
    BY <1>3 DEF Request, Stage
  <2> QED
    BY <1>1, <1>3, <2>1 DEF AsksPeer
<1> QED
  BY <1>0, <1>2, <1>3, OnSftp, OnPeer DEF Takes, ReadsReply

\* Every step keeps the basic invariants.
LEMMA StepKeepsBasics ==
    ASSUME Assumptions, Basics, [Next]_vars
    PROVE  Basics'
<1>0. Locks /\ NoStaleWaiter /\ Fields /\ Jobs /\ PeerFields /\ Letters /\ SftpAssumption /\ PeerAssumption
  BY DEF Assumptions, Basics
<1>1. Locks' /\ Fields' /\ Jobs'
  <2>1. CASE SftpStep
    <3>1. Jobs'
      <4>1. CASE \E u \in Users : Advances(u)
        BY <1>0, <4>1, AdvancingKeepsJobs
      <4>2. CASE UNCHANGED opVars
        BY <1>0, <4>2 DEF opVars, Jobs, JobOf, WellFormed
      <4> QED
        BY <1>0, <2>1, <4>1, <4>2, StepAdvances
    <3> QED
      BY <1>0, <2>1, <3>1, StepKeepsLocks, StepKeepsFields
  <2>2. CASE \E u \in Users : Begins(u) \/ Takes(u)
    BY <1>0, <2>2, CallersKeepLocks, CallersKeepFields, CallersKeepJobs DEF Begins, Takes
  <2>3. CASE UNCHANGED sftpVars
    <3>1. Locks'
      BY <1>0, <2>3, LocksStand DEF sftpVars, mutexes, tunnels, thread
    <3>2. Fields'
      BY <1>0, <2>3 DEF sftpVars, tunnels, thread, Fields
    <3>3. Jobs'
      BY <1>0, <2>3 DEF sftpVars, thread, Jobs, JobOf, WellFormed
    <3> QED
      BY <3>1, <3>2, <3>3
  <2> QED
    BY <2>1, <2>2, <2>3, OnEither
<1>2. PeerFields' /\ Letters' /\ NoStaleWaiter'
  <2>1. CASE PeerStep \/ AsksPeer \/ ReadsReply
    <3>1. NoStaleWaiter'
      BY <1>0, <2>1, PeerKeepsWaiters DEF AsksPeer, ReadsReply
    <3>2. \/ \E r \in Requests : Renews(r)
          \/ Quits \/ Reads
          \/ \E k, s : Posts(k, s)
          \/ Arrive \/ Deliver \/ LinkBreaks
      BY <1>0, <2>1, PeerDoes, PeerTypes
    <3> QED
      BY <1>0, <3>1, <3>2, RenewingKeepsLetters, QuittingKeepsLetters, PostingKeepsLetters,
         ReadingKeepsLetters, ArrivingKeepsLetters, DeliveringKeepsLetters, BreakingKeepsLetters
  <2>2. CASE UNCHANGED peerVars
    BY <1>0, <2>2 DEF peerVars, waiting, wire, PeerFields, Letters, NoStaleWaiter
  <2> QED
    BY <2>1, <2>2, OnEither
<1> QED
  BY <1>1, <1>2, StepKeepsTurns, StepKeepsMoveTypes DEF Basics

\* They hold at the start.
LEMMA InitBasics ==
    ASSUME Assumptions, Init
    PROVE  Basics
<1>0. /\ N \in Nat /\ Files = 1..N /\ PeerFiles = Files /\ Users = {mover, panel}
      /\ {MaxRetries, MaxCalls, MaxTunnels, MaxFaults, Capacity, MaxRequests, MaxPeerFaults} \subseteq Nat
  BY DEF Assumptions, RemoteMoveAssumption, SftpAssumption, PeerAssumption
<1>1. Locks /\ NoStaleWaiter
  BY InitLocks DEF Assumptions
<1>2. Fields
  <2>1. closed \in BOOLEAN /\ store \in [Files -> {"none", "part", "full"}]
    BY Zenon DEF Init, SftpInit
  <2> QED
    BY <1>0, <2>1 DEF Init, SftpInit, Fields
<1>3. Jobs
  BY DEF Init, SftpInit, NoJob, Jobs, JobOf
<1>4. PeerFields
  <2>1. broken \in BOOLEAN
    BY Zenon DEF Init, PeerInit
  <2>2. shared \in [PeerFiles -> {"none", "full"}]
    BY <1>0 DEF Init
  <2> QED
    BY <1>0, <2>1, <2>2 DEF Init, PeerInit, PeerFields
<1>5. Letters
  BY DEF Init, PeerInit, Letters, NoRequest
<1>6. MoveTypes
  BY <1>0 DEF Init, MoveTypes
<1>7. Turns /\ Given
  BY <1>0 DEF Init, SftpInit, PeerInit, Turns, Given, MoverBusy, PeerBusy
<1> QED
  BY <1>1, <1>2, <1>3, <1>4, <1>5, <1>6, <1>7 DEF Basics

\* What is assumed of the constants.
LEMMA Assumed == Assumptions
BY RemoteMoveAssumption, SftpAssumption, PeerAssumption DEF Assumptions

\* The basic invariants hold of every behaviour.
LEMMA BasicsKept == Spec => []Basics
<1>1. Init => Basics
  BY InitBasics, Assumed
<1>2. Basics /\ [Next]_vars => Basics'
  BY StepKeepsBasics, Assumed
<1> QED
  BY <1>1, <1>2, PTL DEF Spec

\* The types follow from them.
LEMMA BasicTypes ==
    ASSUME Assumptions, Basics
    PROVE  TypeOK
<1>1. SftpTypeOK
  <2>1. step \in [Users -> {"idle", "resolve", "peek", "clear", "build", "enter", "handshake",
                           "run", "fill", "returned"}]
    BY DEF Basics, Locks, Shapes, Steps
  <2> QED
    BY <2>1 DEF Basics, Locks, Shapes, Fields, SftpTypeOK
<1>2. PeerTypeOK
  BY PeerTypes DEF Basics
<1> QED
  BY <1>1, <1>2 DEF Basics, MoveTypes, TypeOK

\* The variables of the two file systems and of the move have their types.
THEOREM TypesHold == Spec => []TypeOK
<1>1. Basics => TypeOK
  BY BasicTypes, Assumed
<1> QED
  BY <1>1, BasicsKept, PTL

-------------------------------------------------------------------------------
(* The order of what goes to the peer and the state of the uploads hold.     *)

\* Every step keeps the letters in order, and the uploads.
LEMMA StepKeepsOrder ==
    ASSUME Assumptions, Basics, InOrder, Uploading, [Next]_vars
    PROVE  InOrder' /\ Uploading'
<1>0. PeerBasics /\ PeerFields /\ Letters /\ NoStaleWaiter /\ PeerAssumption
  BY DEF Assumptions, Basics, PeerBasics
<1>1. CASE PeerStep \/ AsksPeer \/ ReadsReply
  <2>1. \/ \E r \in Requests : Renews(r)
        \/ Quits \/ Reads
        \/ \E k, s : Posts(k, s)
        \/ Arrive \/ Deliver \/ LinkBreaks
    BY <1>0, <1>1, PeerDoes, PeerTypes
  <2>2. InOrder'
    BY <1>0, <2>1, RenewingKeepsOrder, QuittingKeepsOrder, PostingKeepsOrder, ReadingKeepsOrder,
       ArrivingKeepsOrder, DeliveringKeepsOrder, BreakingKeepsOrder
  <2> QED
    BY <1>0, <2>1, <2>2, PeerKeepsUploads
<1>2. CASE UNCHANGED peerVars
  BY <1>2 DEF peerVars, waiting, wire, InOrder, Unsent, Unanswered, ChunkThenEnd, Fitting, Fits, Belongs,
              SoFar, Uploading, UploadBegun, UploadSent, Accepted, Filled
<1> QED
  BY <1>1, <1>2, OnEither

\* There are none at the start.
LEMMA InitOrder ==
    ASSUME Assumptions, Init
    PROVE  InOrder /\ Uploading
<1>1. DOMAIN queue = {} /\ DOMAIN inbox = {} /\ stage = "idle"
  BY DEF Init, PeerInit
<1> QED
  BY <1>1 DEF InOrder, Unsent, Unanswered, ChunkThenEnd, Fitting, SoFar, Uploading, UploadBegun, UploadSent

\* The letters are in order in every behaviour.
LEMMA OrderKept == Spec => [](InOrder /\ Uploading)
<1>1. Init => InOrder /\ Uploading
  BY InitOrder, Assumed
<1>2. Basics /\ (InOrder /\ Uploading) /\ [Next]_vars => (InOrder /\ Uploading)'
  BY StepKeepsOrder, Assumed
<1> QED
  BY <1>1, <1>2, BasicsKept, PTL DEF Spec

-------------------------------------------------------------------------------
(* What is still at the source.                                              *)

\* The sweep has begun; only then is anything deleted that was not given up.
Sweeping == pc = "sweep" \/ result \in {"ok", "failed"}

\* What the server still holds of what goes up.
StoreLeft ==
    /\ \A f \in Files : store[f] = "full" \/ (store[f] = "none" /\ Sweeping /\ f \in Kept)
    /\ \A f, g \in Kept : f < g /\ store[f] = "none" => store[g] = "none"
    /\ pc = "sweep" =>
          /\ \A i \in DOMAIN job[mover].paths : i < next[mover] => store[job[mover].paths[i]] = "none"
          /\ answer[mover] = "ok" => \A f \in Kept : store[f] = "none"
    /\ result = "ok" => \A f \in Kept : store[f] = "none"

\* In a list that goes down, what is greater comes before.
LEMMA GreaterBefore ==
    ASSUME NEW K \in SUBSET Nat, NEW s, Lists(s, K), NEW n \in DOMAIN s, NEW g \in K, s[n] < g
    PROVE  \E i \in DOMAIN s : i < n /\ s[i] = g
<1>1. PICK i \in DOMAIN s : s[i] = g
  BY DEF Lists
<1>2. s[n] \in K /\ n \in Nat /\ i \in Nat
  BY DEF Lists
<1>3. ~(n < i) /\ n # i
  <2>1. n < i => s[i] < s[n]
    BY DEF Lists, Downwards
  <2>2. s[n] \in Nat /\ g \in Nat
    BY <1>2
  <2> QED
    BY <1>1, <2>1, <2>2
<1> QED
  BY <1>1, <1>2, <1>3

\* A thread of the SFTP file system deletes the next on the list, or nothing.
LEMMA ThreadKeepsStore ==
    ASSUME Assumptions, Basics, up, StoreLeft, NEW u \in Users, Advances(u),
           UNCHANGED moveVars
    PROVE  StoreLeft'
<1>0. /\ Users = {mover, panel} /\ mover # panel /\ Locks /\ Fields /\ Jobs
      /\ N \in Nat /\ Files = 1..N /\ Kept \subseteq Files /\ Kept \in SUBSET Nat
  BY DEF Assumptions, RemoteMoveAssumption, Basics, Kept
<1>1. /\ UNCHANGED job
      /\ step[u] \notin {"idle", "returned"} /\ step'[u] \in Steps \ {"idle"}
      /\ \A v \in Users \ {u} : step'[v] = step[v] /\ next'[v] = next[v] /\ answer'[v] = answer[v]
      /\ AdvancesTo(u, step'[u], next'[u], answer'[u])
  BY <1>0, OnlyOne
<1>2. UNCHANGED <<up, pc, cur, skipped, result>> /\ Kept' = Kept
  BY DEF moveVars, Kept
<1>3. ASSUME u = panel PROVE StoreLeft'
  <2>1. job[u].kind = "list" /\ UNCHANGED store /\ next'[mover] = next[mover] /\ answer'[mover] = answer[mover]
    BY <1>0, <1>1, <1>3 DEF Basics, Turns, AdvancesTo, DeletesOne, WritesSome
  <2> QED
    BY <1>0, <1>1, <1>2, <2>1 DEF StoreLeft, Sweeping
<1>4. ASSUME u = mover PROVE StoreLeft'
  <2>1. pc \in {"read", "sweep"} /\ result = "none"
    BY <1>1, <1>4 DEF Basics, Turns, MoverBusy
  <2>2. CASE pc = "read"
    <3>1. job[mover].kind = "read" /\ UNCHANGED store
      BY <1>1, <1>4, <2>2 DEF Basics, Given, AdvancesTo, DeletesOne, WritesSome
    <3> QED
      BY <1>2, <2>1, <2>2, <3>1 DEF StoreLeft, Sweeping
  <2>3. CASE pc = "sweep"
    <3> DEFINE p == job[mover].paths
               n == next[mover]
               m == next'[mover]
               a == answer'[mover]
    <3>1. job[mover].kind = "delete" /\ Lists(p, Kept) /\ n \in DOMAIN p /\ DOMAIN p = 1..Len(p) /\ Len(p) \in Nat
      <4>1. job[mover].kind = "delete" /\ Lists(p, Kept) /\ n \in 1..Len(p)
        BY <1>0, <2>3 DEF Basics, Given, Jobs, JobOf
      <4> QED
        BY <4>1 DEF Lists
    <3>2. /\ \A i \in DOMAIN p : i \in Nat /\ p[i] \in Kept
          /\ \A i \in DOMAIN p : i < n => store[p[i]] = "none"
          /\ job'[mover].paths = p
      BY <1>1, <2>3, <3>1 DEF StoreLeft, Lists
    <3>3. \A f, g \in Kept : f < g /\ store[f] = "none" => store[g] = "none"
      BY DEF StoreLeft
    <3>4. store \in [Files -> {"none", "part", "full"}]
      BY <1>0 DEF Fields
    <3>5. \/ UNCHANGED store /\ m \in {1, n} /\ a # "ok"
          \/ DeletesOne(mover, m, a)
      BY <1>1, <1>4, <3>1 DEF AdvancesTo, WritesSome
    <3>6. CASE UNCHANGED store /\ m \in {1, n} /\ a # "ok"
      <4>1. \A i \in DOMAIN p : i < m => store[p[i]] = "none"
        BY <3>1, <3>2, <3>6
      <4> QED
        BY <1>2, <2>1, <3>1, <3>2, <3>6, <4>1 DEF StoreLeft, Sweeping
    <3>7. CASE DeletesOne(mover, m, a)
      <4> DEFINE f == p[n]
      <4>1. /\ store' = [store EXCEPT ![f] = "none"]
            /\ m \in {n, n + 1} /\ (a = "ok" => m = n /\ n = Len(p))
        BY <3>7 DEF DeletesOne
      <4>2. f \in Kept /\ f \in Files
        BY <1>0, <3>1, <3>2
      <4>3. ASSUME NEW g \in Kept, f < g PROVE store[g] = "none"
        <5>1. PICK i \in DOMAIN p : i < n /\ p[i] = g
          <6> HIDE DEF p, n
          <6> QED
            BY <1>0, <3>1, <4>3, GreaterBefore
        <5> QED
          BY <3>2, <5>1
      <4>4. ASSUME NEW i \in DOMAIN p, i < n + 1 PROVE store'[p[i]] = "none"
        <5>1. i < n \/ i = n
          BY <3>1, <3>2, <4>4
        <5> QED
          BY <1>0, <3>2, <3>4, <4>1, <5>1
      <4>5. a = "ok" => \A g \in Kept : store'[g] = "none"
        <5> SUFFICES ASSUME a = "ok", NEW g \in Kept PROVE store'[g] = "none"
          OBVIOUS
        <5>1. PICK i \in DOMAIN p : p[i] = g
          BY <3>1 DEF Lists
        <5>2. i < n + 1
          BY <3>1, <4>1
        <5> QED
          BY <4>4, <5>1, <5>2
      <4> HIDE DEF f
      <4>6. \A g \in Files : store'[g] = "full" \/ (store'[g] = "none" /\ Sweeping /\ g \in Kept)
        BY <2>3, <3>4, <4>1, <4>2 DEF StoreLeft, Sweeping
      <4>7. \A g, h \in Kept : g < h /\ store'[g] = "none" => store'[h] = "none"
        BY <1>0, <3>3, <3>4, <4>1, <4>2, <4>3
      <4>8. \A i \in DOMAIN p : i < m => store'[p[i]] = "none"
        BY <3>1, <3>2, <4>1, <4>4
      <4> QED
        BY <1>2, <2>1, <3>2, <4>5, <4>6, <4>7, <4>8 DEF StoreLeft, Sweeping
    <3> QED
      BY <3>5, <3>6, <3>7
  <2> QED
    BY <2>1, <2>2, <2>3
<1> QED
  BY <1>0, <1>3, <1>4

\* Where nothing is deleted and nothing swept, all is as it was.
LEMMA StoreStands ==
    ASSUME StoreLeft, UNCHANGED store, pc' # "sweep", Sweeping => Sweeping',
           skipped' = skipped \/ ~Sweeping,
           result' = "ok" => \A f \in Kept' : store[f] = "none"
    PROVE  StoreLeft'
<1>1. CASE skipped' = skipped
  BY <1>1 DEF StoreLeft, Kept
<1>2. CASE ~Sweeping
  <2>1. \A f \in Files : store[f] = "full"
    BY <1>2 DEF StoreLeft
  <2> QED
    BY <2>1 DEF StoreLeft, Kept
<1> QED
  BY <1>1, <1>2

\* On the way up, every step leaves at the server what is not yet swept.
LEMMA StepKeepsStore ==
    ASSUME Assumptions, Basics, up => StoreLeft, [Next]_vars
    PROVE  up' => StoreLeft'
<1>0. /\ mover # panel /\ panel \in Users /\ mover \in Users /\ Locks /\ Fields /\ Jobs /\ SftpAssumption
      /\ pc # "done" <=> result = "none"
      /\ up \in BOOLEAN
  BY DEF Assumptions, RemoteMoveAssumption, Basics, Turns, MoveTypes
<1>1. up' = up
  BY DEF Next, Move, Decide, ReadItem, WriteItem, NextItem, ItemFails, Retry, GiveUp, GivenUp, Cancelled,
         Sweep, EndSweep, PanelCalls, PanelAnswered, SftpNext, PeerNext, vars, moveVars
<1> SUFFICES ASSUME up PROVE StoreLeft'
  BY <1>1
<1>2. CASE UNCHANGED <<store, thread, moveVars>>
  BY <1>2 DEF thread, moveVars, StoreLeft, Sweeping, Kept
<1>3. CASE SftpNext
  <2>1. UNCHANGED moveVars /\ SftpStep
    BY <1>3 DEF SftpNext
  <2>2. CASE \E u \in Users : Advances(u)
    BY <2>1, <2>2, ThreadKeepsStore
  <2>3. CASE UNCHANGED opVars
    BY <2>1, <2>3 DEF opVars, moveVars, StoreLeft, Sweeping, Kept
  <2> QED
    BY <1>0, <2>1, <2>2, <2>3, StepAdvances
<1>4. CASE ReadItem \/ WriteItem \/ NextItem \/ ItemFails \/ GivenUp \/ Cancelled \/ Retry
  <2>1. UNCHANGED store
    BY <1>4 DEF ReadItem, WriteItem, NextItem, ItemFails, GivenUp, Cancelled, Retry, Says, SftpSays, PeerSays,
                Taken, Sftp, Peer, Call, sftpVars
  <2>2. /\ pc \notin {"sweep", "done"} /\ pc' # "sweep" /\ result' # "ok" /\ UNCHANGED skipped
    BY <1>0, <1>4 DEF ReadItem, WriteItem, NextItem, ItemFails, GivenUp, Cancelled, Retry, Finish
  <2>3. ~Sweeping
    BY <1>0, <2>2 DEF Sweeping
  <2> QED
    BY <2>1, <2>2, <2>3, StoreStands
<1>5. CASE \E abort \in BOOLEAN : GiveUp(abort)
  <2>1. PICK abort \in BOOLEAN : GiveUp(abort)
    BY <1>5
  <2>2. UNCHANGED store
    BY <2>1, GivingUpIsTurn DEF ByPeer, sftpVars
  <2>3. pc = "ask" /\ pc' # "sweep" /\ UNCHANGED result
    BY <2>1 DEF GiveUp
  <2>4. ~Sweeping
    BY <1>0, <2>3 DEF Sweeping
  <2> QED
    BY <1>0, <2>2, <2>3, <2>4, StoreStands
<1>6. CASE Sweep
  <2>1. pc = "item" /\ UNCHANGED skipped
    BY <1>6, SweepingIsTurn
  <2>2. ~Sweeping
    BY <1>0, <2>1 DEF Sweeping
  <2>3. CASE Kept = {} /\ Finish("ok") /\ UNCHANGED <<sftpVars, peerVars>>
    <3>1. UNCHANGED store /\ pc' = "done" /\ Kept' = {}
      BY <2>1, <2>3 DEF Finish, sftpVars, Kept
    <3> QED
      BY <2>2, <3>1, StoreStands
  <2>4. CASE pc' = "sweep" /\ UNCHANGED result /\ ByMover(Erase(Swept))
    <3>1. UNCHANGED store /\ next'[mover] = 1 /\ answer'[mover] = "none"
      BY <1>0, <2>4 DEF ByMover, Started, Jobs, JobOf
    <3>2. \A f \in Files : store[f] = "full"
      BY <2>2 DEF StoreLeft
    <3>3. /\ \A i \in DOMAIN job'[mover].paths : ~(i < next'[mover])
          /\ Kept' \subseteq Files /\ result' # "ok"
      <4>1. job'[mover].paths = Swept /\ Swept \in Seq(Kept)
        BY <2>4, SweptLists DEF ByMover, Started, Erase, Lists, Assumptions, Kept
      <4> DEFINE s == Swept
      <4> HIDE DEF s
      <4>2. s \in Seq(Kept) /\ job'[mover].paths = s
        BY <4>1 DEF s
      <4>3. \A i \in DOMAIN s : i \in Nat /\ i >= 1
        BY <4>2
      <4> QED
        BY <1>0, <2>1, <2>4, <3>1, <4>2, <4>3 DEF Kept
    <3> QED
      BY <2>4, <3>1, <3>2, <3>3 DEF StoreLeft
  <2> QED
    BY <1>6, <2>3, <2>4, SweepingIsTurn
<1>7. CASE EndSweep
  <2>1. PICK a \in {"ok", "error"} : Says(up, a) /\ Finish(IF a = "ok" THEN "ok" ELSE "failed")
    BY <1>7 DEF EndSweep
  <2>2. answer[mover] = a /\ UNCHANGED store
    BY <1>0, <2>1, MoveDoes DEF MoverSaid, Rested
  <2>3. pc = "sweep" /\ pc' = "done" /\ UNCHANGED skipped /\ Kept' = Kept
    BY <1>7, <2>1 DEF EndSweep, Finish, Kept
  <2>4. result' = "ok" => \A f \in Kept' : store[f] = "none"
    BY <2>1, <2>2, <2>3 DEF Finish, StoreLeft
  <2>5. Sweeping'
    BY <2>1 DEF Finish, Sweeping
  <2> QED
    BY <2>2, <2>3, <2>4, <2>5, StoreStands
<1>8. CASE PanelCalls \/ PanelAnswered
  <2>1. /\ UNCHANGED <<store, pc, skipped, result>>
        /\ job'[mover] = job[mover] /\ next'[mover] = next[mover] /\ answer'[mover] = answer[mover]
    BY <1>0, <1>8, PanelIsTurn DEF Started, Rested, OthersStay
  <2> QED
    BY <2>1 DEF StoreLeft, Sweeping, Kept
<1> QED
  BY <1>2, <1>3, <1>4, <1>5, <1>6, <1>7, <1>8 DEF Next, Move, Decide, vars, sftpVars, PeerNext

-------------------------------------------------------------------------------
(* What has been sent to the peer, and what the transfer reported.           *)

PeerActs ==
    \/ \E r \in Requests : Renews(r)
    \/ Quits \/ Reads
    \/ \E k, s : Posts(k, s)
    \/ Arrive \/ Deliver \/ LinkBreaks

\* A letter in the queue was there, or has just been put there.
LEMMA LettersBefore ==
    ASSUME PeerBasics, PeerActs, NEW i \in DOMAIN queue'
    PROVE  \/ \E j \in DOMAIN queue : queue'[i] = queue[j]
           \/ \E k, s : Posts(k, s) /\ queue'[i] = Message(k)
<1>1. ASSUME UNCHANGED queue PROVE \E j \in DOMAIN queue : queue'[i] = queue[j]
  BY <1>1
<1>2. ASSUME Arrive PROVE \E j \in DOMAIN queue : queue'[i] = queue[j]
  BY <1>2, ArrivalHandles DEF PeerBasics, Shortens
<1>3. ASSUME LinkBreaks PROVE FALSE
  <2>1. DOMAIN queue' = {}
    BY <1>3 DEF LinkBreaks
  <2> QED
    BY <2>1
<1>4. ASSUME NEW k, NEW s, Posts(k, s)
      PROVE  queue'[i] = Message(k) \/ \E j \in DOMAIN queue : queue'[i] = queue[j]
  <2>1. Lengthens(queue, Message(k), queue')
    BY <1>4, PostingKeepsLetters DEF PeerBasics
  <2> QED
    BY <2>1 DEF Lengthens
<1> QED
  BY <1>1, <1>2, <1>3, <1>4 DEF PeerActs, Renews, Quits, Reads, Deliver, wire

\* The peer has the file, or will have it, or lost it with the link, or could
\* not store it.
Safe(f) == shared[f] = "full" \/ InFlight(f) \/ (f \in lost /\ broken) \/ f \in unstored

\* Only a deletion takes it away again: an upload that ends while the link
\* holds is whole.
LEMMA ActsKeepSafe ==
    ASSUME PeerBasics, Uploading, PeerActs, NEW f \in PeerFiles, Safe(f),
           1 \in DOMAIN queue /\ queue[1].kind = "delete" => queue[1].file # f
    PROVE  Safe(f)'
<1>1. CASE UNCHANGED <<queue, shared, lost, unstored, broken>>
  BY <1>1 DEF Safe, InFlight
<1>2. CASE Arrive
  <2> DEFINE m == queue[1]
  <2>1. /\ 1 \in DOMAIN queue /\ m \in Commands /\ Shortens(queue, queue') /\ UNCHANGED broken
        /\ \E kinds \in Seq(AnswerKinds) : Handles(m, kinds) /\ Answered(m, kinds)
    BY <1>2, ArrivalHandles DEF PeerBasics
  <2>2. m.kind = "delete" => m.file # f
    BY <2>1
  <2>3. m.kind = "complete" /\ ~broken => uploads[m.id] = "filled"
    <3>1. \A j \in DOMAIN queue : ~(j < 1)
      BY DEF PeerBasics, Letters
    <3> QED
      BY <2>1, <3>1 DEF Uploading, Filled
  <2>4. m.file \in PeerFiles /\ shared \in [PeerFiles -> {"none", "full"}]
    BY <2>1 DEF Commands, PeerBasics, PeerFields
  <2> HIDE DEF m
  <2>5. \/ shared'[f] = "full"
        \/ shared'[f] = shared[f] /\ ~(m.kind = "complete" /\ m.file = f)
        \/ f \in lost' /\ broken
        \/ f \in unstored'
    BY <2>1, <2>2, <2>3, <2>4 DEF Handles
  <2>6. lost \subseteq lost' /\ unstored \subseteq unstored'
    BY <2>1 DEF Handles
  <2>7. ASSUME NEW i \in DOMAIN queue, queue[i].kind = "complete", queue[i].file = f,
               ~(m.kind = "complete" /\ m.file = f)
        PROVE  InFlight(f)'
    <3>1. i # 1
      BY <2>7 DEF m
    <3>2. i - 1 \in DOMAIN queue' /\ queue'[i - 1] = queue[i]
      BY <2>1, <3>1 DEF Shortens
    <3> QED
      BY <2>7, <3>2 DEF InFlight
  <2> QED
    BY <2>1, <2>5, <2>6, <2>7 DEF Safe, InFlight
<1>3. CASE LinkBreaks
  <2>1. InFlight(f) => f \in lost'
    BY <1>3 DEF LinkBreaks, InFlight
  <2>2. /\ UNCHANGED <<shared, unstored>> /\ broken' = TRUE /\ lost \subseteq lost'
    BY <1>3 DEF LinkBreaks
  <2> QED
    BY <2>1, <2>2 DEF Safe
<1>4. ASSUME NEW k, NEW s, Posts(k, s) PROVE Safe(f)'
  <2>1. Lengthens(queue, Message(k), queue') /\ UNCHANGED <<shared, lost, unstored, broken>>
    BY <1>4, PostingKeepsLetters DEF PeerBasics, Posts
  <2> QED
    BY <2>1 DEF Lengthens, Safe, InFlight
<1> QED
  BY <1>1, <1>2, <1>3, <1>4 DEF PeerActs, Renews, Quits, Reads, Deliver, wire

\* An upload is reported once its end has been queued.
LEMMA ReportedAtTheEnd ==
    ASSUME PeerBasics, InOrder, request.kind = "upload", PeerStep \/ AsksPeer \/ ReadsReply,
           reply' = "ok"
    PROVE  reply = "ok" \/ (request' = request /\ InFlight(request.file)')
<1>1. CASE SendEnd
  <2>1. Posts("complete", "returned")
    BY <1>1 DEF SendEnd, Close, Stage, Posts
  <2>2. Lengthens(queue, Message("complete"), queue') /\ UNCHANGED request
    BY <2>1, PostingKeepsLetters DEF PeerBasics, Posts
  <2> QED
    BY <2>2 DEF Lengthens, InFlight, Message
<1>2. CASE Receive
  <2>1. /\ stage = "await" /\ mail # <<>> /\ Received(Head(mail))
        /\ mail \in Seq(AnswerKinds \ {"content"})
    BY <1>2 DEF Receive, PeerBasics, Letters
  <2>2. Head(mail) \in {"accepted", "refused"}
    BY <2>1, TailOf DEF Shortens, InOrder, Fitting, Fits
  <2>3. reply' \in {reply, "error"}
    BY <2>1, <2>2 DEF Received, Close, Stage
  <2> QED
    BY <2>3
<1>3. CASE ~(SendEnd \/ Receive)
  BY <1>3 DEF PeerStep, AskPeer, AsksPeer, ReadsReply, Send, SendChunk, TimeOut, Close, Stage, Request,
              ReplyTaken, Arrive, Deliver, LinkBreaks, waiting
<1> QED
  BY <1>1, <1>2, <1>3

\* How a step of the whole moves the transfer on.
MovesOn ==
    /\ up' = up /\ skipped \subseteq skipped'
    /\ pc \in {"abort", "done"} => cur' = cur /\ pc' \in {"abort", "done"}
    /\ cur' = cur \/ (cur' = cur + 1 /\ pc' = "item" /\ (pc = "skip" \/ (pc = "write" /\ Says(~up, "ok"))))
    /\ pc' = "write" => cur' = cur /\ (pc = "write" \/ WriteItem)
    /\ pc' = "sweep" => (pc = "sweep" /\ UNCHANGED result) \/ Sweep
    /\ Sweeping => Sweeping' /\ UNCHANGED <<cur, skipped>>
    /\ skipped' = skipped \/ (skipped' = skipped \union {cur} /\ cur' = cur)
    /\ result' = "ok" => result = "ok" \/ EndSweep \/ Sweep

\* The list of files only goes on, and the direction stays.
LEMMA StepMovesOn ==
    ASSUME Assumptions, Basics, [Next]_vars
    PROVE  MovesOn
<1>0. /\ pc \in {"item", "read", "write", "ask", "skip", "abort", "sweep", "done"}
      /\ pc # "done" <=> result = "none"
  BY DEF Basics, MoveTypes, Turns
<1>1. CASE UNCHANGED <<up, pc, cur, skipped, result>>
  BY <1>1 DEF MovesOn, Sweeping
<1>2. CASE Sweep \/ EndSweep
  BY <1>0, <1>2 DEF Sweep, EndSweep, Finish, MovesOn, Sweeping
<1>3. CASE GivenUp
  BY <1>0, <1>3 DEF GivenUp, Finish, MovesOn, Sweeping
<1>4. CASE NextItem \/ ReadItem \/ WriteItem
  BY <1>0, <1>4 DEF NextItem, ReadItem, WriteItem, MovesOn, Sweeping
<1>5. CASE ItemFails \/ Retry \/ Cancelled \/ GiveUp(FALSE) \/ GiveUp(TRUE)
  BY <1>0, <1>5 DEF ItemFails, Retry, Cancelled, GiveUp, Finish, MovesOn, Sweeping
<1> QED
  BY <1>1, <1>2, <1>3, <1>4, <1>5 DEF Next, Move, Decide, PanelCalls, PanelAnswered, SftpNext, PeerNext,
     moveVars, vars

\* On the way up: only what was given up is asked to be deleted, and what was
\* reported is safe.
SharedSafe ==
    /\ \A i \in DOMAIN queue : queue[i].kind = "delete" =>
          queue[i].file \in skipped \/ (queue[i].file = cur /\ pc \in {"abort", "done"})
    /\ \A f \in Kept : f < cur => Safe(f)
    /\ pc = "write" /\ reply = "ok" => Safe(cur)

\* On the way up, every step leaves with the peer what was reported.
LEMMA StepKeepsShared ==
    ASSUME Assumptions, Basics, InOrder, Uploading, up => SharedSafe, [Next]_vars
    PROVE  up' => SharedSafe'
<1>0. /\ PeerBasics /\ MovesOn /\ up \in BOOLEAN /\ N \in Nat /\ Files = 1..N /\ PeerFiles = Files
      /\ cur \in 1..(N + 1) /\ skipped \subseteq Files
  BY StepMovesOn DEF Assumptions, Basics, PeerBasics, RemoteMoveAssumption, MoveTypes
<1> SUFFICES ASSUME up PROVE SharedSafe'
  BY <1>0 DEF MovesOn
<1>1. PeerActs \/ UNCHANGED peerVars
  BY <1>0, OnEither, PeerDoes, PeerTypes DEF PeerBasics, PeerActs
<1>2. Turns /\ Given
  BY DEF Basics
<1>3. ASSUME NEW i \in DOMAIN queue', queue'[i].kind = "delete"
      PROVE  queue'[i].file \in skipped' \/ (queue'[i].file = cur' /\ pc' \in {"abort", "done"})
  <2>1. CASE \E j \in DOMAIN queue : queue'[i] = queue[j]
    BY <1>0, <1>3, <2>1 DEF SharedSafe, MovesOn
  <2>2. CASE \E k, s : Posts(k, s) /\ queue'[i] = Message(k)
    <3>1. PICK k, s : Posts(k, s) /\ queue'[i] = Message(k)
      BY <2>2
    <3>2. k = "delete" /\ queue'[i].file = request.file
      BY <1>3, <3>1 DEF Message
    <3>3. request.kind = "delete" /\ stage # "idle"
      BY <3>1, <3>2 DEF Posts
    <3>4. pc \in {"skip", "abort"} /\ request.file = cur
      BY <1>2, <3>3 DEF Turns, PeerBusy, Given, Upload
    <3> QED
      BY <1>0, <1>2, <3>2, <3>4 DEF Turns, MovesOn
  <2>3. CASE UNCHANGED peerVars
    BY <1>3, <2>1, <2>3 DEF peerVars, wire
  <2> QED
    BY <1>0, <1>1, <2>1, <2>2, <2>3, LettersBefore
<1>4. ASSUME NEW f \in Files, Safe(f), f \notin skipped, f = cur => pc \notin {"abort", "done"}
      PROVE  Safe(f)'
  <2>1. CASE UNCHANGED peerVars
    BY <1>4, <2>1 DEF peerVars, wire, Safe, InFlight
  <2>2. 1 \in DOMAIN queue /\ queue[1].kind = "delete" => queue[1].file # f
    BY <1>4 DEF SharedSafe
  <2> QED
    BY <1>0, <1>1, <1>4, <2>1, <2>2, ActsKeepSafe
<1>5. ASSUME NEW f \in Kept', f < cur' PROVE Safe(f)'
  <2>1. f \in Files /\ f \notin skipped /\ f \in Nat /\ cur \in Nat
    BY <1>0, <1>5 DEF Kept, MovesOn
  <2>2. CASE f < cur
    BY <1>4, <2>1, <2>2 DEF SharedSafe, Kept
  <2>3. CASE ~(f < cur)
    <3>1. f = cur /\ cur' = cur + 1 /\ (pc = "skip" \/ (pc = "write" /\ Says(~up, "ok")))
      BY <1>0, <1>5, <2>1, <2>3 DEF MovesOn
    <3>2. pc = "write" /\ reply = "ok"
      BY <1>2, <2>1, <3>1 DEF Turns, Says, PeerSays
    <3> QED
      BY <1>4, <2>1, <3>1, <3>2 DEF SharedSafe
  <2> QED
    BY <2>2, <2>3
<1>6. ASSUME pc' = "write", reply' = "ok" PROVE Safe(cur)'
  <2>1. cur' = cur
    BY <1>0, <1>6 DEF MovesOn
  <2>2. CASE WriteItem
    <3>1. Request(Upload(cur))
      BY <2>2, WritingIsTurn
    <3>2. stage = "idle" /\ UNCHANGED reply
      BY <3>1 DEF Request
    <3> QED
      BY <1>0, <1>6, <3>2 DEF PeerBasics, Letters
  <2>3. CASE pc = "write"
    <3>1. PICK f \in Files : f = cur /\ f \notin skipped
      BY <1>0, <1>2, <2>3 DEF Turns
    <3>2. CASE reply = "ok"
      <4>1. Safe(f)'
        BY <1>4, <2>3, <3>1, <3>2 DEF SharedSafe
      <4> QED
        BY <2>1, <3>1, <4>1 DEF Safe, InFlight
    <3>3. CASE reply # "ok"
      <4>1. request.kind = "upload" /\ request.file = f
        BY <1>2, <2>3, <3>1 DEF Given, Upload
      <4>2. PeerStep \/ AsksPeer \/ ReadsReply
        <5>1. ~UNCHANGED peerVars
          BY <1>6, <3>3 DEF peerVars, waiting
        <5> QED
          BY <5>1, OnEither
      <4>3. request' = request /\ InFlight(request.file)'
        BY <1>0, <1>6, <3>3, <4>1, <4>2, ReportedAtTheEnd
      <4> QED
        BY <2>1, <3>1, <4>1, <4>3 DEF Safe, InFlight
    <3> QED
      BY <3>2, <3>3
  <2> QED
    BY <1>0, <1>6, <2>2, <2>3 DEF MovesOn
<1> QED
  BY <1>3, <1>5, <1>6 DEF SharedSafe

-------------------------------------------------------------------------------
(* What is still at the peer, on the way down.                               *)

\* Nothing is left beyond f.
Beyond(f) == \A g \in Kept : f < g => shared[g] = "none"

\* The peer's word that the deletion under way is done has come, or comes.
Told ==
    \/ \E i \in DOMAIN mail : mail[i] = "done"
    \/ \E i \in DOMAIN inbox : inbox[i].id = used /\ inbox[i].kind = "done"

SweptSoFar ==
    /\ Beyond(request.file)
    /\ Told => shared[request.file] = "none"
    /\ reply = "ok" => \A f \in Kept : shared[f] = "none"

Deletes(m) == m.kind = "delete" /\ Sweeping /\ m.file \in Kept /\ Beyond(m.file)

SharedLeft ==
    /\ \A f \in Files : shared[f] = "full" \/ (shared[f] = "none" /\ Sweeping /\ f \in Kept)
    /\ \A f, g \in Kept : f < g /\ shared[f] = "none" => shared[g] = "none"
    /\ \A i \in DOMAIN queue : queue[i].kind = "download" \/ Deletes(queue[i])
    /\ pc = "sweep" => SweptSoFar
    /\ result = "ok" => \A f \in Kept : shared[f] = "none"

\* Where the peer is not asked and not answered, all is as it was.
LEMMA SharedStands ==
    ASSUME SharedLeft, UNCHANGED <<queue, shared>>, pc' # "sweep", Sweeping => Sweeping',
           skipped' = skipped \/ ~Sweeping,
           result' = "ok" => \A f \in Kept' : shared[f] = "none"
    PROVE  SharedLeft'
<1>1. CASE skipped' = skipped
  BY <1>1 DEF SharedLeft, Deletes, Beyond, Kept
<1>2. CASE ~Sweeping
  <2>1. \A f \in Files : shared[f] = "full"
    BY <1>2 DEF SharedLeft
  <2>2. \A i \in DOMAIN queue : queue[i].kind = "download"
    BY <1>2 DEF SharedLeft, Deletes
  <2> QED
    BY <2>1, <2>2 DEF SharedLeft, Kept
<1> QED
  BY <1>1, <1>2

\* The peer does what it is asked to, last file first.
LEMMA ArrivingKeepsLeft ==
    ASSUME Assumptions, Basics, InOrder, ~up, SharedLeft, Arrive, UNCHANGED moveVars
    PROVE  SharedLeft'
<1> DEFINE m == queue[1]
<1>0. /\ N \in Nat /\ Files = 1..N /\ PeerFiles = Files /\ Kept \subseteq Files
      /\ shared \in [Files -> {"none", "full"}]
  BY DEF Assumptions, RemoteMoveAssumption, Basics, PeerFields, Kept
<1>1. /\ 1 \in DOMAIN queue /\ Shortens(queue, queue')
      /\ UNCHANGED <<request, stage, reply, used, mail, pc, skipped, result>>
      /\ Kept' = Kept /\ (Sweeping <=> Sweeping')
  BY ArrivalHandles DEF Basics, waiting, moveVars, Kept, Sweeping
<1>2. PICK kinds \in Seq(AnswerKinds) : Handles(m, kinds) /\ Answered(m, kinds)
  BY ArrivalHandles DEF Basics
<1>3. m.kind = "download" \/ Deletes(m)
  BY <1>1 DEF SharedLeft
<1>4. stage # "idle" /\ m.id = used => Belongs(m)
  BY <1>1 DEF InOrder, Fitting
<1> HIDE DEF m
<1>5. \/ UNCHANGED shared /\ \A i \in DOMAIN kinds : kinds[i] # "done"
      \/ Deletes(m) /\ shared' = [shared EXCEPT ![m.file] = "none"]
  BY <1>2, <1>3 DEF Handles, Deletes
<1>6. \A f \in Files : shared[f] = "none" => shared'[f] = "none"
  BY <1>0, <1>5 DEF Deletes
<1>7. \A f \in Files : Beyond(f) => Beyond(f)'
  BY <1>0, <1>1, <1>6 DEF Beyond
<1>8. \A f \in Files : shared'[f] = "full" \/ (shared'[f] = "none" /\ Sweeping' /\ f \in Kept')
  BY <1>0, <1>1, <1>5 DEF SharedLeft, Deletes
<1>9. \A f, g \in Kept' : f < g /\ shared'[f] = "none" => shared'[g] = "none"
  <2> SUFFICES ASSUME NEW f \in Kept, NEW g \in Kept, f < g, shared'[f] = "none" PROVE shared'[g] = "none"
    BY <1>1
  <2>1. CASE shared[f] = "none"
    BY <1>0, <1>6, <2>1 DEF SharedLeft
  <2>2. CASE shared[f] # "none"
    <3>1. Deletes(m) /\ f = m.file
      BY <1>0, <1>5, <2>2
    <3> QED
      BY <1>0, <1>6, <3>1 DEF Deletes, Beyond
  <2> QED
    BY <2>1, <2>2
<1>10. (\A i \in DOMAIN queue : queue[i].kind = "download" \/ Deletes(queue[i]))'
  <2> SUFFICES ASSUME NEW i \in DOMAIN queue', queue'[i].kind # "download"
               PROVE  /\ queue'[i].kind = "delete" /\ Sweeping' /\ queue'[i].file \in Kept'
                      /\ \A g \in Kept' : queue'[i].file < g => shared'[g] = "none"
    BY DEF Deletes, Beyond
  <2>1. i + 1 \in DOMAIN queue /\ queue'[i] = queue[i + 1]
    BY <1>1 DEF Shortens
  <2>2. Deletes(queue[i + 1])
    BY <2>1 DEF SharedLeft
  <2> QED
    BY <1>0, <1>1, <1>6, <2>1, <2>2 DEF Deletes, Beyond
<1>11. pc' = "sweep" => SweptSoFar'
  <2> SUFFICES ASSUME pc = "sweep" PROVE SweptSoFar'
    BY <1>1
  <2>1. /\ Beyond(request.file) /\ (Told => shared[request.file] = "none")
        /\ (reply = "ok" => \A f \in Kept : shared[f] = "none")
    BY DEF SharedLeft, SweptSoFar
  <2>2. stage # "idle" /\ request.file \in Kept /\ request.file \in Files
    BY <1>0 DEF Basics, Turns, PeerBusy, Given
  <2>3. Beyond(request.file)'
    BY <1>0, <1>1, <1>6, <2>1 DEF Beyond
  <2>4. ASSUME NEW i \in DOMAIN inbox', inbox'[i].id = used, inbox'[i].kind = "done", ~Told
        PROVE  shared'[request.file] = "none"
    <3>1. i \notin DOMAIN inbox
      BY <1>2, <2>4 DEF Answered, Told
    <3>2. PICK j \in DOMAIN kinds : i = Len(inbox) + j
      BY <1>2, <3>1 DEF Answered
    <3>3. inbox'[Len(inbox) + j] = Comes(kinds[j], m.id)
      BY <1>2 DEF Answered
    <3>4. Comes(kinds[j], m.id).id = m.id /\ Comes(kinds[j], m.id).kind = kinds[j]
      BY DEF Comes
    <3>5. m.id = used /\ kinds[j] = "done"
      BY <2>4, <3>2, <3>3, <3>4
    <3>6. m.file = request.file
      BY <1>4, <2>2, <3>5 DEF Belongs
    <3> QED
      BY <1>0, <1>5, <2>2, <3>5, <3>6
  <2>5. Told' => shared'[request.file] = "none"
    BY <1>1, <1>6, <2>1, <2>2, <2>4 DEF Told
  <2>6. reply' = "ok" => \A f \in Kept' : shared'[f] = "none"
    BY <1>0, <1>1, <1>6, <2>1
  <2> QED
    BY <1>1, <2>3, <2>5, <2>6 DEF SweptSoFar
<1>12. result' = "ok" => \A f \in Kept' : shared'[f] = "none"
  BY <1>0, <1>1, <1>6 DEF SharedLeft
<1> QED
  BY <1>8, <1>9, <1>10, <1>11, <1>12 DEF SharedLeft

\* Other steps of the peer's side leave the files alone.
LEMMA OnTheWayKeepsLeft ==
    ASSUME Assumptions, Basics, InOrder, ~up, SharedLeft, Deliver \/ LinkBreaks, UNCHANGED moveVars
    PROVE  SharedLeft'
<1>1. /\ UNCHANGED <<request, stage, reply, used, shared, pc, skipped, result>>
      /\ Kept' = Kept /\ (Sweeping <=> Sweeping')
  BY DEF Deliver, LinkBreaks, waiting, moveVars, Kept, Sweeping
<1>2. (queue' = queue \/ queue' = <<>>) /\ (Told' => Told)
  <2>1. CASE Deliver
    <3> DEFINE m == inbox[1]
    <3>1. /\ 1 \in DOMAIN inbox /\ Shortens(inbox, inbox') /\ Puts(m)
          /\ mail' = mail \/ Lengthens(mail, m.kind, mail')
          /\ queue' = queue
      BY <2>1, DeliveringKeepsLetters DEF Basics, Deliver
    <3> HIDE DEF m
    <3>2. mail' = mail \/ (m.id = used /\ Lengthens(mail, m.kind, mail'))
      BY <3>1 DEF Puts, Basics, NoStaleWaiter
    <3> QED
      BY <1>1, <3>1, <3>2 DEF Told, Shortens, Lengthens, m
  <2>2. CASE LinkBreaks
    BY <2>2 DEF LinkBreaks, waiting, Told
  <2> QED
    BY <2>1, <2>2
<1>3. (\A i \in DOMAIN queue : queue[i].kind = "download" \/ Deletes(queue[i]))'
  <2>1. CASE queue' = queue
    BY <1>1, <2>1 DEF SharedLeft, Deletes, Beyond
  <2>2. CASE queue' = <<>>
    BY <2>2
  <2> QED
    BY <1>2, <2>1, <2>2
<1>4. pc' = "sweep" => SweptSoFar'
  BY <1>1, <1>2 DEF SharedLeft, SweptSoFar, Beyond
<1> QED
  BY <1>1, <1>3, <1>4 DEF SharedLeft

\* What is sent to the peer deletes nothing but what is swept.
LEMMA PostingKeepsLeft ==
    ASSUME Assumptions, Basics, ~up, SharedLeft, NEW k, NEW s, Posts(k, s), UNCHANGED moveVars
    PROVE  SharedLeft'
<1>1. /\ UNCHANGED <<request, used, mail, inbox, shared, pc, skipped, result>>
      /\ Kept' = Kept /\ (Sweeping <=> Sweeping') /\ Told' = Told
  BY DEF Posts, moveVars, Kept, Sweeping, Told
<1>2. stage # "idle" /\ pc \in {"read", "sweep"}
  BY DEF Posts, Basics, Turns, PeerBusy
<1>3. /\ pc = "read" => request.kind = "download"
      /\ pc = "sweep" => request.kind = "delete" /\ request.file \in Kept
  BY DEF Basics, Given, Download
<1>4. k = request.kind /\ stage = "send" /\ reply' = reply
  BY <1>2, <1>3 DEF Posts, Basics, Letters
<1>5. (\A i \in DOMAIN queue : queue[i].kind = "download" \/ Deletes(queue[i]))'
  <2> DEFINE m == Message(k)
  <2>1. Lengthens(queue, m, queue') /\ m.kind = k /\ m.file = request.file
    BY PostingKeepsLetters DEF Basics, Assumptions, Message
  <2> HIDE DEF m
  <2>2. m.kind = "download" \/ Deletes(m)
    BY <1>2, <1>3, <1>4, <2>1 DEF Deletes, Sweeping, SharedLeft, SweptSoFar
  <2>3. \A i \in DOMAIN queue' : queue'[i] = m \/ \E j \in DOMAIN queue : queue'[i] = queue[j]
    BY <2>1 DEF Lengthens
  <2> QED
    BY <1>1, <2>2, <2>3 DEF SharedLeft, Deletes, Beyond
<1>6. pc' = "sweep" => SweptSoFar'
  BY <1>1, <1>4 DEF SharedLeft, SweptSoFar, Beyond
<1> QED
  BY <1>1, <1>5, <1>6 DEF SharedLeft

\* The last of a list has been deleted where the list is reported deleted.
LEMMA AnsweringKeepsLeft ==
    ASSUME Assumptions, Basics, ~up, SharedLeft, PeerStep, UNCHANGED <<wire, shared>>, UNCHANGED request,
           UNCHANGED moveVars
    PROVE  SharedLeft'
<1>1. /\ UNCHANGED <<request, queue, inbox, shared, pc, skipped, result>>
      /\ Kept' = Kept /\ (Sweeping <=> Sweeping')
  BY DEF wire, moveVars, Kept, Sweeping
<1>2. (\A i \in DOMAIN queue : queue[i].kind = "download" \/ Deletes(queue[i]))'
  BY <1>1 DEF SharedLeft, Deletes, Beyond
<1>3. ASSUME pc = "sweep" PROVE SweptSoFar'
  <2>1. /\ stage # "idle" /\ request.kind = "delete"
        /\ Lists(request.rest, {f \in Kept : f < request.file}) /\ SweptSoFar
        /\ Kept \in SUBSET Nat /\ request.file \in Kept
    BY <1>3 DEF Basics, Turns, PeerBusy, Given, SharedLeft, Assumptions, RemoteMoveAssumption, Kept
  <2>2. CASE Receive
    <3>1. /\ stage = "await" /\ mail # <<>> /\ Received(Head(mail)) /\ mail \in Seq(AnswerKinds \ {"content"})
      BY <2>2 DEF Receive, Basics, Letters
    <3>2. Head(mail) = mail[1] /\ Shortens(mail, Tail(mail))
      BY <3>1, TailOf
    <3>3. CASE Head(mail) = "done" /\ request.rest # <<>>
      <4>1. NextPath
        BY <2>1, <3>1, <3>3 DEF Received
      <4>2. /\ used' = used + 1 /\ mail' = <<>> /\ reply' = reply
        BY <4>1 DEF NextPath
      <4>3. \A i \in DOMAIN inbox : inbox[i].id <= used /\ inbox[i].id \in Nat /\ used \in Nat
        BY EveryLetter DEF Basics, Letters
      <4>4. ~Told'
        BY <1>1, <4>2, <4>3 DEF Told
      <4> QED
        BY <1>1, <2>1, <4>2, <4>4 DEF SweptSoFar, Beyond
    <3>4. CASE ~(Head(mail) = "done" /\ request.rest # <<>>)
      <4>1. mail' = Tail(mail) /\ used' = used
        BY <2>1, <3>1, <3>4 DEF Received
      <4>2. reply' = "ok" => Head(mail) = "done" /\ request.rest = <<>>
        BY <2>1, <3>1, <3>4 DEF Received, Close
      <4>3. Told' => Told
        BY <1>1, <3>2, <4>1 DEF Told, Shortens
      <4>4. ASSUME reply' = "ok", NEW f \in Kept PROVE shared[f] = "none"
        <5>1. Told
          BY <3>2, <4>2, <4>4 DEF Told, Shortens
        <5>2. ~(f < request.file)
          <6>1. DOMAIN request.rest = {}
            BY <4>2, <4>4
          <6> QED
            BY <2>1, <6>1 DEF Lists
        <5>3. f = request.file \/ request.file < f
          <6>1. f \in Nat /\ request.file \in Nat
            BY <2>1
          <6> QED
            BY <5>2, <6>1
        <5> QED
          BY <2>1, <5>1, <5>3 DEF SweptSoFar, Beyond
      <4> QED
        BY <1>1, <2>1, <4>3, <4>4 DEF SweptSoFar, Beyond
    <3> QED
      BY <3>3, <3>4
  <2>3. CASE ~Receive
    <3>1. UNCHANGED <<used, mail>> /\ reply' \in {reply, "error"}
      <4>1. ~SendEnd
        BY <2>1 DEF SendEnd, Basics, Letters
      <4>2. CASE Send \/ SendChunk \/ TimeOut
        BY <4>2 DEF Send, SendChunk, TimeOut, Close
      <4>3. CASE Arrive \/ LinkBreaks
        BY <4>3 DEF Arrive, LinkBreaks, waiting
      <4>4. CASE Deliver
        <5>1. inbox' = Tail(inbox) /\ inbox # <<>> /\ inbox \in Seq(Answers)
          BY <4>4 DEF Deliver, Basics, Letters
        <5>2. Len(inbox') = Len(inbox) - 1 /\ Len(inbox) \in Nat
          BY <5>1, TailOf
        <5> QED
          BY <1>1, <5>2
      <4> QED
        BY <2>3, <4>1, <4>2, <4>3, <4>4 DEF PeerStep, AskPeer
    <3> QED
      BY <1>1, <2>1, <3>1 DEF SweptSoFar, Beyond, Told
  <2> QED
    BY <2>2, <2>3
<1> QED
  BY <1>1, <1>2, <1>3 DEF SharedLeft

\* The next is asked for once the one before is gone.
LEMMA ContinuingKeepsLeft ==
    ASSUME Assumptions, Basics, ~up, SharedLeft, Continues, UNCHANGED moveVars
    PROVE  SharedLeft'
<1> DEFINE h == Head(request.rest)
           K == {f \in Kept : f < request.file}
<1>1. /\ used' = used + 1 /\ mail' = <<>> /\ UNCHANGED <<reply, queue, inbox, shared>>
      /\ stage = "await" /\ mail # <<>> /\ Head(mail) = "done" /\ request.kind = "delete" /\ request.rest # <<>>
      /\ request' = [request EXCEPT !.file = h, !.rest = Tail(request.rest)]
      /\ UNCHANGED <<pc, skipped, result>> /\ Kept' = Kept /\ (Sweeping <=> Sweeping')
  BY DEF Continues, Renews, wire, moveVars, Kept, Sweeping
<1>2. pc = "sweep" /\ request \in Requests
  BY <1>1 DEF Basics, Turns, PeerBusy, Given, Download, Letters
<1>3. /\ Lists(request.rest, K) /\ Kept \in SUBSET Nat /\ request.file \in Kept
      /\ Beyond(request.file) /\ (Told => shared[request.file] = "none") /\ reply # "ok"
  BY <1>1, <1>2 DEF Basics, Given, Letters, SharedLeft, SweptSoFar, Assumptions, RemoteMoveAssumption, Kept
<1>4. Told
  <2>1. mail \in Seq(AnswerKinds \ {"content"})
    BY DEF Basics, Letters
  <2>2. mail[1] = "done" /\ 1 \in DOMAIN mail
    BY <1>1, <2>1, TailOf DEF Shortens
  <2> QED
    BY <2>2 DEF Told
<1>5. h = request.rest[1] /\ 1 \in DOMAIN request.rest /\ h \in K
  <2>1. request.rest \in Seq(K)
    BY <1>3 DEF Lists
  <2> HIDE DEF K
  <2>2. h = request.rest[1] /\ 1 \in DOMAIN request.rest
    BY <1>1, <2>1, TailOf DEF Shortens
  <2> QED
    BY <2>1, <2>2, ElementOfSeq
<1>6. request'.file = h
  BY <1>1, <1>2 DEF Requests
<1>7. ASSUME NEW g \in Kept, h < g PROVE shared[g] = "none"
  <2>1. ~(g < request.file)
    <3>1. ASSUME g < request.file PROVE FALSE
      <4>1. g \in K /\ K \in SUBSET Nat
        BY <1>3, <3>1
      <4>2. PICK i \in DOMAIN request.rest : i < 1
        <5> HIDE DEF K, h
        <5> QED
          BY <1>3, <1>5, <1>7, <4>1, GreaterBefore
      <4>3. i \in Nat \ {0}
        <5>1. request.rest \in Seq(K)
          BY <1>3 DEF Lists
        <5> QED
          BY <5>1
      <4> QED
        BY <4>2, <4>3
    <3> QED
      BY <3>1
  <2>2. g = request.file \/ request.file < g
    <3>1. g \in Nat /\ request.file \in Nat
      BY <1>3
    <3> QED
      BY <2>1, <3>1
  <2> QED
    BY <1>3, <1>4, <2>2 DEF Beyond
<1>8. ~Told'
  <2>1. \A i \in DOMAIN inbox : inbox[i].id <= used /\ inbox[i].id \in Nat /\ used \in Nat
    BY EveryLetter DEF Basics, Letters
  <2> QED
    BY <1>1, <2>1 DEF Told
<1> HIDE DEF h, K
<1>9. SweptSoFar'
  BY <1>1, <1>3, <1>6, <1>7, <1>8 DEF SweptSoFar, Beyond
<1>10. (\A i \in DOMAIN queue : queue[i].kind = "download" \/ Deletes(queue[i]))'
  BY <1>1 DEF SharedLeft, Deletes, Beyond
<1> QED
  BY <1>1, <1>9, <1>10 DEF SharedLeft

\* On the way down, every step leaves with the peer what is not yet swept.
LEMMA StepKeepsLeft ==
    ASSUME Assumptions, Basics, InOrder, ~up => SharedLeft, [Next]_vars
    PROVE  ~up' => SharedLeft'
<1>0. /\ MovesOn /\ (pc # "done" <=> result = "none") /\ Kept \in SUBSET Nat
  BY StepMovesOn DEF Basics, Turns, Assumptions, RemoteMoveAssumption, Kept
<1> SUFFICES ASSUME ~up PROVE SharedLeft'
  BY <1>0 DEF MovesOn
<1>1. CASE UNCHANGED <<peerVars, pc, skipped, result>>
  BY <1>1 DEF peerVars, waiting, wire, SharedLeft, SweptSoFar, Told, Deletes, Beyond, Sweeping, Kept
<1>2. CASE PeerNext
  <2>1. PeerStep /\ UNCHANGED <<sftpVars, moveVars>>
    BY <1>2 DEF PeerNext
  <2>2. PeerActs
    BY <2>1, PeerDoes, PeerTypes DEF Basics, Assumptions, PeerActs
  <2>3. request' = request \/ Continues
    BY <2>1, PeerStepIsTurn
  <2>4. CASE Arrive
    BY <2>1, <2>4, ArrivingKeepsLeft
  <2>5. CASE Deliver \/ LinkBreaks
    BY <2>1, <2>5, OnTheWayKeepsLeft
  <2>6. CASE \E k, s : Posts(k, s)
    BY <2>1, <2>6, PostingKeepsLeft
  <2>7. CASE Continues
    BY <2>1, <2>7, ContinuingKeepsLeft
  <2>8. CASE request' = request /\ (Quits \/ Reads \/ \E r \in Requests : Renews(r))
    <3>1. UNCHANGED <<wire, shared>>
      BY <2>8 DEF Quits, Reads, Renews
    <3> QED
      BY <2>1, <2>8, <3>1, AnsweringKeepsLeft
  <2> QED
    BY <2>2, <2>3, <2>4, <2>5, <2>6, <2>7, <2>8 DEF PeerActs
<1>3. CASE ReadItem \/ WriteItem \/ NextItem \/ ItemFails \/ GivenUp \/ Cancelled \/ Retry
  <2>1. UNCHANGED <<queue, shared>>
    BY <1>3 DEF ReadItem, WriteItem, NextItem, ItemFails, GivenUp, Cancelled, Retry, Says, SftpSays, PeerSays,
                ReplyTaken, Sftp, Peer, Request, peerVars, wire
  <2>2. /\ pc \notin {"sweep", "done"} /\ pc' # "sweep" /\ result' # "ok" /\ UNCHANGED skipped
    BY <1>0, <1>3 DEF ReadItem, WriteItem, NextItem, ItemFails, GivenUp, Cancelled, Retry, Finish
  <2>3. ~Sweeping
    BY <1>0, <2>2 DEF Sweeping
  <2> QED
    BY <2>1, <2>2, <2>3, SharedStands
<1>4. CASE \E abort \in BOOLEAN : GiveUp(abort)
  <2>1. PICK abort \in BOOLEAN : GiveUp(abort)
    BY <1>4
  <2>2. UNCHANGED <<queue, shared>>
    BY <2>1, GivingUpIsTurn DEF ByMover, peerVars, wire
  <2>3. pc = "ask" /\ pc' # "sweep" /\ UNCHANGED result
    BY <2>1 DEF GiveUp
  <2>4. ~Sweeping
    BY <1>0, <2>3 DEF Sweeping
  <2> QED
    BY <1>0, <2>2, <2>3, <2>4, SharedStands
<1>5. CASE Sweep
  <2>1. pc = "item" /\ UNCHANGED skipped
    BY <1>5, SweepingIsTurn
  <2>2. ~Sweeping
    BY <1>0, <2>1 DEF Sweeping
  <2>3. CASE Kept = {} /\ Finish("ok") /\ UNCHANGED <<sftpVars, peerVars>>
    <3>1. UNCHANGED <<queue, shared>> /\ pc' = "done" /\ Kept' = {}
      BY <2>1, <2>3 DEF Finish, peerVars, wire, Kept
    <3> QED
      BY <2>2, <3>1, SharedStands
  <2>4. ASSUME Swept # <<>>, Lists(Swept, Kept), pc' = "sweep", UNCHANGED result, ByPeer(EraseThere(Swept))
        PROVE  SharedLeft'
    <3> DEFINE s == Swept
    <3>1. s # <<>> /\ Lists(s, Kept) /\ Request(EraseThere(s))
      BY <2>4 DEF ByPeer
    <3> HIDE DEF s
    <3>2. /\ request' = EraseThere(s) /\ UNCHANGED <<queue, inbox, shared, reply>> /\ stage = "idle"
          /\ mail' = <<>> /\ used' = used + 1
      BY <3>1 DEF Request, wire
    <3>3. request'.file = s[1] /\ 1 \in DOMAIN s /\ s[1] \in Kept
      <4>1. s \in Seq(Kept)
        BY <3>1 DEF Lists
      <4>2. Head(s) = s[1] /\ 1 \in DOMAIN s
        BY <3>1, <4>1, TailOf DEF Shortens
      <4> QED
        BY <3>2, <4>1, <4>2, ElementOfSeq DEF EraseThere
    <3>4. \A g \in Kept : ~(s[1] < g)
      <4> SUFFICES ASSUME NEW g \in Kept, s[1] < g PROVE FALSE
        OBVIOUS
      <4>1. PICK i \in DOMAIN s : i < 1
        BY <1>0, <3>1, <3>3, GreaterBefore
      <4>2. s \in Seq(Kept)
        BY <3>1 DEF Lists
      <4> QED
        BY <4>1, <4>2
    <3>5. ~Told'
      <4>1. \A i \in DOMAIN inbox : inbox[i].id <= used /\ inbox[i].id \in Nat /\ used \in Nat
        BY EveryLetter DEF Basics, Letters
      <4> QED
        BY <3>2, <4>1 DEF Told
    <3>6. reply = "none"
      BY <3>2 DEF Basics, Letters
    <3>7. /\ \A f \in Files : shared[f] = "full"
          /\ \A i \in DOMAIN queue : queue[i].kind = "download"
      BY <2>2 DEF SharedLeft, Deletes
    <3>8. Kept' = Kept /\ Kept \subseteq Files /\ result' # "ok" /\ Beyond(request.file)'
      BY <1>0, <2>1, <2>4, <3>3, <3>4 DEF Kept, Beyond
    <3> QED
      BY <3>2, <3>5, <3>6, <3>7, <3>8 DEF SharedLeft, SweptSoFar
  <2> QED
    BY <1>5, <2>3, <2>4, SweepingIsTurn
<1>6. CASE EndSweep
  <2>1. PICK a \in {"ok", "error"} : Says(up, a) /\ Finish(IF a = "ok" THEN "ok" ELSE "failed")
    BY <1>6 DEF EndSweep
  <2>2. reply = a /\ UNCHANGED <<queue, shared>>
    BY <2>1 DEF Says, PeerSays, ReplyTaken, wire
  <2>3. pc = "sweep" /\ pc' = "done" /\ UNCHANGED skipped /\ Kept' = Kept
    BY <1>6, <2>1 DEF EndSweep, Finish, Kept
  <2>4. result' = "ok" => \A f \in Kept' : shared[f] = "none"
    BY <2>1, <2>2, <2>3 DEF Finish, SharedLeft, SweptSoFar
  <2>5. Sweeping'
    BY <2>1 DEF Finish, Sweeping
  <2> QED
    BY <2>2, <2>3, <2>4, <2>5, SharedStands
<1>7. CASE PanelCalls \/ PanelAnswered \/ SftpNext
  <2>1. UNCHANGED <<peerVars, pc, skipped, result>>
    BY <1>7, PanelIsTurn DEF SftpNext, moveVars
  <2> QED
    BY <1>1, <2>1
<1>8. CASE UNCHANGED vars
  BY <1>1, <1>8 DEF vars, moveVars
<1> QED
  BY <1>2, <1>3, <1>4, <1>5, <1>6, <1>7, <1>8 DEF Next, Move, Decide

-------------------------------------------------------------------------------
(* What has come down to the server.                                         *)

StoreSafe ==
    /\ \A f \in Kept : f < cur => store[f] = "full"
    /\ pc = "write" /\ answer[mover] = "ok" => store[cur] = "full"

\* What the mover writes, or deletes when it gives up, is the file it is at.
LEMMA ThreadKeepsSafe ==
    ASSUME Assumptions, Basics, ~up, StoreSafe, NEW u \in Users, Advances(u), UNCHANGED moveVars
    PROVE  StoreSafe'
<1>0. /\ Users = {mover, panel} /\ mover # panel /\ Locks /\ Fields /\ Jobs
      /\ N \in Nat /\ Files = 1..N /\ Kept \subseteq Files /\ store \in [Files -> {"none", "part", "full"}]
  BY DEF Assumptions, RemoteMoveAssumption, Basics, Kept, Fields
<1>1. /\ UNCHANGED job
      /\ step[u] \notin {"idle", "returned"} /\ step'[u] \in Steps \ {"idle"}
      /\ \A v \in Users \ {u} : step'[v] = step[v] /\ next'[v] = next[v] /\ answer'[v] = answer[v]
      /\ AdvancesTo(u, step'[u], next'[u], answer'[u])
  BY <1>0, OnlyOne
<1>2. UNCHANGED <<up, pc, cur, skipped>> /\ Kept' = Kept /\ cur \in Nat
  BY DEF moveVars, Kept, Basics, MoveTypes
<1>3. ASSUME u = panel PROVE StoreSafe'
  <2>1. job[u].kind = "list" /\ UNCHANGED store /\ answer'[mover] = answer[mover]
    BY <1>0, <1>1, <1>3 DEF Basics, Turns, AdvancesTo, DeletesOne, WritesSome
  <2> QED
    BY <1>2, <2>1 DEF StoreSafe
<1>4. ASSUME u = mover PROVE StoreSafe'
  <2>1. pc \in {"write", "skip", "abort"} /\ cur \in Files
    BY <1>1, <1>4 DEF Basics, Turns, MoverBusy
  <2>2. UNCHANGED store \/ \E c : store' = [store EXCEPT ![cur] = c]
    <3>1. CASE pc = "write"
      <4>1. job[mover].kind = "write" /\ job[mover].file = cur
        BY <3>1 DEF Basics, Given
      <4> QED
        BY <1>1, <1>4, <4>1 DEF AdvancesTo, DeletesOne, WritesSome
    <3>2. CASE pc \in {"skip", "abort"}
      <4>1. job[mover].kind = "delete" /\ job[mover].paths = <<cur>>
        BY <3>2 DEF Basics, Given
      <4>2. next[mover] \in 1..Len(job[mover].paths) /\ Len(<<cur>>) = 1 /\ <<cur>>[1] = cur
        BY <1>0, <4>1 DEF Jobs, JobOf
      <4>3. job[mover].paths[next[mover]] = cur
        BY <4>1, <4>2
      <4> QED
        BY <1>1, <1>4, <4>1, <4>3 DEF AdvancesTo, DeletesOne, WritesSome
    <3> QED
      BY <2>1, <3>1, <3>2
  <2>3. \A f \in Kept : f < cur => store'[f] = store[f]
    BY <1>0, <1>2, <2>2
  <2>4. ASSUME pc = "write", answer'[mover] = "ok" PROVE store'[cur] = "full"
    <3>1. job[mover].kind = "write" /\ job[mover].file = cur
      BY <2>4 DEF Basics, Given
    <3>2. store' = [store EXCEPT ![cur] = "full"]
      BY <1>1, <1>4, <2>4, <3>1 DEF AdvancesTo, DeletesOne, WritesSome
    <3> QED
      BY <1>0, <2>1, <3>2
  <2> QED
    BY <1>2, <2>3, <2>4 DEF StoreSafe
<1> QED
  BY <1>0, <1>3, <1>4

\* On the way down, every step leaves at the server what was reported.
LEMMA StepKeepsSafe ==
    ASSUME Assumptions, Basics, ~up => StoreSafe, [Next]_vars
    PROVE  ~up' => StoreSafe'
<1>0. /\ MovesOn /\ Turns /\ Locks /\ Fields /\ Jobs /\ SftpAssumption
      /\ mover # panel /\ panel \in Users /\ mover \in Users
      /\ N \in Nat /\ Files = 1..N /\ cur \in Nat
  BY StepMovesOn DEF Assumptions, RemoteMoveAssumption, Basics, MoveTypes
<1> SUFFICES ASSUME ~up PROVE StoreSafe'
  BY <1>0 DEF MovesOn
<1>1. CASE SftpNext
  <2>1. SftpStep /\ UNCHANGED moveVars
    BY <1>1 DEF SftpNext
  <2>2. CASE \E u \in Users : Advances(u)
    BY <2>1, <2>2, ThreadKeepsSafe
  <2>3. CASE UNCHANGED opVars
    BY <2>1, <2>3 DEF opVars, moveVars, StoreSafe, Kept
  <2> QED
    BY <1>0, <2>1, <2>2, <2>3, StepAdvances
<1>2. CASE PanelCalls \/ PanelAnswered
  <2>1. UNCHANGED <<store, pc, cur, skipped>> /\ answer'[mover] = answer[mover]
    BY <1>0, <1>2, PanelIsTurn DEF Started, Rested, OthersStay
  <2> QED
    BY <2>1 DEF StoreSafe, Kept
<1>3. CASE Move \/ Decide \/ Cancelled
  <2>1. UNCHANGED store
    BY <1>3 DEF Move, Decide, ReadItem, WriteItem, NextItem, ItemFails, GivenUp, Cancelled, Retry, GiveUp,
                Sweep, EndSweep, Says, SftpSays, PeerSays, Taken, Deletion, Sftp, Peer, Call, sftpVars
  <2>2. ASSUME NEW f \in Kept', f < cur' PROVE store[f] = "full"
    <3>1. f \in Kept /\ f \in Nat
      BY <1>0, <2>2 DEF MovesOn, Kept
    <3>2. CASE f < cur
      BY <3>1, <3>2 DEF StoreSafe
    <3>3. CASE ~(f < cur)
      <4>1. f = cur /\ cur' = cur + 1 /\ (pc = "skip" \/ (pc = "write" /\ Says(~up, "ok")))
        BY <1>0, <2>2, <3>1, <3>3 DEF MovesOn
      <4>2. pc = "write" /\ answer[mover] = "ok"
        BY <1>0, <3>1, <4>1 DEF Turns, Kept, Says, SftpSays
      <4> QED
        BY <4>1, <4>2 DEF StoreSafe
    <3> QED
      BY <3>2, <3>3
  <2>3. ASSUME pc' = "write" PROVE answer'[mover] = "none"
    <3>1. WriteItem
      BY <1>3, <2>3 DEF Move, Decide, ReadItem, NextItem, ItemFails, GivenUp, Cancelled, Retry, GiveUp, Sweep,
                        EndSweep, Finish
    <3>2. Started(mover, [kind |-> "write", file |-> cur])
      BY <3>1, WritingIsTurn
    <3> QED
      BY <1>0, <3>2 DEF Started, Jobs, JobOf
  <2> QED
    BY <2>1, <2>2, <2>3 DEF StoreSafe
<1>4. CASE PeerNext \/ UNCHANGED vars
  BY <1>4 DEF PeerNext, vars, sftpVars, thread, moveVars, StoreSafe, Kept
<1> QED
  BY <1>1, <1>2, <1>3, <1>4 DEF Next

-------------------------------------------------------------------------------
(* No content is lost, and what is reported is so.                           *)

Contents ==
    /\ up => StoreLeft /\ SharedSafe
    /\ ~up => SharedLeft /\ StoreSafe

\* Both sides hold what they should in every behaviour.
LEMMA ContentsKept == Spec => []Contents
<1>1. Init => Contents
  <2> SUFFICES ASSUME Init PROVE Contents
    OBVIOUS
  <2>0. N \in Nat /\ Files = 1..N
    BY Assumed DEF Assumptions, RemoteMoveAssumption
  <2>1. /\ DOMAIN queue = {} /\ pc = "item" /\ result = "none" /\ cur = 1 /\ Kept = Files
        /\ \A f \in Kept : ~(f < cur)
    BY <2>0 DEF Init, PeerInit, Kept
  <2>2. /\ up => \A f \in Files : store[f] = "full"
        /\ ~up => \A f \in Files : shared[f] = "full"
    BY DEF Init
  <2> QED
    BY <2>1, <2>2 DEF Contents, StoreLeft, SharedSafe, SharedLeft, StoreSafe
<1>2. Basics /\ (InOrder /\ Uploading) /\ Contents /\ [Next]_vars => Contents'
  BY Assumed, StepKeepsStore, StepKeepsShared, StepKeepsLeft, StepKeepsSafe DEF Contents
<1> QED
  BY <1>1, <1>2, BasicsKept, OrderKept, PTL DEF Spec

\* What the sides hold tells that content is kept, in order, and truly reported.
LEMMA ContentsTell ==
    ASSUME Assumptions, Basics, Contents
    PROVE  ContentKept /\ StopsAtFirst /\ SuccessMoved
<1>0. /\ Turns /\ up \in BOOLEAN /\ N \in Nat /\ Files = 1..N /\ PeerFiles = Files
      /\ store \in [Files -> {"none", "part", "full"}] /\ shared \in [Files -> {"none", "full"}]
  BY DEF Assumptions, RemoteMoveAssumption, Basics, MoveTypes, Fields, PeerFields
<1>1. Sweeping => \A f \in Kept : f < cur
  <2> SUFFICES ASSUME Sweeping, NEW f \in Kept PROVE f < cur
    OBVIOUS
  <2>1. cur = N + 1 /\ f \in 1..N
    BY <1>0 DEF Turns, Sweeping, Kept
  <2> QED
    BY <1>0, <2>1
<1>2. \A f \in Files : Source(f) = "full" \/ (Source(f) = "none" /\ Sweeping /\ f \in Kept)
  BY <1>0 DEF Contents, StoreLeft, SharedLeft, Source, Holds
<1>3. ContentKept
  <2> SUFFICES ASSUME NEW f \in Files, Source(f) # "full"
               PROVE  \/ Dest(f) = "full"
                      \/ up /\ (InFlight(f) \/ (f \in lost /\ broken) \/ f \in unstored)
    BY DEF ContentKept
  <2>1. f \in Kept /\ f < cur
    BY <1>1, <1>2
  <2> QED
    BY <1>0, <2>1 DEF Contents, SharedSafe, StoreSafe, Safe, Dest, Holds
<1>4. StopsAtFirst
  BY <1>0 DEF Contents, StoreLeft, SharedLeft, StopsAtFirst, Source, Holds, Kept
<1>5. SuccessMoved
  <2>1. result = "ok" => \A f \in Kept : Source(f) = "none"
    BY <1>0 DEF Contents, StoreLeft, SharedLeft, Source, Holds
  <2> QED
    BY <1>2, <2>1 DEF SuccessMoved, Kept
<1> QED
  BY <1>3, <1>4, <1>5

\* A file leaves its source only when the other side holds it whole, has its
\* end on the way, or lost it after it was reported: with the link, or because
\* the peer could not store it.
THEOREM NoContentLost == Spec => []ContentKept
<1>1. Basics /\ Contents => ContentKept
  BY ContentsTell, Assumed
<1> QED
  BY <1>1, BasicsKept, ContentsKept, PTL

\* What is gone from the source is the beginning of the list swept, also
\* after a second attempt and in the face of a late deletion.
THEOREM SweepStopsAtFirst == Spec => []StopsAtFirst
<1>1. Basics /\ Contents => StopsAtFirst
  BY ContentsTell, Assumed
<1> QED
  BY <1>1, BasicsKept, ContentsKept, PTL

\* Success says that the source holds what was skipped and nothing else.
THEOREM SuccessIsMoved == Spec => []SuccessMoved
<1>1. Basics /\ Contents => SuccessMoved
  BY ContentsTell, Assumed
<1> QED
  BY <1>1, BasicsKept, ContentsKept, PTL

-------------------------------------------------------------------------------
(* Whose the session is, and what is behind an error.                        *)

\* The session's mutex is held for a whole attempt, by who writes also while
\* it looks for a tunnel.
HoldsSession(u) ==
    \/ step[u] \in {"handshake", "run", "fill"} /\ Shared(u)
    \/ step[u] \in {"resolve", "peek", "clear", "build"} /\ job[u].kind = "write"

Exclusive ==
    \A u \in Users :
        /\ HoldsSession(u) => sessionLock = u
        /\ step[u] \in {"run", "fill"} /\ Shared(u) => session # 0

\* Nothing goes through a tunnel that was not built.
Reached == session <= built /\ tunnel <= built /\ \A u \in Users : port[u] <= built

\* A fault that is not the end of a session.
Outage == faults > cuts

\* Links die and sessions end only by a fault.
Caused ==
    /\ closed => cuts > 0
    /\ \A t \in 1..built : link[t] \/ Outage
    /\ \A u \in Users : forwarder[u] \in {"clearing", "failed"} => Outage

\* A listing that failed once met an outage or a closed session; where it
\* fails again, or its session is closed again, there was a second one.
ListingOf(u) ==
    job[u].kind = "list" =>
        /\ attempts[u] = 1 => Outage \/ cuts > 0
        /\ attempts[u] = 1 /\ closed => Outage \/ cuts > 1
        /\ answer[u] = "error" => Outage \/ cuts > 1

Causes == Exclusive /\ Reached /\ Caused /\ \A u \in Users : ListingOf(u)

\* No step of the SFTP file system fails without a cause.
LEMMA StepKeepsCauses ==
    ASSUME Locks, Fields, Jobs, SftpAssumption, Causes, SftpStep
    PROVE  Causes'
<1>0. MaxTunnels \in Nat /\ MaxFaults \in Nat /\ nobody \notin Users
  BY DEF SftpAssumption
<1>1. ASSUME NEW u \in Users, LookForTunnel(u) PROVE Causes'
  <2>1. Exclusive'
    BY <1>0, <1>1 DEF LookForTunnel, Goto, Locks, Shapes, Causes, Exclusive, HoldsSession, Shared
  <2>2. Reached'
    BY <1>0, <1>1 DEF LookForTunnel, Goto, tunnels, Causes, Reached
  <2>3. Caused'
    BY <1>0, <1>1 DEF LookForTunnel, Goto, tunnels, Causes, Caused, Outage
  <2>4. \A v \in Users : ListingOf(v)'
    BY <1>0, <1>1 DEF LookForTunnel, Goto, Causes, ListingOf, Outage
  <2> QED
    BY <2>1, <2>2, <2>3, <2>4 DEF Causes
<1>2. ASSUME NEW u \in Users, ClearTunnel(u) PROVE Causes'
  <2>1. Exclusive'
    BY <1>0, <1>2 DEF ClearTunnel, Goto, mutexes, Causes, Exclusive, HoldsSession, Shared
  <2>2. Reached'
    BY <1>0, <1>2 DEF ClearTunnel, Goto, Locks, Shapes, Causes, Reached
  <2>3. Caused'
    BY <1>0, <1>2 DEF ClearTunnel, Goto, Causes, Caused, Outage
  <2>4. \A v \in Users : ListingOf(v)'
    BY <1>0, <1>2 DEF ClearTunnel, Goto, Causes, ListingOf, Outage
  <2> QED
    BY <2>1, <2>2, <2>3, <2>4 DEF Causes
<1>3. ASSUME NEW u \in Users, AskTunnel(u) PROVE Causes'
  <2>1. Exclusive'
    BY <1>0, <1>3 DEF AskTunnel, AfterPort, Dial, Goto, Locks, Shapes, Causes, Exclusive, HoldsSession,
                      Shared
  <2>2. Reached'
    BY <1>0, <1>3 DEF AskTunnel, AfterPort, Dial, Goto, tunnels, Locks, Shapes, Causes, Reached
  <2>3. Caused'
    BY <1>0, <1>3 DEF AskTunnel, AfterPort, Dial, Goto, tunnels, Fields, Causes, Caused, Outage
  <2>4. \A v \in Users : ListingOf(v)'
    BY <1>0, <1>3 DEF AskTunnel, AfterPort, Dial, Goto, Causes, ListingOf, Outage
  <2> QED
    BY <2>1, <2>2, <2>3, <2>4 DEF Causes
<1>4. ASSUME NEW u \in Users, BuildTunnel(u) PROVE Causes'
  <2>1. Exclusive'
    BY <1>0, <1>4 DEF BuildTunnel, AfterPort, Dial, Goto, mutexes, Locks, Shapes, Causes, Exclusive,
                      HoldsSession, Shared
  <2>2. Reached'
    BY <1>0, <1>4 DEF BuildTunnel, AfterPort, Dial, Goto, Locks, Shapes, Fields, Causes, Reached
  <2>3. Caused'
    BY <1>0, <1>4 DEF BuildTunnel, AfterPort, Dial, Goto, Locks, Shapes, Fields, Causes, Caused, Outage
  <2>4. \A v \in Users : ListingOf(v)'
    BY <1>0, <1>4 DEF BuildTunnel, AfterPort, Dial, Goto, Causes, ListingOf, Outage
  <2> QED
    BY <2>1, <2>2, <2>3, <2>4 DEF Causes
<1>5. ASSUME NEW u \in Users, BuildFails(u) PROVE Causes'
  <2>1. Exclusive'
    BY <1>0, <1>5 DEF BuildFails, Return, Goto, Locks, Shapes, Causes, Exclusive, HoldsSession, Shared
  <2>2. Reached'
    BY <1>0, <1>5 DEF BuildFails, Return, Goto, tunnels, Causes, Reached
  <2>3. Caused'
    BY <1>0, <1>5 DEF BuildFails, Fault, Return, Goto, Fields, Causes, Caused, Outage
  <2>4. \A v \in Users : ListingOf(v)'
    BY <1>0, <1>5 DEF BuildFails, Fault, Return, Goto, Fields, Causes, ListingOf, Outage
  <2> QED
    BY <2>1, <2>2, <2>3, <2>4 DEF Causes
<1>6. ASSUME NEW u \in Users, TakeSsh(u) PROVE Causes'
  <2>1. Exclusive'
    BY <1>0, <1>6 DEF TakeSsh, tunnels, thread, Causes, Exclusive, HoldsSession, Shared
  <2>2. Reached'
    BY <1>0, <1>6 DEF TakeSsh, tunnels, thread, Causes, Reached
  <2>3. Caused'
    BY <1>0, <1>6 DEF TakeSsh, tunnels, thread, Causes, Caused, Outage
  <2>4. \A v \in Users : ListingOf(v)'
    BY <1>0, <1>6 DEF TakeSsh, tunnels, thread, Causes, ListingOf, Outage
  <2> QED
    BY <2>1, <2>2, <2>3, <2>4 DEF Causes
<1>7. ASSUME NEW u \in Users, OpenChannel(u) PROVE Causes'
  <2>1. Exclusive'
    BY <1>0, <1>7 DEF OpenChannel, tunnels, thread, Causes, Exclusive, HoldsSession, Shared
  <2>2. Reached'
    BY <1>0, <1>7 DEF OpenChannel, tunnels, thread, Causes, Reached
  <2>3. Caused'
    <3>1. port[u] \in 1..built
      BY <1>7 DEF OpenChannel, Locks, Shapes, Dialled, Causes, Reached
    <3> QED
      BY <1>0, <1>7, <3>1 DEF OpenChannel, tunnels, thread, Causes, Caused, Outage
  <2>4. \A v \in Users : ListingOf(v)'
    BY <1>0, <1>7 DEF OpenChannel, tunnels, thread, Causes, ListingOf, Outage
  <2> QED
    BY <2>1, <2>2, <2>3, <2>4 DEF Causes
<1>8. ASSUME NEW u \in Users, ClearSlot(u) PROVE Causes'
  <2>1. Exclusive'
    BY <1>0, <1>8 DEF ClearSlot, thread, Causes, Exclusive, HoldsSession, Shared
  <2>2. Reached'
    BY <1>0, <1>8 DEF ClearSlot, thread, Locks, Shapes, Causes, Reached
  <2>3. Caused'
    BY <1>0, <1>8 DEF ClearSlot, Causes, Caused, Outage
  <2>4. \A v \in Users : ListingOf(v)'
    BY <1>0, <1>8 DEF ClearSlot, thread, Causes, ListingOf, Outage
  <2> QED
    BY <2>1, <2>2, <2>3, <2>4 DEF Causes
<1>9. ASSUME NEW u \in Users, Enter(u) PROVE Causes'
  <2>1. Exclusive'
    <3>1. \A v \in Users \ {u} : ~HoldsSession(v)
      BY <1>0, <1>9 DEF Enter, Causes, Exclusive
    <3>2. \A v \in Users \ {u} : step'[v] = step[v] /\ job'[v] = job[v]
      BY <1>9 DEF Enter, Reconnect, Dial, Goto, Locks, Shapes
    <3>3. sessionLock' = u /\ (step'[u] = "run" => session' # 0) /\ step'[u] # "fill"
      BY <1>9 DEF Enter, SessionLive, Live, Reconnect, Dial, Goto, Locks, Shapes
    <3> QED
      BY <3>1, <3>2, <3>3 DEF Exclusive, HoldsSession, Shared
  <2>2. Reached'
    BY <1>0, <1>9 DEF Enter, SessionLive, Reconnect, Dial, Goto, tunnels, Locks, Shapes, Causes, Reached
  <2>3. Caused'
    BY <1>0, <1>9 DEF Enter, SessionLive, Reconnect, Dial, Goto, tunnels, Fields, Causes, Caused, Outage
  <2>4. \A v \in Users : ListingOf(v)'
    BY <1>0, <1>9 DEF Enter, SessionLive, Reconnect, Dial, Goto, Causes, ListingOf, Outage
  <2> QED
    BY <2>1, <2>2, <2>3, <2>4 DEF Causes
<1>10. ASSUME NEW u \in Users, Connected(u) PROVE Causes'
  <2>1. Exclusive'
    <3>1. \A v \in Users \ {u} : step'[v] = step[v]
      BY <1>10 DEF Connected, Goto
    <3>2. step[u] = "handshake" /\ step'[u] = "run" /\ port[u] # 0 /\ UNCHANGED <<sessionLock, job>>
      BY <1>10 DEF Connected, Goto, mutexes, Locks, Shapes, Dialled
    <3>3. session' = session \/ session' = port[u]
      BY <1>10 DEF Connected
    <3>4. Shared(u) => session' = port[u]
      BY <1>10 DEF Connected
    <3> QED
      BY <3>1, <3>2, <3>3, <3>4 DEF Causes, Exclusive, HoldsSession, Shared
  <2>2. Reached'
    BY <1>0, <1>10 DEF Connected, Goto, mutexes, tunnels, Causes, Reached
  <2>3. Caused'
    BY <1>0, <1>10 DEF Connected, Goto, mutexes, tunnels, Causes, Caused, Outage
  <2>4. \A v \in Users : ListingOf(v)'
    BY <1>0, <1>10 DEF Connected, Goto, Causes, ListingOf, Outage
  <2> QED
    BY <2>1, <2>2, <2>3, <2>4 DEF Causes
<1>11. ASSUME NEW u \in Users, NotConnected(u) PROVE Causes'
  <2>1. Exclusive'
    BY <1>0, <1>11 DEF NotConnected, Return, Goto, Locks, Shapes, Causes, Exclusive, HoldsSession,
                       Shared
  <2>2. Reached'
    BY <1>0, <1>11 DEF NotConnected, Return, Goto, tunnels, Causes, Reached
  <2>3. Caused'
    BY <1>0, <1>11 DEF NotConnected, Return, Goto, tunnels, Causes, Caused, Outage
  <2>4. \A v \in Users : ListingOf(v)'
    <3>1. Outage
      <4>1. port[u] \in 1..built
        BY <1>11 DEF NotConnected, Locks, Shapes, Dialled, Causes, Reached
      <4> QED
        BY <1>11, <4>1 DEF NotConnected, Causes, Caused
    <3> QED
      BY <1>11, <3>1 DEF NotConnected, ListingOf, Outage
  <2> QED
    BY <2>1, <2>2, <2>3, <2>4 DEF Causes
<1>12. ASSUME NEW u \in Users, AttemptFails(u) PROVE Causes'
  <2>1. Exclusive'
    BY <1>0, <1>12 DEF AttemptFails, Again, Return, Goto, Others, Locks, Shapes, Causes, Exclusive,
                       HoldsSession, Shared
  <2>2. Reached'
    BY <1>0, <1>12 DEF AttemptFails, Again, Return, Goto, Others, tunnels, Locks, Shapes, Causes,
                       Reached
  <2>3. Caused'
    BY <1>0, <1>12 DEF AttemptFails, Fault, Again, Return, Goto, Others, tunnels, Fields, Causes,
                       Caused, Outage
  <2>4. \A v \in Users : ListingOf(v)'
    <3>1. Outage' \/ (closed /\ cuts > 0 /\ UNCHANGED <<faults, cuts>>)
      <4>1. CASE SessionLive
        BY <1>0, <1>12, <4>1 DEF AttemptFails, Fault, Others, Fields, Outage
      <4>2. CASE ~SessionLive
        <5>1. session \in 1..built
          BY <1>12 DEF AttemptFails, Causes, Exclusive, Reached, Fields
        <5> QED
          BY <1>12, <4>2, <5>1 DEF AttemptFails, Others, SessionLive, Live, Causes, Caused, Outage
      <4> QED
        BY <4>1, <4>2
    <3>2. CASE Outage'
      BY <3>2 DEF ListingOf, Outage
    <3>3. CASE closed /\ cuts > 0 /\ UNCHANGED <<faults, cuts>>
      <4>1. ASSUME NEW v \in Users \ {u} PROVE ListingOf(v)'
        BY <1>12, <3>3 DEF AttemptFails, Again, Return, Others, Fields, Causes, ListingOf, Outage
      <4>2. ListingOf(u)'
        <5>1. attempts[u] = 0 => attempts'[u] = 1 /\ ~closed' /\ answer'[u] = answer[u]
          BY <1>12 DEF AttemptFails, Again, Fields
        <5>2. attempts[u] # 0 => attempts[u] = 1 /\ UNCHANGED attempts
          BY <1>12 DEF AttemptFails, Again, Fields
        <5> QED
          BY <1>12, <3>3, <5>1, <5>2 DEF AttemptFails, Others, Causes, ListingOf, Outage
      <4> QED
        BY <4>1, <4>2
    <3> QED
      BY <3>1, <3>2, <3>3
  <2> QED
    BY <2>1, <2>2, <2>3, <2>4 DEF Causes
<1>13. ASSUME NEW u \in Users, AnswerLost(u) PROVE Causes'
  <2>1. Exclusive'
    BY <1>0, <1>13 DEF AnswerLost, mutexes, tunnels, thread, Causes, Exclusive, HoldsSession, Shared
  <2>2. Reached'
    BY <1>0, <1>13 DEF AnswerLost, mutexes, tunnels, thread, Causes, Reached
  <2>3. Caused'
    BY <1>0, <1>13 DEF AnswerLost, Fault, mutexes, tunnels, thread, Fields, Causes, Caused, Outage
  <2>4. \A v \in Users : ListingOf(v)'
    BY <1>0, <1>13 DEF AnswerLost, Fault, mutexes, tunnels, thread, Fields, Causes, ListingOf, Outage
  <2> QED
    BY <2>1, <2>2, <2>3, <2>4 DEF Causes
<1>14. ASSUME NEW u \in Users, List(u) PROVE Causes'
  <2>1. Exclusive'
    BY <1>0, <1>14 DEF List, Ended, Return, Goto, Others, Locks, Shapes, Causes, Exclusive,
                       HoldsSession, Shared
  <2>2. Reached'
    BY <1>0, <1>14 DEF List, Ended, Return, Goto, Others, tunnels, Causes, Reached
  <2>3. Caused'
    BY <1>0, <1>14 DEF List, Ended, Return, Goto, Others, tunnels, Causes, Caused, Outage
  <2>4. \A v \in Users : ListingOf(v)'
    BY <1>0, <1>14 DEF List, Ended, Return, Goto, Others, Causes, ListingOf, Outage
  <2> QED
    BY <2>1, <2>2, <2>3, <2>4 DEF Causes
<1>15. ASSUME NEW u \in Users, Delete(u) PROVE Causes'
  <2>1. Exclusive'
    <3>1. sessionLock = u /\ step[u] = "run" /\ UNCHANGED job
      BY <1>15 DEF Delete, Running, Others, Causes, Exclusive, HoldsSession, Shared
    <3>2. \A v \in Users \ {u} : ~HoldsSession(v)
      BY <3>1 DEF Causes, Exclusive
    <3>3. \A v \in Users \ {u} : step'[v] = step[v]
      BY <1>15 DEF Delete, Again, Ended, Return, Goto, Locks, Shapes
    <3>4. \/ step'[u] \in {"enter", "returned"}
          \/ step'[u] = "run" /\ UNCHANGED <<sessionLock, session>>
      BY <1>15, <3>1 DEF Delete, Again, Ended, Return, Goto, Locks, Shapes
    <3> QED
      BY <3>1, <3>2, <3>3, <3>4 DEF Causes, Exclusive, HoldsSession, Shared
  <2>2. Reached'
    BY <1>0, <1>15 DEF Delete, Again, Ended, Return, Goto, Others, tunnels, Locks, Shapes, Causes,
                       Reached
  <2>3. Caused'
    BY <1>0, <1>15 DEF Delete, Again, Ended, Return, Goto, Others, tunnels, Causes, Caused, Outage
  <2>4. \A v \in Users : ListingOf(v)'
    BY <1>0, <1>15 DEF Delete, Running, Again, Ended, Return, Goto, Others, Fields, Causes, ListingOf,
                       Outage
  <2> QED
    BY <2>1, <2>2, <2>3, <2>4 DEF Causes
<1>16. ASSUME NEW u \in Users, Create(u) PROVE Causes'
  <2>1. Exclusive'
    BY <1>0, <1>16 DEF Create, Running, Goto, Others, Causes, Exclusive, HoldsSession, Shared
  <2>2. Reached'
    BY <1>0, <1>16 DEF Create, Goto, Others, tunnels, Causes, Reached
  <2>3. Caused'
    BY <1>0, <1>16 DEF Create, Goto, Others, tunnels, Causes, Caused, Outage
  <2>4. \A v \in Users : ListingOf(v)'
    BY <1>0, <1>16 DEF Create, Goto, Others, Causes, ListingOf, Outage
  <2> QED
    BY <2>1, <2>2, <2>3, <2>4 DEF Causes
<1>17. ASSUME NEW u \in Users, Fill(u) PROVE Causes'
  <2>1. Exclusive'
    BY <1>0, <1>17 DEF Fill, Ended, Return, Goto, Others, Locks, Shapes, Causes, Exclusive,
                       HoldsSession, Shared
  <2>2. Reached'
    BY <1>0, <1>17 DEF Fill, Ended, Return, Goto, Others, tunnels, Causes, Reached
  <2>3. Caused'
    BY <1>0, <1>17 DEF Fill, Ended, Return, Goto, Others, tunnels, Causes, Caused, Outage
  <2>4. \A v \in Users : ListingOf(v)'
    <3>1. job[u].kind # "list" /\ UNCHANGED job
      BY <1>17 DEF Fill, Others, Jobs, JobOf
    <3> QED
      BY <1>17, <3>1 DEF Fill, Ended, Return, Others, Fields, Causes, ListingOf, Outage
  <2> QED
    BY <2>1, <2>2, <2>3, <2>4 DEF Causes
<1>18. ASSUME NEW u \in Users, Read(u) PROVE Causes'
  <2>1. Exclusive'
    BY <1>0, <1>18 DEF Read, Return, Goto, Others, Locks, Shapes, Causes, Exclusive, HoldsSession,
                       Shared
  <2>2. Reached'
    BY <1>0, <1>18 DEF Read, Return, Goto, Others, tunnels, Causes, Reached
  <2>3. Caused'
    BY <1>0, <1>18 DEF Read, Running, Fault, Return, Goto, Others, tunnels, Fields, Causes, Caused,
                       Outage
  <2>4. \A v \in Users : ListingOf(v)'
    BY <1>0, <1>18 DEF Read, Running, Fault, Return, Goto, Others, Fields, Causes, ListingOf, Outage
  <2> QED
    BY <2>1, <2>2, <2>3, <2>4 DEF Causes
<1>19. ASSUME LinkDies PROVE Causes'
  BY <1>0, <1>19 DEF LinkDies, Fault, mutexes, thread, Fields, Causes, Exclusive, HoldsSession, Shared,
                     Reached, Caused, ListingOf, Outage
<1>20. ASSUME SessionCloses PROVE Causes'
  BY <1>0, <1>20 DEF SessionCloses, Fault, mutexes, tunnels, thread, Fields, Causes, Exclusive,
                     HoldsSession, Shared, Reached, Caused, ListingOf, Outage
<1> QED
  BY <1>1, <1>2, <1>3, <1>4, <1>5, <1>6, <1>7, <1>8, <1>9, <1>10, <1>11, <1>12, <1>13, <1>14, <1>15,
     <1>16, <1>17, <1>18, <1>19, <1>20 DEF SftpStep, Operate, Forward

\* A call starts without a failure, and its end leaves none.
LEMMA CallersKeepCauses ==
    ASSUME Locks, Fields, Jobs, SftpAssumption, Causes, NEW u \in Users, Begins(u) \/ Takes(u)
    PROVE  Causes'
<1>1. \A v \in Users \ {u} :
         /\ job'[v] = job[v] /\ step'[v] = step[v] /\ attempts'[v] = attempts[v]
         /\ port'[v] = port[v] /\ answer'[v] = answer[v]
  BY DEF Begins, Call, Takes, Taken, Goto, Locks, Shapes, Fields
<1>2. UNCHANGED <<session, closed, sessionLock, tunnels, forwarder, cuts, faults>>
  BY DEF Begins, Call, Takes, Taken, mutexes
<1>3. /\ port'[u] \in {0, port[u]}
      /\ answer'[u] = "none"
      /\ attempts'[u] = 0
      /\ step'[u] \in {"idle", "enter", "resolve"}
      /\ step'[u] = "resolve" => job'[u].kind # "write"
  BY DEF Begins, Call, Takes, Taken, Goto, Locks, Shapes, Fields, Jobs, JobOf
<1>4. Exclusive'
  BY <1>1, <1>2, <1>3 DEF Causes, Exclusive, HoldsSession, Shared
<1>5. Reached'
  BY <1>1, <1>2, <1>3 DEF tunnels, Locks, Shapes, Causes, Reached
<1>6. Caused'
  BY <1>2 DEF tunnels, Causes, Caused, Outage
<1>7. \A v \in Users : ListingOf(v)'
  BY <1>1, <1>2, <1>3 DEF Causes, ListingOf, Outage
<1> QED
  BY <1>4, <1>5, <1>6, <1>7 DEF Causes

\* Every failure of the SFTP file system has a cause in every behaviour.
LEMMA CausesKept == Spec => []Causes
<1>1. Init => Causes
  BY Assumed DEF Assumptions, SftpAssumption, Init, SftpInit, NoJob, Causes, Exclusive, HoldsSession,
                 Reached, Caused, ListingOf
<1>2. ASSUME Basics, Causes, [Next]_vars PROVE Causes'
  <2>1. Assumptions /\ Locks /\ Fields /\ Jobs /\ SftpAssumption
    BY <1>2, Assumed DEF Assumptions, Basics
  <2>2. CASE UNCHANGED sftpVars
    BY <1>2, <2>2 DEF sftpVars, mutexes, tunnels, thread, Causes, Exclusive, HoldsSession, Shared, Reached,
                      Caused, ListingOf, Outage
  <2> QED
    BY <1>2, <2>1, <2>2, OnEither, StepKeepsCauses, CallersKeepCauses
<1> QED
  BY <1>1, <1>2, BasicsKept, PTL DEF Spec

-------------------------------------------------------------------------------
(* Before the first fault nothing fails.                                     *)

Calm == faults = 0 /\ peerFaults = 0

ThreadsQuiet == \A u \in Users : attempts[u] = 0 /\ answer[u] # "error"

\* What is still to be deleted on the server is there.
ListStands ==
    up /\ pc = "sweep" /\ step[mover] # "returned" =>
        \A i \in DOMAIN job[mover].paths : next[mover] <= i => store[job[mover].paths[i]] = "full"

\* A step of a thread that neither fails nor deletes.
Plain(u) ==
    /\ step[u] \notin {"idle", "returned"}
    /\ \E s \in Steps : step' = [step EXCEPT ![u] = s]
    /\ answer' \in {answer, [answer EXCEPT ![u] = "ok"]}
    /\ UNCHANGED store \/ job[u].kind = "write"
    /\ UNCHANGED <<job, attempts, next>>

\* A step that neither fails nor deletes leaves the threads quiet.
LEMMA PlainIsQuiet ==
    ASSUME Assumptions, Basics, ThreadsQuiet, ListStands, UNCHANGED moveVars,
           NEW u \in Users, Plain(u)
    PROVE  ThreadsQuiet' /\ ListStands'
<1>0. /\ Users = {mover, panel} /\ mover # panel /\ UNCHANGED <<up, pc>>
      /\ answer \in [Users -> {"none", "ok", "error"}] /\ step \in [Users -> Steps]
  BY DEF Assumptions, RemoteMoveAssumption, Basics, Fields, Locks, Shapes, moveVars
<1>1. ThreadsQuiet'
  BY <1>0 DEF Plain, ThreadsQuiet
<1>2. ASSUME up, pc = "sweep", step'[mover] # "returned"
      PROVE  step[mover] # "returned" /\ UNCHANGED <<store, job, next>>
  <2>1. job[mover].kind = "delete" /\ (u = panel => job[u].kind = "list")
    BY <1>2 DEF Basics, Given, Turns, Plain
  <2> QED
    BY <1>0, <1>2, <2>1 DEF Plain
<1>3. ListStands'
  BY <1>0, <1>2 DEF ListStands
<1> QED
  BY <1>1, <1>3

\* What a list names is there and named once: the deletion of one path finds
\* it and leaves the others alone.
LEMMA DeletingIsQuiet ==
    ASSUME Assumptions, Basics, ThreadsQuiet, ListStands, UNCHANGED moveVars,
           pc \notin {"skip", "abort"}, NEW u \in Users, Delete(u)
    PROVE  ThreadsQuiet' /\ ListStands'
<1>0. /\ Users = {mover, panel} /\ mover # panel /\ UNCHANGED <<up, pc>> /\ Jobs
      /\ answer \in [Users -> {"none", "ok", "error"}] /\ step \in [Users -> Steps]
      /\ store \in [Files -> {"none", "part", "full"}] /\ Kept \in SUBSET Nat /\ Kept \subseteq Files
  BY DEF Assumptions, RemoteMoveAssumption, Basics, Fields, Locks, Shapes, moveVars, Kept
<1>1. step[u] = "run" /\ job[u].kind = "delete" /\ UNCHANGED job
  BY DEF Delete, Running, Others
<1>2. u = mover /\ up /\ pc = "sweep"
  <2>1. u = mover
    BY <1>0, <1>1 DEF Basics, Turns
  <2>2. IF up THEN pc \in {"read", "sweep"} ELSE pc = "write"
    BY <1>1, <2>1 DEF Basics, Turns, MoverBusy
  <2> QED
    BY <1>1, <2>1, <2>2 DEF Basics, Given
<1> DEFINE p == job[mover].paths
           n == next[mover]
<1>3. Lists(p, Kept) /\ n \in DOMAIN p /\ DOMAIN p = 1..Len(p) /\ Len(p) \in Nat /\ n \in Nat
  <2>1. Lists(p, Kept) /\ n \in 1..Len(p)
    BY <1>0, <1>1, <1>2 DEF Basics, Given, Jobs, JobOf
  <2> QED
    BY <2>1 DEF Lists
<1>4. \A i \in DOMAIN p : n <= i => store[p[i]] = "full"
  BY <1>1, <1>2 DEF ListStands
<1>5. store[p[n]] = "full"
  BY <1>3, <1>4
<1>6. /\ store' = [store EXCEPT ![p[n]] = "none"]
      /\ IF n = Len(p) THEN Ended(mover)
         ELSE next' = [next EXCEPT ![mover] = n + 1] /\ UNCHANGED <<step, answer, attempts>>
  BY <1>2, <1>5 DEF Delete
<1>7. ThreadsQuiet'
  BY <1>0, <1>6 DEF Ended, Return, ThreadsQuiet
<1>8. ListStands'
  <2>1. CASE n = Len(p)
    BY <1>0, <1>6, <2>1 DEF Ended, Return, Goto, ListStands
  <2>2. CASE n # Len(p)
    <3>1. next'[mover] = n + 1 /\ job' = job
      BY <1>0, <1>1, <1>6, <2>2 DEF Jobs
    <3>2. ASSUME NEW i \in DOMAIN p, n + 1 <= i PROVE store'[p[i]] = "full"
      <4>0. i \in Nat /\ n < i
        BY <1>3, <3>2
      <4>1. p[i] < p[n] /\ p[i] \in Kept /\ p[n] \in Kept
        <5> HIDE DEF p, n
        <5> QED
          BY <1>3, <4>0 DEF Lists, Downwards
      <4>2. p[i] # p[n] /\ p[i] \in Files /\ p[n] \in Files
        <5>1. p[i] \in Nat /\ p[n] \in Nat
          BY <1>0, <4>1
        <5> QED
          BY <1>0, <4>1, <5>1
      <4>3. store[p[i]] = "full"
        BY <1>3, <1>4, <4>0
      <4> HIDE DEF p, n
      <4> QED
        BY <1>0, <1>6, <4>2, <4>3
    <3> QED
      BY <3>1, <3>2 DEF ListStands
  <2> QED
    BY <2>1, <2>2
<1> QED
  BY <1>7, <1>8

\* As long as there is no fault no attempt of a thread fails.
LEMMA ThreadsStayQuiet ==
    ASSUME Assumptions, Basics, Causes, up => StoreLeft, ThreadsQuiet, ListStands,
           pc \notin {"skip", "abort"}, UNCHANGED moveVars, SftpStep, faults' = 0
    PROVE  ThreadsQuiet' /\ ListStands'
<1>0. /\ Locks /\ Fields /\ Jobs /\ SftpAssumption /\ faults \in Nat /\ Users = {mover, panel}
      /\ answer \in [Users -> {"none", "ok", "error"}] /\ step \in [Users -> Steps]
      /\ next \in [Users -> Nat]
  BY DEF Assumptions, RemoteMoveAssumption, Basics, Fields, Locks, Shapes, Jobs
<1>a. ~Fault
  BY <1>0 DEF Fault
<1>b. faults = 0
  BY <1>0, <1>a DEF SftpStep, Operate, Forward, LookForTunnel, AskTunnel, ClearTunnel, BuildTunnel,
                    BuildFails,
       TakeSsh, OpenChannel, ClearSlot, Enter, Connected, NotConnected, AttemptFails, AnswerLost, List, Delete,
       Create, Fill, Read, LinkDies, SessionCloses
<1>c. ~Outage /\ ~closed /\ \A t \in 1..built : link[t]
  <2>1. cuts = 0 /\ ~Outage
    BY <1>0, <1>b DEF Fields, Outage
  <2> QED
    BY <2>1 DEF Causes, Caused
<1>d. ASSUME NEW u \in Users, step[u] \in {"run", "fill"}, Shared(u) PROVE SessionLive
  <2>1. session \in 1..built
    BY <1>0, <1>d DEF Causes, Exclusive, Reached, Fields, Locks, Shapes
  <2> QED
    BY <1>c, <2>1 DEF SessionLive, Live
<1>e. ASSUME NEW u \in Users, step[u] = "handshake" \/ (step[u] = "run" /\ ~Shared(u)) PROVE Live(port[u])
  <2>1. port[u] \in 1..built
    BY <1>0, <1>e DEF Shared, Locks, Shapes, Dialled, Causes, Reached
  <2> QED
    BY <1>c, <2>1 DEF Live
<1> DEFINE Done == ThreadsQuiet' /\ ListStands'
<1>f. ASSUME NEW u \in Users, Plain(u) PROVE Done
  BY <1>f, PlainIsQuiet
<1>g. ASSUME NEW u \in Users, NEW s \in Steps, Goto(u, s), step[u] \notin {"idle", "returned"},
             UNCHANGED store \/ job[u].kind = "write", UNCHANGED <<job, attempts, next, answer>>
      PROVE  Done
  BY <1>f, <1>g DEF Goto, Plain
<1> HIDE DEF Done
<1>1. ASSUME NEW u \in Users, LookForTunnel(u) \/ AskTunnel(u) \/ ClearTunnel(u) \/ BuildTunnel(u)
                              \/ Enter(u) \/ Connected(u)
      PROVE  Done
  <2>1. step[u] \in {"resolve", "peek", "clear", "build", "enter", "handshake"}
    BY <1>1 DEF LookForTunnel, AskTunnel, ClearTunnel, BuildTunnel, Enter, Connected
  <2>2. UNCHANGED <<job, attempts, next, answer, store>>
    BY <1>1 DEF LookForTunnel, AskTunnel, ClearTunnel, BuildTunnel, Enter, Connected
  <2>3. \E s \in Steps : Goto(u, s)
    BY <1>1 DEF LookForTunnel, AskTunnel, ClearTunnel, BuildTunnel, Enter, Connected, AfterPort,
                Reconnect,
                Dial, Steps
  <2> QED
    BY <1>g, <2>1, <2>2, <2>3
<1>2. ASSUME NEW u \in Users PROVE ~BuildFails(u) /\ ~AnswerLost(u)
  BY <1>a DEF BuildFails, AnswerLost
<1>3. ASSUME NEW u \in Users, Forward(u) PROVE Done
  <2>1. UNCHANGED <<thread, store>>
    BY <1>3 DEF Forward, TakeSsh, OpenChannel, ClearSlot
  <2> QED
    BY <2>1 DEF thread, moveVars, ThreadsQuiet, ListStands, Done
<1>4. ASSUME NEW u \in Users, NotConnected(u) PROVE FALSE
  BY <1>4, <1>c, <1>e DEF NotConnected, Causes, Caused, Live
<1>5. ASSUME NEW u \in Users, AttemptFails(u) PROVE FALSE
  BY <1>5, <1>a, <1>d DEF AttemptFails
<1>6. ASSUME NEW u \in Users, List(u) PROVE Plain(u)
  BY <1>6 DEF List, Running, Ended, Return, Goto, Others, Plain, Steps
<1>7. ASSUME NEW u \in Users, Delete(u) PROVE Done
  BY <1>7, DeletingIsQuiet DEF Done
<1>8. ASSUME NEW u \in Users, Create(u) PROVE Plain(u)
  BY <1>8 DEF Create, Running, Goto, Others, Plain, Steps
<1>9. ASSUME NEW u \in Users, Fill(u) PROVE Plain(u)
  <2>1. job[u].kind = "write" /\ SessionLive
    BY <1>0, <1>9, <1>d DEF Fill, Jobs, JobOf, Shared
  <2> QED
    BY <1>9, <2>1 DEF Fill, Ended, Return, Goto, Others, Plain, Steps
<1>10. ASSUME NEW u \in Users, Read(u) PROVE Plain(u)
  <2>1. step[u] = "run" /\ job[u].kind = "read"
    BY <1>10 DEF Read, Running
  <2>2. u = mover /\ up /\ pc = "read" /\ job[u].file = cur /\ cur \in Files
    <3>1. u = mover
      BY <1>0, <2>1 DEF Basics, Turns
    <3>2. IF up THEN pc \in {"read", "sweep"} ELSE pc \in {"write", "skip", "abort"}
      BY <2>1, <3>1 DEF Basics, Turns, MoverBusy
    <3> QED
      BY <2>1, <3>1, <3>2 DEF Basics, Given, Turns
  <2>3. store[job[u].file] # "none"
    BY <2>2 DEF StoreLeft, Sweeping, Basics, Turns
  <2>4. Return(u, "ok") /\ UNCHANGED <<job, attempts, next, store>>
    BY <1>10, <1>a, <1>e, <2>1, <2>3 DEF Read, Shared, Others
  <2> QED
    BY <2>1, <2>4 DEF Return, Goto, Plain, Steps
<1>11. ~LinkDies /\ ~SessionCloses
  BY <1>a DEF LinkDies, SessionCloses
<1>12. ASSUME NEW u \in Users, Operate(u) PROVE Done
  BY <1>1, <1>2, <1>4, <1>5, <1>6, <1>7, <1>8, <1>9, <1>10, <1>12, <1>f DEF Operate
<1> QED
  BY <1>3, <1>11, <1>12 DEF SftpStep, Done

\* The answer that ends the wait for the request under way.
Last ==
    CASE request.kind = "upload" -> "accepted"
      [] request.kind = "download" -> "complete"
      [] OTHER -> "done"

\* Who waits does not wait in vain.
Awaited ==
    stage = "await" =>
        \/ \E i \in DOMAIN queue : queue[i].id = used
        \/ \E i \in DOMAIN inbox : inbox[i].id = used /\ inbox[i].kind = Last
        \/ \E i \in DOMAIN mail : mail[i] = Last

\* The end of a download comes after its content.
Fetched ==
    stage = "await" /\ request.kind = "download" =>
        /\ (\E i \in DOMAIN mail : mail[i] = "complete") => temp = "full"
        /\ \A i \in DOMAIN inbox : inbox[i].id = used /\ inbox[i].kind = "complete" =>
              \/ temp = "full"
              \/ \E j \in DOMAIN inbox : j < i /\ inbox[j].id = used /\ inbox[j].kind = "content"

Agreed ==
    /\ reply # "error"
    /\ \A i \in DOMAIN inbox : inbox[i].kind # "refused"
    /\ \A i \in DOMAIN mail : mail[i] # "refused"

\* On the way down the queue holds the request waited for, if anything; on
\* the way up, nothing but uploads.
Queued ==
    /\ ~up => \A i \in DOMAIN queue : queue[i].id = used /\ stage = "await"
    /\ up => \A i \in DOMAIN queue : queue[i].kind \in {"upload", "chunk", "complete"}

\* What is still to be deleted at the peer is there.
RestStands ==
    ~up /\ pc = "sweep" =>
        /\ stage = "send" \/ (\E i \in DOMAIN queue : queue[i].id = used) => shared[request.file] = "full"
        /\ \A i \in DOMAIN request.rest : shared[request.rest[i]] = "full"

PeerQuiet == Awaited /\ Fetched /\ Agreed /\ Queued /\ RestStands

\* What is under way while nothing was given up.
LEMMA AskedInCalm ==
    ASSUME Assumptions, Basics, stage # "idle", pc \notin {"skip", "abort"}
    PROVE  /\ up => request.kind = "upload"
           /\ ~up /\ pc # "sweep" => request = Download(cur) /\ cur \in Files /\ ~Sweeping
           /\ ~up /\ pc = "sweep" =>
                 /\ request.kind = "delete" /\ request.file \in Files /\ request.rest \in Seq(Files)
                 /\ \A i \in DOMAIN request.rest : request.rest[i] \in Files /\ request.rest[i] # request.file
           /\ up \in BOOLEAN
<1>0. N \in Nat /\ Files = 1..N /\ Kept \subseteq Files /\ up \in BOOLEAN
  BY DEF Assumptions, RemoteMoveAssumption, Kept, Basics, MoveTypes
<1>1. PeerBusy
  BY DEF Basics, Turns
<1>2. up => request.kind = "upload"
  BY <1>1 DEF PeerBusy, Basics, Given, Upload
<1>3. ~up /\ pc # "sweep" => request = Download(cur) /\ cur \in Files /\ ~Sweeping
  BY <1>1 DEF PeerBusy, Basics, Given, Turns, Sweeping
<1>4. ASSUME ~up, pc = "sweep"
      PROVE  /\ request.kind = "delete" /\ request.file \in Files /\ request.rest \in Seq(Files)
             /\ \A i \in DOMAIN request.rest : request.rest[i] \in Files /\ request.rest[i] # request.file
  <2> DEFINE K == {f \in Kept : f < request.file}
  <2>1. /\ request \in [kind : {"delete"}, file : Kept, rest : Seq(Kept)]
        /\ request.rest \in Seq(K)
    BY <1>4 DEF Basics, Given, Lists
  <2>2. \A i \in DOMAIN request.rest : request.rest[i] \in K
    <3> HIDE DEF K
    <3> QED
      BY <2>1, ElementOfSeq
  <2>3. request.rest \in Seq(Files)
    BY <1>0, <2>1, SeqMonotonic
  <2>4. \A f \in K : f \in Files /\ f # request.file
    BY <1>0, <2>1
  <2> QED
    BY <1>0, <2>1, <2>2, <2>3, <2>4
<1> QED
  BY <1>0, <1>2, <1>3, <1>4

\* An answer that has arrived leaves nothing of its request in the queue.
LEMMA AnsweredThenGone ==
    ASSUME PeerBasics, InOrder, Queued, ~up, stage = "await", mail # <<>>
    PROVE  DOMAIN queue = {}
<1> SUFFICES ASSUME NEW i \in DOMAIN queue PROVE FALSE
  OBVIOUS
<1>1. queue[i].id = used /\ queue[i].kind \in AskKinds
  BY DEF Queued, InOrder, SoFar
<1> QED
  BY <1>1 DEF InOrder, Unanswered

\* Sending what was asked for leaves the peer quiet.
LEMMA SendingIsQuiet ==
    ASSUME Assumptions, Basics, InOrder, PeerQuiet, pc \notin {"skip", "abort"}, UNCHANGED moveVars,
           Send \/ SendChunk \/ SendEnd
    PROVE  PeerQuiet'
<1>0. PeerBasics /\ Letters /\ PeerFields /\ UNCHANGED <<up, pc>> /\ stage # "idle" /\ queue \in Seq(Commands)
  BY DEF Basics, Assumptions, PeerBasics, moveVars, Send, SendChunk, SendEnd, Letters
<1>1. Send => Len(queue) < Capacity
  <2> SUFFICES ASSUME Send, ~(Len(queue) < Capacity) PROVE FALSE
    OBVIOUS
  <2>1. request.kind = "download" /\ stage = "send"
    BY DEF Send
  <2>2. DOMAIN queue = {}
    BY <1>0, <2>1, AskedInCalm DEF PeerQuiet, Queued
  <2>3. Len(queue) = 0
    BY <1>0, <2>2
  <2> QED
    BY <2>3 DEF Assumptions, PeerAssumption
<1>2. PICK k, s : /\ Posts(k, s)
                  /\ stage = "send" => s = "await"
                  /\ stage # "send" => s # "await" /\ request.kind = "upload"
  <2>1. CASE Send
    BY <1>1, <2>1 DEF Send, Stage, Posts
  <2>2. CASE SendChunk
    BY <1>0, <2>2 DEF SendChunk, Stage, Posts, Letters
  <2>3. CASE SendEnd
    BY <1>0, <2>3 DEF SendEnd, Close, Stage, Posts, Letters
  <2> QED
    BY <2>1, <2>2, <2>3
<1> DEFINE m == Message(k)
<1>3. Lengthens(queue, m, queue') /\ m.id = used /\ m.kind = k
  BY <1>0, <1>2, PostingKeepsLetters DEF PeerBasics, Message
<1> HIDE DEF m
<1>4. UNCHANGED <<request, used, mail, temp, inbox, shared>> /\ stage' = s /\ reply' # "error"
  BY <1>0, <1>2 DEF Posts, PeerQuiet, Agreed
<1>5. Awaited'
  BY <1>2, <1>3, <1>4 DEF Awaited, Lengthens
<1>6. Fetched'
  <2>1. s = "await" => stage = "send"
    BY <1>2
  <2>2. s = "await" => DOMAIN mail = {} /\ \A i \in DOMAIN inbox : inbox[i].id # used
    BY <2>1 DEF InOrder, Unsent
  <2> QED
    BY <1>4, <2>2 DEF Fetched
<1>7. Agreed'
  BY <1>4 DEF PeerQuiet, Agreed
<1>8. Queued'
  <2>1. ASSUME ~up PROVE stage = "send"
    BY <1>0, <1>2, <2>1, AskedInCalm DEF Download
  <2>2. ~up => \A i \in DOMAIN queue' : queue'[i].id = used /\ s = "await"
    BY <1>2, <1>3, <2>1 DEF PeerQuiet, Queued, Lengthens
  <2>3. ASSUME up PROVE k \in {"upload", "chunk", "complete"}
    BY <1>0, <1>2, <2>3, AskedInCalm DEF Posts
  <2>4. up => \A i \in DOMAIN queue' : queue'[i].kind \in {"upload", "chunk", "complete"}
    BY <1>3, <2>3 DEF PeerQuiet, Queued, Lengthens
  <2> QED
    BY <1>0, <1>4, <2>2, <2>4 DEF Queued
<1>9. RestStands'
  <2>1. ASSUME ~up PROVE stage = "send"
    BY <1>0, <1>2, <2>1, AskedInCalm DEF Download
  <2> QED
    BY <1>0, <1>4, <2>1 DEF PeerQuiet, RestStands
<1> QED
  BY <1>5, <1>6, <1>7, <1>8, <1>9 DEF PeerQuiet

\* The answer is not a refusal, and a download is whole when it ends.
LEMMA ReceivingIsQuiet ==
    ASSUME Assumptions, Basics, InOrder, PeerQuiet, pc \notin {"skip", "abort"}, UNCHANGED moveVars, Receive
    PROVE  PeerQuiet'
<1>0. /\ PeerBasics /\ UNCHANGED <<up, pc, temp, queue, inbox, shared>> /\ stage = "await" /\ mail # <<>>
      /\ Received(Head(mail))
  BY DEF Basics, Assumptions, PeerBasics, moveVars, Receive, wire
<1>1. /\ mail \in Seq(AnswerKinds \ {"content"})
      /\ Head(mail) = mail[1] /\ Shortens(mail, Tail(mail))
  BY <1>0, TailOf DEF PeerBasics, Letters
<1>2. Fits(mail[1]) /\ mail[1] # "refused"
  BY <1>0, <1>1 DEF Shortens, InOrder, Fitting, PeerQuiet, Agreed
<1>3. ~up => DOMAIN queue = {}
  BY <1>0, AnsweredThenGone DEF PeerQuiet
<1>a. request.kind \in {"upload", "download", "delete"}
  BY <1>0 DEF PeerBasics, Letters, Requests
<1>4. CASE request.kind = "delete" /\ mail[1] = "done" /\ request.rest # <<>>
  <2>1. NextPath
    BY <1>0, <1>1, <1>4 DEF Received
  <2>2. ~up /\ pc = "sweep"
    BY <1>0, <1>4, AskedInCalm DEF Download
  <2>3. /\ request.file \in Files /\ request.rest \in Seq(Files) /\ request \in Requests
    BY <1>0, <2>2, AskedInCalm DEF PeerBasics, Letters
  <2>4. Head(request.rest) = request.rest[1] /\ Shortens(request.rest, Tail(request.rest))
    BY <1>4, <2>3, TailOf
  <2>5. /\ request'.file = request.rest[1] /\ request'.rest = Tail(request.rest) /\ request'.kind = "delete"
        /\ stage' = "send" /\ mail' = <<>> /\ reply' = reply
    BY <1>4, <2>1, <2>3, <2>4 DEF NextPath, Stage, Requests
  <2>6. \A i \in DOMAIN request.rest : shared[request.rest[i]] = "full"
    BY <2>2 DEF PeerQuiet, RestStands
  <2>7. RestStands'
    BY <1>0, <2>4, <2>5, <2>6 DEF RestStands, Shortens
  <2>8. Queued'
    BY <1>0, <1>3, <2>2 DEF Queued
  <2>9. Awaited' /\ Fetched' /\ Agreed'
    BY <1>0, <2>5 DEF Awaited, Fetched, PeerQuiet, Agreed
  <2> QED
    BY <2>7, <2>8, <2>9 DEF PeerQuiet
<1>5. CASE ~(request.kind = "delete" /\ mail[1] = "done" /\ request.rest # <<>>)
  <2>1. mail' = Tail(mail) /\ UNCHANGED <<request, used>>
    BY <1>0, <1>1, <1>5 DEF Received
  <2>2. \/ stage' \in {"chunk", "returned"} /\ reply' \in {reply, "ok"}
        \/ stage' = "await" /\ reply' = reply /\ request.kind = "download" /\ mail[1] = "accepted"
    <3>1. CASE mail[1] = "accepted"
      BY <1>0, <1>1, <1>2, <1>5, <1>a, <3>1 DEF Received, Stage, Fits
    <3>2. CASE mail[1] = "complete"
      <4>1. request.kind = "download" /\ temp = "full"
        BY <1>0, <1>1, <1>2, <1>a, <3>2 DEF Fits, PeerQuiet, Fetched, Shortens
      <4> QED
        BY <1>0, <1>1, <1>5, <3>2, <4>1 DEF Received, Close, Stage
    <3>3. CASE mail[1] = "done"
      BY <1>0, <1>1, <1>2, <1>5, <1>a, <3>3 DEF Received, Close, Stage, Fits
    <3> QED
      BY <1>1, <1>2, <1>a, <3>1, <3>2, <3>3 DEF Fits, AnswerKinds, Shortens
  <2>3. Awaited'
    <3> SUFFICES ASSUME stage' = "await" PROVE Awaited'
      BY DEF Awaited
    <3>1. request.kind = "download" /\ mail[1] # Last /\ Last' = Last
      BY <2>1, <2>2 DEF Last
    <3>2. \A i \in DOMAIN mail : mail[i] = Last => i - 1 \in DOMAIN mail' /\ mail'[i - 1] = Last
      BY <1>1, <2>1, <3>1 DEF Shortens
    <3> QED
      BY <1>0, <2>1, <3>1, <3>2 DEF PeerQuiet, Awaited
  <2>4. Fetched'
    <3>1. (\E i \in DOMAIN mail' : mail'[i] = "complete") => \E i \in DOMAIN mail : mail[i] = "complete"
      BY <1>1, <2>1 DEF Shortens
    <3> QED
      BY <1>0, <2>1, <3>1 DEF PeerQuiet, Fetched
  <2>5. Agreed'
    BY <1>0, <1>1, <2>1, <2>2 DEF PeerQuiet, Agreed, Shortens
  <2>6. Queued'
    BY <1>0, <1>3 DEF PeerQuiet, Queued
  <2>7. RestStands'
    BY <1>0, <2>1, <2>2 DEF PeerQuiet, RestStands
  <2> QED
    BY <2>3, <2>4, <2>5, <2>6, <2>7 DEF PeerQuiet
<1> QED
  BY <1>4, <1>5

\* The peer finds what it is asked for.
LEMMA ArrivingIsQuiet ==
    ASSUME Assumptions, Basics, InOrder, ~up => SharedLeft, PeerQuiet, pc \notin {"skip", "abort"},
           UNCHANGED moveVars, Arrive, ~PeerFault
    PROVE  PeerQuiet'
<1> DEFINE m == queue[1]
<1>0. /\ PeerBasics /\ UNCHANGED <<up, pc, request, stage, reply, used, mail, temp>>
      /\ 1 \in DOMAIN queue /\ m \in Commands /\ Shortens(queue, queue')
      /\ \E kinds \in Seq(AnswerKinds) : Handles(m, kinds) /\ Answered(m, kinds)
  BY ArrivalHandles DEF Basics, Assumptions, PeerBasics, moveVars, waiting
<1>1. PICK kinds \in Seq(AnswerKinds) : Handles(m, kinds) /\ Answered(m, kinds)
  BY <1>0
<1>2. \A i \in DOMAIN queue' : i \in Nat /\ i + 1 \in DOMAIN queue /\ queue'[i] = queue[i + 1]
  BY <1>0 DEF Shortens
<1>3. \A i \in DOMAIN queue' : 1 < i + 1
  <2> SUFFICES ASSUME NEW i \in DOMAIN queue' PROVE 1 < i + 1
    OBVIOUS
  <2>1. queue' \in Seq(Commands)
    BY <1>0, ArrivalHandles DEF PeerBasics
  <2>2. i \in Nat \ {0}
    BY <2>1
  <2> QED
    BY <2>2
<1>4. up => m.kind \in {"upload", "chunk", "complete"}
  BY <1>0 DEF PeerQuiet, Queued
<1>5. ASSUME ~up
      PROVE  /\ m.id = used /\ stage = "await" /\ m.kind = request.kind /\ m.file = request.file
             /\ m.kind \in {"download", "delete"}
             /\ m.kind = "delete" <=> pc = "sweep"
             /\ shared[m.file] = "full"
  <2>1. m.id = used /\ stage = "await"
    BY <1>0, <1>5 DEF PeerQuiet, Queued
  <2>2. Belongs(m)
    BY <1>0, <2>1 DEF InOrder, Fitting
  <2>3. /\ pc # "sweep" => request = Download(cur) /\ cur \in Files /\ ~Sweeping
        /\ pc = "sweep" => request.kind = "delete"
    BY <1>5, <2>1, AskedInCalm
  <2> HIDE DEF m
  <2>4. m.kind = request.kind /\ m.file = request.file /\ m.kind \in {"download", "delete"}
    BY <2>2, <2>3 DEF Belongs, Download
  <2>5. m.kind = "delete" <=> pc = "sweep"
    BY <2>3, <2>4 DEF Download
  <2>6. ASSUME pc = "sweep" PROVE shared[m.file] = "full"
    <3>1. \E i \in DOMAIN queue : queue[i].id = used
      BY <1>0, <2>1 DEF m
    <3>2. shared[request.file] = "full"
      BY <1>5, <2>6, <3>1 DEF PeerQuiet, RestStands
    <3> QED
      BY <2>4, <3>2
  <2>7. ASSUME pc # "sweep" PROVE shared[m.file] = "full"
    <3>1. request.file = cur /\ cur \in Files /\ ~Sweeping
      BY <1>5, <2>3, <2>7 DEF Download
    <3>2. shared[cur] = "full"
      BY <1>5, <3>1 DEF SharedLeft
    <3> QED
      BY <2>4, <3>1, <3>2
  <2> QED
    BY <2>1, <2>4, <2>5, <2>6, <2>7
<1> HIDE DEF m
<1>6. /\ m.kind = "upload" => kinds = <<"accepted">>
      /\ m.kind = "download" => kinds = <<"accepted", "content", "complete">>
      /\ m.kind = "delete" => kinds = <<"done">>
      /\ m.kind \in {"chunk", "complete"} => kinds = <<>>
      /\ ~up => shared' = IF m.kind = "delete" THEN [shared EXCEPT ![m.file] = "none"] ELSE shared
  <2>1. m.kind \in {"download", "delete"} => Held(m.file)
    BY <1>0, <1>4, <1>5 DEF Held
  <2>2. ~(IF m.kind = "upload" \/ Held(m.file) THEN PeerFault ELSE UNCHANGED peerFaults)
        \/ m.kind \notin {"upload", "download", "delete"}
    BY <2>1
  <2>3. m.kind = "upload" => kinds = <<"accepted">>
    BY <1>1, <2>2 DEF Handles
  <2>4. m.kind = "download" => kinds = <<"accepted", "content", "complete">> /\ UNCHANGED shared
    BY <1>1, <2>2 DEF Handles
  <2>5. m.kind = "delete" => kinds = <<"done">> /\ shared' = [shared EXCEPT ![m.file] = "none"]
    BY <1>1, <2>2 DEF Handles
  <2>6. m.kind \in {"chunk", "complete"} => kinds = <<>>
    BY <1>1 DEF Handles
  <2> QED
    BY <1>0, <1>5, <2>3, <2>4, <2>5, <2>6
<1>7. \A j \in DOMAIN kinds :
         /\ kinds[j] # "refused"
         /\ kinds[j] = "complete" => j = 3 /\ kinds[2] = "content" /\ 2 \in DOMAIN kinds
  BY <1>0, <1>6 DEF Commands
<1>8. /\ \A i \in DOMAIN inbox : i \in DOMAIN inbox' /\ inbox'[i] = inbox[i]
      /\ \A j \in DOMAIN kinds :
            Len(inbox) + j \in DOMAIN inbox' /\ inbox'[Len(inbox) + j] = Comes(kinds[j], m.id)
      /\ \A i \in DOMAIN inbox' : i \in DOMAIN inbox \/ \E j \in DOMAIN kinds : i = Len(inbox) + j
      /\ Len(inbox) \in Nat
  BY <1>0, <1>1 DEF Answered, PeerBasics, Letters
<1>9. \A k : Comes(k, m.id).kind = k /\ Comes(k, m.id).id = m.id
  BY DEF Comes
<1>10. Awaited'
  <2> SUFFICES ASSUME stage = "await" PROVE Awaited'
    BY <1>0 DEF Awaited
  <2>0. Last' = Last
    BY <1>0 DEF Last
  <2>1. CASE m.id = used
    <3>1. m.kind = request.kind /\ m.kind \in AskKinds
      BY <1>0, <2>1 DEF m, InOrder, SoFar, Fitting, Belongs, AskKinds
    <3>2. \E j \in DOMAIN kinds : kinds[j] = Last
      BY <1>6, <3>1 DEF Last, AskKinds
    <3> QED
      BY <1>0, <1>8, <1>9, <2>0, <2>1, <3>2 DEF Awaited
  <2>2. CASE m.id # used
    <3>1. \A i \in DOMAIN queue : queue[i].id = used => i - 1 \in DOMAIN queue' /\ queue'[i - 1].id = used
      BY <1>0, <2>2 DEF Shortens, m
    <3> QED
      BY <1>0, <1>8, <2>0, <3>1 DEF PeerQuiet, Awaited
  <2> QED
    BY <2>1, <2>2
<1>11. Fetched'
  <2> SUFFICES ASSUME stage = "await", request.kind = "download", NEW i \in DOMAIN inbox',
                      inbox'[i].id = used, inbox'[i].kind = "complete", temp # "full"
               PROVE  \E j \in DOMAIN inbox' : j < i /\ inbox'[j].id = used /\ inbox'[j].kind = "content"
    BY <1>0 DEF PeerQuiet, Fetched
  <2>1. CASE i \in DOMAIN inbox
    BY <1>8, <2>1 DEF PeerQuiet, Fetched
  <2>2. CASE i \notin DOMAIN inbox
    <3>1. PICK j \in DOMAIN kinds : i = Len(inbox) + j
      BY <1>8, <2>2
    <3>2. kinds[j] = "complete" /\ m.id = used
      BY <1>8, <1>9, <3>1
    <3>3. j = 3 /\ kinds[2] = "content" /\ 2 \in DOMAIN kinds
      BY <1>7, <3>2
    <3>4. /\ Len(inbox) + 2 \in DOMAIN inbox' /\ inbox'[Len(inbox) + 2] = Comes("content", m.id)
          /\ Len(inbox) + 2 < i
      BY <1>8, <3>1, <3>3
    <3> QED
      BY <1>9, <3>2, <3>4
  <2> QED
    BY <2>1, <2>2
<1>12. Agreed'
  <2>1. \A i \in DOMAIN inbox' : inbox'[i].kind # "refused"
    BY <1>7, <1>8, <1>9 DEF PeerQuiet, Agreed
  <2> QED
    BY <1>0, <2>1 DEF PeerQuiet, Agreed
<1>13. Queued'
  BY <1>0, <1>2 DEF PeerQuiet, Queued
<1>14. RestStands'
  <2> SUFFICES ASSUME ~up, pc = "sweep" PROVE RestStands'
    BY <1>0 DEF RestStands
  <2>1. m.kind = "delete" /\ m.id = used /\ stage = "await" /\ m.file = request.file
    BY <1>5
  <2>2. \A i \in DOMAIN queue' : queue'[i].id # used
    BY <1>0, <1>2, <1>3, <2>1 DEF m, InOrder, ChunkThenEnd
  <2>3. \A i \in DOMAIN request.rest : request.rest[i] \in Files /\ request.rest[i] # request.file
    BY <2>1, AskedInCalm
  <2>4. shared \in [Files -> {"none", "full"}]
    BY DEF Basics, PeerFields, Assumptions, RemoteMoveAssumption
  <2>5. \A i \in DOMAIN request.rest : shared'[request.rest[i]] = "full"
    BY <1>6, <2>1, <2>3, <2>4 DEF PeerQuiet, RestStands
  <2> QED
    BY <1>0, <2>1, <2>2, <2>5 DEF RestStands
<1> QED
  BY <1>10, <1>11, <1>12, <1>13, <1>14 DEF PeerQuiet

\* The end of what was asked for reaches the channel, the content before it.
LEMMA DeliveringIsQuiet ==
    ASSUME Assumptions, Basics, PeerQuiet, UNCHANGED moveVars, Deliver
    PROVE  PeerQuiet'
<1> DEFINE m == inbox[1]
<1>0. /\ UNCHANGED <<up, pc, request, stage, reply, used, queue, shared>>
      /\ 1 \in DOMAIN inbox /\ Shortens(inbox, inbox') /\ Puts(m)
      /\ mail' = mail \/ Lengthens(mail, m.kind, mail')
      /\ stage = "await" => pending = {used}
      /\ mail \in Seq(AnswerKinds \ {"content"}) /\ m.kind \in AnswerKinds
  BY DeliveringKeepsLetters DEF Basics, moveVars, Deliver, NoStaleWaiter, Letters, Answers
<1>1. \A i \in DOMAIN inbox : i \in Nat \ {0}
  BY DEF Basics, Letters
<1> HIDE DEF m
<1>2. /\ \A i \in DOMAIN mail : i \in DOMAIN mail' /\ mail'[i] = mail[i]
      /\ \A i \in DOMAIN mail' : i \in DOMAIN mail \/ (mail'[i] = m.kind /\ mail' # mail)
      /\ temp' \in {temp, "full"}
  BY <1>0 DEF Lengthens, Puts
<1>3. Awaited'
  <2> SUFFICES ASSUME stage = "await" PROVE Awaited'
    BY <1>0 DEF Awaited
  <2>0. Last' = Last /\ Last # "content"
    BY <1>0 DEF Last
  <2>1. CASE m.id = used /\ m.kind = Last
    <3>1. mail' = Append(mail, Last)
      BY <1>0, <2>0, <2>1 DEF Puts
    <3>2. Lengthens(mail, Last, Append(mail, Last))
      BY <1>0, <2>0, <2>1, AppendOf
    <3> QED
      BY <2>0, <3>1, <3>2 DEF Awaited, Lengthens
  <2>2. CASE ~(m.id = used /\ m.kind = Last)
    <3>1. \A i \in DOMAIN inbox : inbox[i].id = used /\ inbox[i].kind = Last =>
             i - 1 \in DOMAIN inbox' /\ inbox'[i - 1] = inbox[i]
      BY <1>0, <2>2 DEF Shortens, m
    <3> QED
      BY <1>0, <1>2, <2>0, <3>1 DEF PeerQuiet, Awaited
  <2> QED
    BY <2>1, <2>2
<1>4. Fetched'
  <2> SUFFICES ASSUME stage = "await", request.kind = "download" PROVE Fetched'
    BY <1>0 DEF Fetched
  <2>1. ASSUME NEW i \in DOMAIN mail', mail'[i] = "complete" PROVE temp' = "full"
    <3>1. CASE i \in DOMAIN mail
      BY <1>2, <2>1, <3>1 DEF PeerQuiet, Fetched
    <3>2. CASE i \notin DOMAIN mail
      <4>1. m.id = used /\ m.kind = "complete"
        BY <1>0, <1>2, <2>1, <3>2 DEF Puts
      <4>2. temp = "full" \/ \E j \in DOMAIN inbox : j < 1
        BY <1>0, <4>1 DEF PeerQuiet, Fetched, m
      <4>3. \A j \in Nat \ {0} : ~(j < 1)
        OBVIOUS
      <4> QED
        BY <1>1, <1>2, <4>2, <4>3
    <3> QED
      BY <3>1, <3>2
  <2>2. ASSUME NEW i \in DOMAIN inbox', inbox'[i].id = used, inbox'[i].kind = "complete", temp' # "full"
        PROVE  \E j \in DOMAIN inbox' : j < i /\ inbox'[j].id = used /\ inbox'[j].kind = "content"
    <3>1. i + 1 \in DOMAIN inbox /\ inbox'[i] = inbox[i + 1] /\ i \in Nat
      BY <1>0 DEF Shortens
    <3>2. PICK j \in DOMAIN inbox : j < i + 1 /\ inbox[j].id = used /\ inbox[j].kind = "content"
      BY <1>2, <2>2, <3>1 DEF PeerQuiet, Fetched
    <3>3. j # 1
      BY <1>0, <2>2, <3>2 DEF Puts, m
    <3>4. j - 1 \in DOMAIN inbox' /\ inbox'[j - 1] = inbox[j]
      BY <1>0, <3>3 DEF Shortens
    <3>5. j - 1 < i
      <4>1. j \in Nat \ {0}
        BY <1>1
      <4> QED
        BY <3>1, <3>2, <4>1
    <3> QED
      BY <3>2, <3>4, <3>5
  <2> QED
    BY <1>0, <2>1, <2>2 DEF Fetched
<1>5. Agreed'
  <2>1. m.kind # "refused" /\ \A i \in DOMAIN inbox' : inbox'[i].kind # "refused"
    BY <1>0 DEF PeerQuiet, Agreed, Shortens, m
  <2> QED
    BY <1>0, <1>2, <2>1 DEF PeerQuiet, Agreed
<1>6. Queued' /\ RestStands'
  BY <1>0 DEF PeerQuiet, Queued, RestStands
<1> QED
  BY <1>3, <1>4, <1>5, <1>6 DEF PeerQuiet

\* Without a fault nobody waits in vain, so no time-out is due.
LEMMA PeerStaysQuiet ==
    ASSUME Assumptions, Basics, InOrder, ~up => SharedLeft, PeerQuiet, pc \notin {"skip", "abort"},
           UNCHANGED moveVars, PeerStep, Calm, Calm'
    PROVE  PeerQuiet'
<1>1. ~PeerFault
  BY DEF PeerFault, Calm
<1>2. ~TimeOut
  <2> SUFFICES ASSUME TimeOut PROVE FALSE
    OBVIOUS
  <2>1. OnItsWay
    BY DEF TimeOut, PeerQuiet, Awaited, OnItsWay
  <2> QED
    BY <1>1, <2>1 DEF TimeOut
<1>3. ~LinkBreaks
  BY <1>1 DEF LinkBreaks
<1> QED
  BY <1>1, <1>2, <1>3, SendingIsQuiet, ReceivingIsQuiet, ArrivingIsQuiet, DeliveringIsQuiet
     DEF PeerStep, AskPeer

Quiet == ThreadsQuiet /\ ListStands /\ PeerQuiet /\ pc \notin {"ask", "skip", "abort"}
Untroubled == Calm => Quiet

\* Faults are counted and not forgotten.
LEMMA CalmBefore ==
    ASSUME Assumptions, Basics, [Next]_vars, Calm'
    PROVE  Calm
<1>0. faults \in Nat /\ peerFaults \in Nat
  BY DEF Basics, Fields, PeerFields, Assumptions, PeerAssumption, SftpAssumption
<1>1. faults' \in {faults, faults + 1}
  <2>1. SftpStep => faults' \in {faults, faults + 1}
    BY DEF SftpStep, Operate, Forward, LookForTunnel, AskTunnel, ClearTunnel, BuildTunnel, BuildFails,
           TakeSsh, OpenChannel, ClearSlot, Enter, Connected, NotConnected, AttemptFails, AnswerLost, List,
           Delete, Create, Fill, Read, LinkDies, SessionCloses, Fault
  <2>2. \A u \in Users : Begins(u) \/ Takes(u) => faults' = faults
    BY DEF Begins, Takes, Call, Taken
  <2> QED
    BY <2>1, <2>2, OnEither DEF sftpVars
<1>2. peerFaults' \in {peerFaults, peerFaults + 1}
  <2>1. PeerStep => peerFaults' \in {peerFaults, peerFaults + 1}
    BY DEF PeerStep, AskPeer, Send, Receive, SendChunk, SendEnd, TimeOut, Arrive, Deliver, LinkBreaks,
           PeerFault
  <2>2. AsksPeer \/ ReadsReply => peerFaults' = peerFaults
    BY DEF AsksPeer, ReadsReply, Request, ReplyTaken
  <2> QED
    BY <2>1, <2>2, OnEither DEF peerVars
<1> QED
  BY <1>0, <1>1, <1>2 DEF Calm

\* A request that is made now finds the queue as it should be.
LEMMA AskingIsQuiet ==
    ASSUME PeerQuiet, UNCHANGED up, NEW r, Request(r),
           ~up /\ pc' = "sweep" =>
               shared[r.file] = "full" /\ \A i \in DOMAIN r.rest : shared[r.rest[i]] = "full"
    PROVE  PeerQuiet'
<1>1. /\ stage = "idle" /\ stage' = "send" /\ request' = r /\ mail' = <<>>
      /\ UNCHANGED <<reply, queue, inbox, shared>>
  BY DEF Request, Stage, wire
<1>2. Awaited' /\ Fetched' /\ Agreed'
  BY <1>1 DEF Awaited, Fetched, PeerQuiet, Agreed
<1>3. Queued'
  BY <1>1 DEF PeerQuiet, Queued
<1>4. RestStands'
  BY <1>1 DEF RestStands
<1> QED
  BY <1>2, <1>3, <1>4 DEF PeerQuiet

\* So does what does not concern it.
LEMMA RestingIsQuiet ==
    ASSUME PeerQuiet, UNCHANGED up, ReadsReply \/ UNCHANGED peerVars,
           ~up /\ pc' = "sweep" => pc = "sweep" /\ UNCHANGED peerVars
    PROVE  PeerQuiet'
<1>1. CASE ReadsReply
  <2>1. /\ stage = "returned" /\ stage' = "idle" /\ mail' = <<>> /\ reply' = "none"
        /\ UNCHANGED <<queue, inbox>>
    BY <1>1 DEF ReadsReply, ReplyTaken, wire
  <2>2. Awaited' /\ Fetched' /\ Agreed' /\ Queued'
    BY <2>1 DEF Awaited, Fetched, PeerQuiet, Agreed, Queued
  <2>3. RestStands'
    <3>1. ~(UNCHANGED peerVars)
      BY <2>1 DEF peerVars, waiting
    <3> QED
      BY <3>1 DEF RestStands
  <2> QED
    BY <2>2, <2>3 DEF PeerQuiet
<1>2. CASE UNCHANGED peerVars
  BY <1>2 DEF peerVars, waiting, wire, PeerQuiet, Awaited, Last, Fetched, Agreed, Queued, RestStands
<1> QED
  BY <1>1, <1>2

\* Where the transfer or the panel begins or takes an answer, no attempt fails.
LEMMA CallersAreQuiet ==
    ASSUME Basics, ThreadsQuiet, [Next]_vars, ~SftpNext
    PROVE  ThreadsQuiet'
<1> DEFINE Now(u) == /\ attempts' = [attempts EXCEPT ![u] = 0]
                     /\ answer' \in {answer, [answer EXCEPT ![u] = "none"]}
           Here == UNCHANGED <<attempts, answer>> \/ \E u : Now(u)
<1>a. ASSUME NEW u, NEW j, Call(u, j) PROVE Now(u)
  BY <1>a DEF Call
<1>b. ASSUME NEW u, Taken(u) PROVE Now(u)
  BY <1>b DEF Taken
<1>c. UNCHANGED sftpVars => Here
  BY DEF sftpVars, thread
<1> HIDE DEF Now
<1>1. ASSUME NEW j, Sftp(j) PROVE Here
  BY <1>1, <1>a DEF Sftp
<1>2. ASSUME NEW x, NEW a, Says(x, a) PROVE Here
  BY <1>2, <1>b, <1>c DEF Says, SftpSays
<1>3. ASSUME NEW x, NEW s, Deletion(x, s) PROVE Here
  BY <1>3, <1>1, <1>c DEF Deletion, Peer
<1>4. Move \/ Decide \/ Cancelled => Here
  BY <1>1, <1>2, <1>3, <1>a, <1>b, <1>c
     DEF Move, Decide, Cancelled, ReadItem, WriteItem, NextItem, ItemFails, Retry, GiveUp, GivenUp, Sweep,
         EndSweep, SftpSays, Peer
<1>5. PanelCalls \/ PanelAnswered \/ PeerNext \/ UNCHANGED vars => Here
  BY <1>a, <1>b, <1>c DEF PanelCalls, PanelAnswered, PeerNext, vars
<1>6. Here
  BY <1>4, <1>5 DEF Next
<1> QED
  BY <1>6 DEF Basics, Fields, ThreadsQuiet, Now

\* The lists of a sweep are of files that have not been touched.
LEMMA SweepingIsQuiet ==
    ASSUME Assumptions, Basics, up => StoreLeft, ~up => SharedLeft, PeerQuiet, Sweep
    PROVE  ListStands' /\ PeerQuiet' /\ pc' \in {"sweep", "done"}
<1>0. /\ up \in BOOLEAN /\ mover \in Users /\ Kept \subseteq Files /\ pc = "item" /\ UNCHANGED up /\ ~Sweeping
      /\ Locks /\ Fields /\ Jobs
  BY SweepingIsTurn DEF Assumptions, RemoteMoveAssumption, Basics, MoveTypes, Turns, Sweeping, Kept
<1>1. CASE Kept = {} /\ Finish("ok") /\ UNCHANGED <<sftpVars, peerVars>>
  <2>1. pc' = "done"
    BY <1>1 DEF Finish
  <2> QED
    BY <1>0, <1>1, <2>1, RestingIsQuiet DEF ListStands
<1>2. ASSUME Swept # <<>>, Lists(Swept, Kept), pc' = "sweep",
             IF up THEN ByMover(Erase(Swept)) ELSE ByPeer(EraseThere(Swept))
      PROVE  ListStands' /\ PeerQuiet'
  <2> DEFINE s == Swept
  <2>1. s \in Seq(Files) /\ s # <<>>
    BY <1>0, <1>2, SeqMonotonic DEF Lists
  <2>2. /\ up => Started(mover, Erase(s)) /\ UNCHANGED peerVars
        /\ ~up => Request(EraseThere(s))
    BY <1>2 DEF ByMover, ByPeer
  <2> HIDE DEF s
  <2>3. \A i \in DOMAIN s : s[i] \in Files
    BY <2>1
  <2>4. CASE up
    <3>1. \A f \in Files : store[f] = "full"
      BY <1>0, <2>4 DEF StoreLeft
    <3>2. UNCHANGED store /\ job'[mover].paths = s
      BY <2>2, <2>4 DEF Started, Erase
    <3>3. ListStands'
      BY <2>3, <3>1, <3>2 DEF ListStands
    <3>4. PeerQuiet'
      BY <1>0, <2>2, <2>4, RestingIsQuiet
    <3> QED
      BY <3>3, <3>4
  <2>5. CASE ~up
    <3>1. \A f \in Files : shared[f] = "full"
      BY <1>0, <2>5 DEF SharedLeft
    <3>2. Head(s) = s[1] /\ Shortens(s, Tail(s)) /\ 1 \in DOMAIN s
      BY <2>1, TailOf DEF Shortens
    <3> DEFINE r == EraseThere(s)
    <3>3. r.file = s[1] /\ r.rest = Tail(s) /\ Request(r)
      BY <2>2, <2>5, <3>2 DEF EraseThere
    <3> HIDE DEF r
    <3>4. shared[r.file] = "full" /\ \A i \in DOMAIN r.rest : shared[r.rest[i]] = "full"
      BY <2>3, <3>1, <3>2, <3>3 DEF Shortens
    <3>5. PeerQuiet'
      BY <1>0, <3>3, <3>4, AskingIsQuiet
    <3> QED
      BY <1>0, <2>5, <3>5 DEF ListStands
  <2> QED
    BY <1>0, <2>4, <2>5
<1> QED
  BY <1>0, <1>1, <1>2, SweepingIsTurn DEF Finish

\* Without a fault every step leaves everything quiet.
LEMMA StepKeepsUntroubled ==
    ASSUME Assumptions, Basics, InOrder, Causes, Contents, Untroubled, [Next]_vars
    PROVE  Untroubled'
<1> SUFFICES ASSUME Calm' PROVE Quiet'
  BY DEF Untroubled
<1>0. /\ Calm /\ Quiet /\ ThreadsQuiet /\ ListStands /\ PeerQuiet /\ pc \notin {"ask", "skip", "abort"}
      /\ (up => StoreLeft) /\ (~up => SharedLeft) /\ mover \in Users /\ panel \in Users /\ mover # panel
      /\ up \in BOOLEAN
  BY CalmBefore DEF Untroubled, Quiet, Contents, Assumptions, RemoteMoveAssumption, Basics, MoveTypes
<1>1. CASE UNCHANGED <<sftpVars, moveVars>> /\ (PeerStep \/ UNCHANGED peerVars)
  <2>1. PeerQuiet'
    BY <1>0, <1>1, PeerStaysQuiet, RestingIsQuiet DEF moveVars
  <2>2. ThreadsQuiet' /\ ListStands' /\ pc' = pc
    BY <1>0, <1>1 DEF sftpVars, thread, moveVars, ThreadsQuiet, ListStands
  <2> QED
    BY <1>0, <2>1, <2>2 DEF Quiet
<1>2. CASE SftpNext
  <2>1. SftpStep /\ UNCHANGED <<peerVars, moveVars>> /\ faults' = 0
    BY <1>2 DEF SftpNext, Calm
  <2>2. ThreadsQuiet' /\ ListStands'
    BY <1>0, <2>1, ThreadsStayQuiet
  <2>3. PeerQuiet' /\ pc' = pc
    BY <1>0, <2>1, RestingIsQuiet DEF moveVars
  <2> QED
    BY <1>0, <2>2, <2>3 DEF Quiet
<1>3. ASSUME ~SftpNext PROVE ThreadsQuiet'
  BY <1>0, <1>3, CallersAreQuiet
<1>4. CASE ReadItem \/ WriteItem
  <2>1. pc' \in {"read", "write"} /\ UNCHANGED up
    BY <1>4 DEF ReadItem, WriteItem
  <2>2. ReadsReply \/ UNCHANGED peerVars \/ \E r : Request(r)
    BY <1>0, <1>4, ReadingIsTurn, WritingIsTurn
       DEF ByMover, ByPeer, ReadItem, WriteItem, SftpSays, PeerSays, ReadsReply, Says
  <2>3. PeerQuiet'
    BY <1>0, <2>1, <2>2, RestingIsQuiet, AskingIsQuiet
  <2>4. ListStands'
    BY <2>1 DEF ListStands
  <2>5. CASE SftpNext
    BY <1>2, <2>5
  <2> QED
    BY <1>3, <2>1, <2>3, <2>4, <2>5 DEF Quiet
<1>5. CASE NextItem \/ ItemFails \/ EndSweep \/ Cancelled
  <2>1. pc' \in {"item", "ask", "done"} /\ UNCHANGED up
    BY <1>5 DEF NextItem, ItemFails, EndSweep, Cancelled, Finish
  <2>2. UNCHANGED peerVars \/ \E x \in BOOLEAN : \E a : Says(x, a)
    BY <1>0, <1>5 DEF NextItem, ItemFails, EndSweep, Cancelled
  <2>3. ReadsReply \/ UNCHANGED peerVars
    BY <2>2 DEF Says, PeerSays, ReadsReply
  <2>4. PeerQuiet'
    BY <1>0, <2>1, <2>3, RestingIsQuiet
  <2>5. ~ItemFails
    BY <1>0 DEF ItemFails, Says, SftpSays, PeerSays, ThreadsQuiet, PeerQuiet, Agreed
  <2>6. pc' \in {"item", "done"}
    BY <1>5, <2>5 DEF NextItem, EndSweep, Cancelled, Finish
  <2>7. ListStands'
    BY <2>1 DEF ListStands
  <2>8. CASE SftpNext
    BY <1>2, <2>8
  <2> QED
    BY <1>3, <2>4, <2>6, <2>7, <2>8 DEF Quiet
<1>6. ~Retry /\ ~GiveUp(TRUE) /\ ~GiveUp(FALSE) /\ ~GivenUp
  BY <1>0 DEF Retry, GiveUp, GivenUp
<1>7. CASE Sweep
  <2>1. CASE SftpNext
    BY <1>2, <2>1
  <2> QED
    BY <1>0, <1>3, <1>7, <2>1, SweepingIsQuiet DEF Quiet
<1>8. CASE PanelCalls \/ PanelAnswered
  <2>1. UNCHANGED <<peerVars, up, pc, store>> /\ (Started(panel, [kind |-> "list"]) \/ Rested(panel))
    BY <1>8, PanelIsTurn DEF Started, Rested
  <2>2. job'[mover] = job[mover] /\ step'[mover] = step[mover] /\ next'[mover] = next[mover]
    BY <1>0, <2>1 DEF Started, Rested, OthersStay
  <2>3. PeerQuiet' /\ ListStands'
    BY <1>0, <2>1, <2>2, RestingIsQuiet DEF ListStands
  <2>4. CASE SftpNext
    BY <1>2, <2>4
  <2> QED
    BY <1>0, <1>3, <2>1, <2>3, <2>4 DEF Quiet
<1> QED
  BY <1>1, <1>2, <1>4, <1>5, <1>6, <1>7, <1>8 DEF Next, Move, Decide, PeerNext, vars

\* Everything is quiet at the start.
LEMMA InitUntroubled ==
    ASSUME Assumptions, Init
    PROVE  Untroubled
BY DEF Assumptions, RemoteMoveAssumption, Init, SftpInit, PeerInit, Untroubled, Quiet, ThreadsQuiet,
       ListStands, PeerQuiet, Awaited, Fetched, Agreed, Queued, RestStands

\* Until the first fault all is quiet, in every behaviour.
LEMMA UntroubledKept == Spec => []Untroubled
<1>1. Init => Untroubled
  BY InitUntroubled, Assumed
<1>2. Basics /\ InOrder /\ Causes /\ Contents /\ Untroubled /\ [Next]_vars => Untroubled'
  BY StepKeepsUntroubled, Assumed
<1> QED
  BY <1>1, <1>2, BasicsKept, OrderKept, CausesKept, ContentsKept, PTL DEF Spec

\* Before the first fault no operation fails, and a listing does not fail for
\* one session that was closed: sharing a session and a tunnel does no harm.
THEOREM ErrorsCaused == Spec => []ErrorsHaveCause
<1>1. Basics /\ Causes /\ Untroubled => ErrorsHaveCause
  <2> SUFFICES ASSUME Basics, Causes, Untroubled, NEW u \in Users, answer[u] = "error"
               PROVE  /\ faults + peerFaults > 0
                      /\ job[u].kind = "list" => faults > cuts \/ cuts > 1
    BY DEF ErrorsHaveCause
  <2>1. faults \in Nat /\ peerFaults \in Nat
    BY Assumed DEF Basics, Fields, PeerFields, Assumptions, PeerAssumption, SftpAssumption
  <2>2. ~Calm
    BY DEF Untroubled, Quiet, ThreadsQuiet
  <2>3. faults + peerFaults > 0
    BY <2>1, <2>2 DEF Calm
  <2>4. job[u].kind = "list" => faults > cuts \/ cuts > 1
    BY DEF Causes, ListingOf, Outage
  <2> QED
    BY <2>3, <2>4
<1> QED
  BY <1>1, BasicsKept, CausesKept, UntroubledKept, PTL

===============================================================================
