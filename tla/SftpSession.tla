------------------------------ MODULE SftpSession ------------------------------
(***************************************************************************)
(* An SFTP file system: the cached session all its operations share, the   *)
(* SSH tunnel it is reached through, and the second attempt of an          *)
(* operation that failed.                                                  *)
(*                                                                         *)
(* Every operation runs on a blocking thread.  Three mutexes order the     *)
(* threads: the one of the cached session, held for a whole attempt; the   *)
(* one of the tunnel's slot; and one per tunnel around its SSH session,    *)
(* which the forwarder of each new connection holds while it opens its     *)
(* channel.  A step that takes and releases a mutex without waiting for    *)
(* anything else in between is one action.                                 *)
(*                                                                         *)
(* The server and libssh2 are external: a tunnel's link dies, the server   *)
(* closes a session, a request is refused.  Whether a dead link clears the *)
(* flag authenticated() returns is up to the library.                      *)
(***************************************************************************)
EXTENDS Naturals, Sequences

CONSTANTS
    Users,          \* threads that use this file system, one operation each
    Files,          \* the files on the server
    nobody,         \* a mutex that is free
    MaxTunnels,     \* bound on the tunnels built
    MaxFaults       \* bound on the faults of one behaviour

ASSUME SftpAssumption ==
    /\ nobody \notin Users
    /\ MaxTunnels \in Nat \ {0}
    /\ MaxFaults \in Nat

VARIABLES
    session,        \* sftp_session: the tunnel it goes through, 0 for None
    closed,         \* the server has closed that session
    sessionLock,    \* who holds the mutex of sftp_session
    tunnel,         \* the slot of the tunnel, 0 for None
    tunnelLock,     \* who holds its mutex across a wait
    built,          \* tunnels built so far, all still listening
    link, auth,     \* link[t], auth[t]: its TCP link lives, authenticated()
    sshLock,        \* sshLock[t]: whose forwarder holds the SSH session of t
    forwarder,      \* forwarder[u]: the forwarder of the connection u opens
    job, step,      \* the operation of u and the point it has reached
    attempts, port, \* its failed attempts and the tunnel it connects through
    next,           \* the position in its list of paths
    answer,         \* what it returned, until the caller takes it
    store,          \* store[f]: what the server holds under f
    cuts, faults    \* sessions the server closed, and all faults

mutexes == <<sessionLock, tunnelLock, sshLock>>
tunnels == <<tunnel, built, link, auth>>
thread == <<job, step, attempts, port, next, answer>>
sftpVars == <<session, closed, mutexes, tunnels, forwarder, thread, store, cuts, faults>>

NoJob == [kind |-> "none"]
Live(t) == t # 0 /\ link[t]
SessionLive == Live(session) /\ ~closed

\* Reading opens a connection of its own; writing resolves the tunnel under
\* the session's mutex and only to reconnect; the rest resolve it first.
Shared(u) == job[u].kind # "read"

Goto(u, s) == step' = [step EXCEPT ![u] = s]

Fault == faults < MaxFaults /\ faults' = faults + 1

-------------------------------------------------------------------------------
(* An operation begins and returns.  Listing stands for what may be done     *)
(* twice, deleting for what fails when it was done before, as do making a    *)
(* folder and renaming.                                                      *)

Call(u, j) ==
    /\ step[u] = "idle"
    /\ job' = [job EXCEPT ![u] = j]
    /\ attempts' = [attempts EXCEPT ![u] = 0]
    /\ next' = [next EXCEPT ![u] = 1]
    /\ Goto(u, IF j.kind = "write" THEN "enter" ELSE "resolve")
    /\ UNCHANGED <<session, closed, mutexes, tunnels, forwarder, port, answer, store, cuts, faults>>

\* The guard of the session's mutex is dropped with the operation.
Return(u, a) ==
    /\ Goto(u, "returned")
    /\ answer' = [answer EXCEPT ![u] = a]
    /\ sessionLock' = IF sessionLock = u THEN nobody ELSE sessionLock

\* The caller takes the answer.
Taken(u) ==
    /\ step' = [step EXCEPT ![u] = "idle"]
    /\ job' = [job EXCEPT ![u] = NoJob]
    /\ attempts' = [attempts EXCEPT ![u] = 0]
    /\ port' = [port EXCEPT ![u] = 0]
    /\ next' = [next EXCEPT ![u] = 1]
    /\ answer' = [answer EXCEPT ![u] = "none"]
    /\ UNCHANGED <<session, closed, mutexes, tunnels, forwarder, store, cuts, faults>>

-------------------------------------------------------------------------------
(* ensure_tunnel_helper.                                                     *)

\* connect_sftp: the listener of the tunnel accepts at once.
Dial(u) ==
    /\ Goto(u, "handshake")
    /\ forwarder' = [forwarder EXCEPT ![u] = "accepted"]

AfterPort(u) ==
    IF job[u].kind \in {"read", "write"} THEN Dial(u) ELSE Goto(u, "enter") /\ UNCHANGED forwarder

\* The slot is looked at; the tunnel in it is asked under the same locking.
LookForTunnel(u) ==
    /\ step[u] = "resolve" /\ tunnelLock = nobody
    /\ IF tunnel = 0
       THEN Goto(u, "clear") /\ UNCHANGED tunnelLock
       ELSE Goto(u, "peek") /\ tunnelLock' = u
    /\ UNCHANGED <<session, closed, sessionLock, sshLock, tunnels, forwarder, job, attempts, port,
                   next, answer, store, cuts, faults>>

AskTunnel(u) ==
    /\ step[u] = "peek" /\ sshLock[tunnel] = nobody
    /\ tunnelLock' = nobody
    /\ IF auth[tunnel]
       THEN port' = [port EXCEPT ![u] = tunnel] /\ AfterPort(u)
       ELSE Goto(u, "clear") /\ UNCHANGED <<port, forwarder>>
    /\ UNCHANGED <<session, closed, sessionLock, sshLock, tunnels, job, attempts, next, answer,
                   store, cuts, faults>>

\* A second locking empties the slot, whatever it holds by now.
ClearTunnel(u) ==
    /\ step[u] = "clear" /\ tunnelLock = nobody
    /\ tunnel' = 0
    /\ Goto(u, "build")
    /\ UNCHANGED <<session, closed, mutexes, built, link, auth, forwarder, job, attempts, port,
                   next, answer, store, cuts, faults>>

\* The new tunnel is nobody else's until it is in the slot, which is where
\* this step happens; it may replace one that was stored in the meantime.
BuildTunnel(u) ==
    /\ step[u] = "build" /\ tunnelLock = nobody
    /\ built < MaxTunnels
    /\ built' = built + 1
    /\ link' = [link EXCEPT ![built + 1] = TRUE]
    /\ auth' = [auth EXCEPT ![built + 1] = TRUE]
    /\ port' = [port EXCEPT ![u] = built + 1]
    /\ tunnel' = built + 1
    /\ AfterPort(u)
    /\ UNCHANGED <<session, closed, mutexes, job, attempts, next, answer, store, cuts, faults>>

\* The jump host cannot be reached: no second attempt.
BuildFails(u) ==
    /\ step[u] = "build"
    /\ Fault
    /\ Return(u, "error")
    /\ UNCHANGED <<session, closed, tunnelLock, sshLock, tunnels, forwarder, job, attempts, port,
                   next, store, cuts>>

-------------------------------------------------------------------------------
(* The forwarder of a connection to the tunnel's local port.                 *)

TakeSsh(u) ==
    /\ forwarder[u] = "accepted" /\ sshLock[port[u]] = nobody
    /\ sshLock' = [sshLock EXCEPT ![port[u]] = u]
    /\ forwarder' = [forwarder EXCEPT ![u] = "opening"]
    /\ UNCHANGED <<session, closed, sessionLock, tunnelLock, tunnels, thread, store, cuts, faults>>

\* Mutant of ReleaseSsh: the session stays locked while the slot is cleared.
KeepSsh(u, clearing) ==
    IF clearing THEN UNCHANGED sshLock ELSE sshLock' = [sshLock EXCEPT ![port[u]] = nobody]

\* The lock on the session is dropped, also before the slot is cleared.
ReleaseSsh(u, clearing) == sshLock' = [sshLock EXCEPT ![port[u]] = nobody]

OpenChannel(u) ==
    /\ forwarder[u] = "opening"
    /\ LET clearing == ~link[port[u]] /\ ~auth[port[u]]
       IN  /\ ReleaseSsh(u, clearing)
           /\ forwarder' = [forwarder EXCEPT ![u] =
                  IF link[port[u]] THEN "open" ELSE IF clearing THEN "clearing" ELSE "failed"]
    /\ UNCHANGED <<session, closed, sessionLock, tunnelLock, tunnels, thread, store, cuts, faults>>

\* The slot is emptied, whichever tunnel it holds by now.
ClearSlot(u) ==
    /\ forwarder[u] = "clearing" /\ tunnelLock = nobody
    /\ tunnel' = 0
    /\ forwarder' = [forwarder EXCEPT ![u] = "failed"]
    /\ sshLock' = [t \in DOMAIN sshLock |-> IF sshLock[t] = u THEN nobody ELSE sshLock[t]]
    /\ UNCHANGED <<session, closed, sessionLock, tunnelLock, built, link, auth, thread, store,
                   cuts, faults>>

Forward(u) == TakeSsh(u) \/ OpenChannel(u) \/ ClearSlot(u)

-------------------------------------------------------------------------------
(* with_sftp_session and the loop of write_file.                             *)

\* What an attempt does first once it has the mutex and no session.
Reconnect(u) ==
    IF job[u].kind = "write" THEN Goto(u, "resolve") /\ UNCHANGED forwarder ELSE Dial(u)

\* is_alive: a session that does not answer is dropped and replaced.
Enter(u) ==
    /\ step[u] = "enter" /\ sessionLock = nobody
    /\ sessionLock' = u
    /\ IF SessionLive
       THEN Goto(u, "run") /\ UNCHANGED <<session, closed, forwarder>>
       ELSE Reconnect(u) /\ session' = 0 /\ closed' = FALSE
    /\ UNCHANGED <<tunnelLock, sshLock, tunnels, job, attempts, port, next, answer, store, cuts,
                   faults>>

Connected(u) ==
    /\ step[u] = "handshake" /\ forwarder[u] = "open" /\ link[port[u]]
    /\ forwarder' = [forwarder EXCEPT ![u] = "none"]
    /\ IF Shared(u)
       THEN session' = port[u] /\ closed' = FALSE
       ELSE UNCHANGED <<session, closed>>
    /\ Goto(u, "run")
    /\ UNCHANGED <<mutexes, tunnels, job, attempts, port, next, answer, store, cuts, faults>>

\* A connection that cannot be made ends the operation at once.
NotConnected(u) ==
    /\ step[u] = "handshake"
    /\ forwarder[u] = "failed" \/ (forwarder[u] = "open" /\ ~link[port[u]])
    /\ forwarder' = [forwarder EXCEPT ![u] = "none"]
    /\ Return(u, "error")
    /\ UNCHANGED <<session, closed, tunnelLock, sshLock, tunnels, job, attempts, port, next, store,
                   cuts, faults>>

\* Mutant of Again: there is no second attempt.
AgainNever(u) == Return(u, "error") /\ UNCHANGED <<attempts, next, session, closed>>

\* Mutant of Again: the error of the second attempt is swallowed.
AgainForgiving(u) ==
    IF attempts[u] = 0
    THEN /\ attempts' = [attempts EXCEPT ![u] = 1]
         /\ next' = [next EXCEPT ![u] = 1]
         /\ session' = 0 /\ closed' = FALSE
         /\ sessionLock' = nobody
         /\ Goto(u, "enter")
         /\ UNCHANGED answer
    ELSE Return(u, "ok") /\ UNCHANGED <<attempts, next, session, closed>>

\* A failed attempt: the session is dropped and its mutex released, and the
\* whole operation is run once more; over the same port, unless it writes.
Again(u) ==
    IF attempts[u] = 0
    THEN /\ attempts' = [attempts EXCEPT ![u] = 1]
         /\ next' = [next EXCEPT ![u] = 1]
         /\ session' = 0 /\ closed' = FALSE
         /\ sessionLock' = nobody
         /\ Goto(u, "enter")
         /\ UNCHANGED answer
    ELSE Return(u, "error") /\ UNCHANGED <<attempts, next, session, closed>>

Ended(u) == Return(u, "ok") /\ UNCHANGED <<attempts, next, session, closed>>

Running(u, kind) == step[u] = "run" /\ job[u].kind = kind

Others == <<tunnelLock, sshLock, tunnels, forwarder, job, port, cuts>>

\* The request does not get through, or the server refuses it.
AttemptFails(u) ==
    /\ step[u] = "run" /\ Shared(u)
    /\ (~SessionLive /\ UNCHANGED faults) \/ (SessionLive /\ Fault)
    /\ Again(u)
    /\ UNCHANGED <<Others, store>>

List(u) ==
    /\ Running(u, "list") /\ SessionLive
    /\ Ended(u)
    /\ UNCHANGED <<Others, store, faults>>

\* One path of the list; the first that is not there fails the attempt.
Delete(u) ==
    /\ Running(u, "delete") /\ SessionLive
    /\ LET f == job[u].paths[next[u]]
       IN  /\ store' = [store EXCEPT ![f] = "none"]
           /\ IF store[f] = "none" THEN Again(u)
              ELSE IF next[u] = Len(job[u].paths) THEN Ended(u)
              ELSE /\ next' = [next EXCEPT ![u] = @ + 1]
                   /\ UNCHANGED <<step, answer, attempts, session, closed, sessionLock>>
    /\ UNCHANGED <<Others, faults>>

\* The server does it and closes the session before it has answered.
AnswerLost(u) ==
    /\ Running(u, "delete") /\ SessionLive
    /\ store' = [store EXCEPT ![job[u].paths[next[u]]] = "none"]
    /\ Fault
    /\ cuts' = cuts + 1
    /\ closed' = TRUE
    /\ UNCHANGED <<session, mutexes, tunnels, forwarder, thread>>

\* The file is created, which truncates it; from here nothing is tried again.
Create(u) ==
    /\ Running(u, "write") /\ SessionLive
    /\ store' = [store EXCEPT ![job[u].file] = "part"]
    /\ Goto(u, "fill")
    /\ UNCHANGED <<session, closed, sessionLock, attempts, next, answer, Others, faults>>

Fill(u) ==
    /\ step[u] = "fill"
    /\ IF SessionLive
       THEN store' = [store EXCEPT ![job[u].file] = "full"] /\ Ended(u)
       ELSE /\ \/ UNCHANGED store
               \/ store' = [store EXCEPT ![job[u].file] = "full"]
            /\ Return(u, "error")
            /\ UNCHANGED <<attempts, next, session, closed>>
    /\ UNCHANGED <<Others, faults>>

\* read_file: the whole content, or an error; never tried again.
Read(u) ==
    /\ Running(u, "read")
    /\ \/ /\ Live(port[u]) /\ store[job[u].file] # "none"
          /\ Return(u, "ok")
          /\ UNCHANGED faults
       \/ /\ (Live(port[u]) /\ store[job[u].file] # "none") => Fault
          /\ ~(Live(port[u]) /\ store[job[u].file] # "none") => UNCHANGED faults
          /\ Return(u, "error")
    /\ UNCHANGED <<attempts, next, session, closed, Others, store>>

Operate(u) ==
    \/ LookForTunnel(u) \/ AskTunnel(u) \/ ClearTunnel(u)
    \/ BuildTunnel(u) \/ BuildFails(u)
    \/ Enter(u) \/ Connected(u) \/ NotConnected(u)
    \/ AttemptFails(u) \/ AnswerLost(u)
    \/ List(u) \/ Delete(u) \/ Create(u) \/ Fill(u) \/ Read(u)

-------------------------------------------------------------------------------
(* Faults.                                                                   *)

LinkDies ==
    /\ Fault
    /\ \E t \in 1..built :
           /\ link[t]
           /\ link' = [link EXCEPT ![t] = FALSE]
           /\ \E flag \in BOOLEAN : auth' = [auth EXCEPT ![t] = flag]
    /\ UNCHANGED <<session, closed, mutexes, tunnel, built, forwarder, thread, store, cuts>>

SessionCloses ==
    /\ SessionLive
    /\ Fault
    /\ cuts' = cuts + 1
    /\ closed' = TRUE
    /\ UNCHANGED <<session, mutexes, tunnels, forwarder, thread, store>>

-------------------------------------------------------------------------------
SftpInit ==
    /\ session = 0 /\ closed = FALSE
    /\ sessionLock = nobody /\ tunnelLock = nobody
    /\ tunnel = 0 /\ built = 0
    /\ link = [t \in 1..MaxTunnels |-> FALSE]
    /\ auth = [t \in 1..MaxTunnels |-> FALSE]
    /\ sshLock = [t \in 1..MaxTunnels |-> nobody]
    /\ forwarder = [u \in Users |-> "none"]
    /\ job = [u \in Users |-> NoJob]
    /\ step = [u \in Users |-> "idle"]
    /\ attempts = [u \in Users |-> 0]
    /\ port = [u \in Users |-> 0]
    /\ next = [u \in Users |-> 1]
    /\ answer = [u \in Users |-> "none"]
    /\ cuts = 0 /\ faults = 0

SftpStep == (\E u \in Users : Operate(u) \/ Forward(u)) \/ LinkDies \/ SessionCloses

SftpTypeOK ==
    /\ {session, tunnel, built} \subseteq 0..MaxTunnels
    /\ closed \in BOOLEAN
    /\ {sessionLock, tunnelLock} \subseteq Users \union {nobody}
    /\ link \in [1..MaxTunnels -> BOOLEAN]
    /\ auth \in [1..MaxTunnels -> BOOLEAN]
    /\ sshLock \in [1..MaxTunnels -> Users \union {nobody}]
    /\ forwarder \in [Users -> {"none", "accepted", "opening", "open", "clearing", "failed"}]
    /\ step \in [Users -> {"idle", "resolve", "peek", "clear", "build", "enter", "handshake",
                           "run", "fill", "returned"}]
    /\ attempts \in [Users -> 0..1]
    /\ port \in [Users -> 0..MaxTunnels]
    /\ answer \in [Users -> {"none", "ok", "error"}]
    /\ store \in [Files -> {"none", "part", "full"}]
    /\ cuts <= faults /\ faults \in 0..MaxFaults

===============================================================================
