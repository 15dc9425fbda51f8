------------------------------ MODULE SharedConfig ------------------------------
(***************************************************************************)
(* The configuration file, kept in memory by every program that runs and   *)
(* saved whole by each: written to a temporary file beside it, which is    *)
(* then renamed over it.                                                   *)
(*                                                                         *)
(* A program has two threads that change it: the one of its window or of   *)
(* its server reads a value, changes it and sets it; the network's updates *)
(* one under the lock.  A configuration is the set of the changes it has,  *)
(* each to the value its thread looks after.                               *)
(***************************************************************************)
EXTENDS Naturals, Sequences

CONSTANTS
    Programs,
    Older,         \* changes in the file of older versions
    MaxChanges,     \* bound on the changes
    MaxFailures      \* bound on the writes that fail and the programs that die

Threads == {"window", "network"}
free == "free"
Before == [program |-> "before", thread |-> "window"]

ASSUME ConfigAssumption ==
    /\ "before" \notin Programs
    /\ MaxChanges \in Nat /\ MaxFailures \in Nat
    /\ Older \subseteq {0}

VARIABLES
    file, temp,     \* which file has the name, and which the temporary one; 0: none
    disk,           \* what was written to the files created, in their order
    store,          \* store[p]: the configuration in the memory of p
    running,
    lock,           \* lock[p]: the thread that has the mutex of p
    thread,         \* thread[p][t]: what it is doing
    author,         \* who made each change; change c is author[c]
    saved,          \* changes whose call has returned
    undone,         \* changes another program has saved over
    unsaved,        \* changes whose save failed
    clash,          \* two programs have saved at the same time
    failures

onDisk == <<file, temp, disk>>
inMemory == <<store, running, lock, thread>>
tally == <<author, saved, undone, unsaved, clash, failures>>
configVars == <<onDisk, inMemory, tally>>

Call(step, read, change, saves) ==
    [step |-> step, read |-> read, change |-> change, saves |-> saves, fd |-> 0]
Idle == Call("idle", {}, 0, 0)
Content(w, h) == [state |-> w, has |-> h]

Made == Len(author)
By(c) == IF c = 0 THEN Before ELSE author[c]

\* What a start would find.
Held == IF file # 0 THEN disk[file].has ELSE Older

Readable == IF file = 0 THEN FALSE ELSE disk[file].state = "whole"

Writing(p) == \E t \in Threads : thread[p][t].step \in {"fill", "rename"}

-------------------------------------------------------------------------------
(* Threads and their calls.                                                  *)

NewChange(p, t) ==
    /\ Made < MaxChanges
    /\ author' = Append(author, [program |-> p, thread |-> t])

\* get: the value, and with it what the change will be made to.
Get(p) ==
    /\ p \in running /\ lock[p] = free
    /\ thread[p]["window"] = Idle
    /\ NewChange(p, "window")
    /\ thread' = [thread EXCEPT ![p]["window"] =
           Call("read", {c \in store[p] : By(c).thread = "window"}, Made + 1, 1)]
    /\ UNCHANGED <<onDisk, store, running, lock, saved, undone, unsaved, clash, failures>>

\* set: this value and no other.
Set(p) ==
    LET w == thread[p]["window"] IN
    /\ w.step = "read" /\ lock[p] = free
    /\ store' = [store EXCEPT ![p] =
           {c \in @ : By(c).thread # "window"} \union w.read \union {w.change}]
    /\ thread' = [thread EXCEPT ![p]["window"].step = "save"]
    /\ UNCHANGED <<onDisk, running, lock, tally>>

\* update of the peers: read, changed, set and saved under the lock, and then
\* saved once more.
Update(p) ==
    /\ p \in running /\ lock[p] = free
    /\ thread[p]["network"] = Idle
    /\ NewChange(p, "network")
    /\ store' = [store EXCEPT ![p] = @ \union {Made + 1}]
    /\ lock' = [lock EXCEPT ![p] = "network"]
    /\ thread' = [thread EXCEPT ![p]["network"] =
           Call("open", {}, Made + 1, 2)]
    /\ UNCHANGED <<onDisk, running, saved, undone, unsaved, clash, failures>>

\* save: the lock first.
StartSave(p, t) ==
    /\ thread[p][t].step = "save" /\ lock[p] = free
    /\ lock' = [lock EXCEPT ![p] = t]
    /\ thread' = [thread EXCEPT ![p][t].step = "open"]
    /\ UNCHANGED <<onDisk, store, running, tally>>

\* A save is over; the call is, if it was the last.
Leave(p, t) ==
    LET w == thread[p][t] IN
    /\ lock' = [lock EXCEPT ![p] = free]
    /\ thread' = [thread EXCEPT ![p][t] =
           IF w.saves = 1 THEN Idle ELSE [w EXCEPT !.step = "save", !.saves = @ - 1]]
    /\ saved' = IF w.saves = 1 THEN saved \union {w.change} ELSE saved

-------------------------------------------------------------------------------
(* save_to_disk.                                                             *)

\* fs::write opens the temporary file, new or another program's, and empties it.
Open(p, t) ==
    /\ thread[p][t].step = "open"
    /\ LET i == IF temp = 0 THEN Len(disk) + 1 ELSE temp IN
       /\ temp' = i
       /\ disk' = IF temp = 0 THEN Append(disk, Content("empty", {}))
                  ELSE [disk EXCEPT ![i] = Content("empty", {})]
       /\ thread' = [thread EXCEPT ![p][t].step = "fill", ![p][t].fd = i]
    /\ clash' = (clash \/ \E q \in Programs \ {p} : Writing(q))
    /\ UNCHANGED <<file, store, running, lock, author, saved, undone, unsaved, failures>>

\* What is written over another program's text may end in the rest of it.
Fill(p, t) ==
    LET w == thread[p][t] IN
    /\ w.step = "fill"
    /\ \/ disk' = [disk EXCEPT ![w.fd] = Content("whole", store[p])]
       \/ /\ disk[w.fd].state # "empty"
          /\ disk' = [disk EXCEPT ![w.fd] = Content("torn", {})]
    /\ thread' = [thread EXCEPT ![p][t].step = "rename"]
    /\ UNCHANGED <<file, temp, store, running, lock, tally>>

\* Mutant of FillFails: the file is renamed all the same.
FillFailsUnnoticed(p, t) ==
    LET w == thread[p][t] IN
    /\ w.step = "fill" /\ failures < MaxFailures
    /\ failures' = failures + 1
    /\ unsaved' = unsaved \union {w.change}
    /\ disk' = [disk EXCEPT ![w.fd] = Content("torn", {})]
    /\ thread' = [thread EXCEPT ![p][t].step = "rename"]
    /\ UNCHANGED <<file, temp, store, running, lock, author, saved, undone, clash>>

\* The disk is full: what was written stays under the temporary name.
FillFails(p, t) ==
    LET w == thread[p][t] IN
    /\ w.step = "fill" /\ failures < MaxFailures
    /\ failures' = failures + 1
    /\ unsaved' = unsaved \union {w.change}
    /\ disk' = [disk EXCEPT ![w.fd] = Content("torn", {})]
    /\ Leave(p, t)
    /\ UNCHANGED <<file, temp, store, running, author, undone, clash>>

Replace(p, t) ==
    /\ thread[p][t].step = "rename" /\ temp # 0
    /\ file' = temp /\ temp' = 0
    /\ undone' = undone \union {c \in Held \ disk[temp].has : By(c).program # p}
    /\ Leave(p, t)
    /\ UNCHANGED <<disk, store, running, author, unsaved, clash, failures>>

\* Another program has renamed the file already.
ReplaceFails(p, t) ==
    /\ thread[p][t].step = "rename" /\ temp = 0
    /\ Leave(p, t)
    /\ UNCHANGED <<onDisk, store, running, author, undone, unsaved, clash, failures>>

-------------------------------------------------------------------------------
(* Programs.                                                                 *)

\* ConfigManager::new: the file; if there is none that can be read, the one of
\* older versions, saved at once if it has anything.
Start(p) ==
    /\ p \notin running
    /\ running' = running \union {p}
    /\ \/ /\ Readable
          /\ store' = [store EXCEPT ![p] = disk[file].has]
          /\ UNCHANGED <<lock, thread>>
       \/ /\ ~Readable
          /\ store' = [store EXCEPT ![p] = Older]
          /\ IF Older = {} THEN UNCHANGED <<lock, thread>>
             ELSE /\ lock' = [lock EXCEPT ![p] = "window"]
                  /\ thread' = [thread EXCEPT ![p]["window"] =
                         Call("open", {}, 0, 1)]
    /\ UNCHANGED <<onDisk, tally>>

\* The program ends, wherever it is.
Die(p) ==
    /\ p \in running /\ failures < MaxFailures
    /\ failures' = failures + 1
    /\ running' = running \ {p}
    /\ store' = [store EXCEPT ![p] = {}]
    /\ lock' = [lock EXCEPT ![p] = free]
    /\ thread' = [thread EXCEPT ![p] = [t \in Threads |-> Idle]]
    /\ UNCHANGED <<onDisk, author, saved, undone, unsaved, clash>>

-------------------------------------------------------------------------------
ConfigInit ==
    /\ file = 0 /\ temp = 0 /\ disk = <<>>
    /\ store = [p \in Programs |-> {}] /\ running = {}
    /\ lock = [p \in Programs |-> free]
    /\ thread = [p \in Programs |-> [t \in Threads |-> Idle]]
    /\ author = <<>> /\ saved = Older
    /\ undone = {} /\ unsaved = {} /\ clash = FALSE /\ failures = 0

SaveStep(p, t) ==
    \/ StartSave(p, t)
    \/ Open(p, t)
    \/ Fill(p, t) \/ FillFails(p, t)
    \/ Replace(p, t) \/ ReplaceFails(p, t)

Program(p) == Start(p) \/ Die(p) \/ Get(p) \/ Set(p) \/ Update(p) \/ \E t \in Threads : SaveStep(p, t)

ConfigNext == \E p \in Programs : Program(p)

ConfigSpec == ConfigInit /\ [][ConfigNext]_configVars

-------------------------------------------------------------------------------
(* Properties.                                                               *)

Changes == 0..MaxChanges

ConfigTypeOK ==
    /\ file \in 0..Len(disk) /\ temp \in 0..Len(disk)
    /\ \A i \in DOMAIN disk :
           /\ disk[i].state \in {"empty", "torn", "whole"}
           /\ disk[i].has \subseteq Changes
    /\ store \in [Programs -> SUBSET Changes]
    /\ running \subseteq Programs
    /\ lock \in [Programs -> Threads \union {free}]
    /\ Made <= MaxChanges
    /\ failures \in 0..MaxFailures

\* A program that dies or cannot write leaves the configuration readable, and a
\* change whose call has returned stays in it, whatever the other thread saves
\* and after any restart, until another program saves its own over it.  Two
\* programs that save at the same time write to one temporary file, and nothing
\* is certain afterwards (save_to_disk, AppConfig::set, save and update).
ConfigKept ==
    clash \/ /\ file # 0 => disk[file].state = "whole"
             /\ saved \subseteq Held \union undone \union unsaved

===============================================================================
