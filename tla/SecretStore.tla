------------------------------- MODULE SecretStore ----------------------------
(***************************************************************************)
(* Saved passwords at rest: the data key (DEK) of secret-store, the        *)
(* keyring file it is wrapped in, the salt file the machine key is derived *)
(* from, and the stored secrets of the saved connections.  Saving          *)
(* passwords stays switched on: switching it off empties every stored      *)
(* secret at once.                                                         *)
(*                                                                         *)
(* Every process keeps the DEK in memory once it has it.  The two files    *)
(* are shared and are written in place: a write truncates the file and     *)
(* then fills it, so another process, or the next run after a crash, can   *)
(* find it empty.  A file that cannot be read and one that is empty are    *)
(* the same to the code.                                                   *)
(*                                                                         *)
(* Keys are numbers: a machine key is the salt it is derived from, a       *)
(* password key is the password.  Sealing is abstracted to remembering the *)
(* key: what was sealed under a key opens with that key and with no other. *)
(***************************************************************************)
EXTENDS Naturals, FiniteSets

CONSTANTS
    Procs,          \* processes of this user: the desktop app, the web server
    Secrets,        \* the stored connection secrets
    NPasswords,     \* master passwords are 1..NPasswords
    MaxSalts, MaxDeks, MaxOps,  \* bounds on fresh values and on operations
    Interrupts,     \* processes may die in the middle of an operation
    WriteErrors     \* writing a file may fail

ASSUME SecretStoreAssumption ==
    /\ {NPasswords, MaxSalts, MaxDeks, MaxOps} \subseteq Nat \ {0}
    /\ {Interrupts, WriteErrors} \subseteq BOOLEAN

VARIABLES
    salt,           \* the salt file: a salt, or 0 when unusable
    ring,           \* the keyring file
    conf,           \* conf[s]: the stored form of secret s
    salts, deks,    \* fresh values handed out so far
    pc, op,         \* what each process does and where it is
    mkey,           \* the machine key it has derived
    next,           \* the keyring it is about to write
    slot,           \* the DEK it has in memory, or 0
    ops,            \* operations so far
    mishaps         \* what has gone wrong with the files so far

files == <<salt, ring>>
vars == <<files, conf, salts, deks, pc, op, mkey, next, slot, ops, mishaps>>

Passwords == 1..NPasswords
NoRing == [by |-> "none", key |-> 0, dek |-> 0]
MachineRing(k, d) == [by |-> "machine", key |-> k, dek |-> d]
PasswordRing(w, d) == [by |-> "password", key |-> w, dek |-> d]

Empty == [kind |-> "empty", key |-> 0]
Legacy(k) == [kind |-> "v1", key |-> k]
Sealed(d) == [kind |-> "v2", key |-> d]

NoOp == [kind |-> "none", arg |-> 0]
Ops ==
    [kind : {"open"}, arg : {0}] \union
    [kind : {"seal"}, arg : Secrets] \union
    [kind : {"unlock", "set", "clear"}, arg : Passwords]

Goto(p, l) == pc' = [pc EXCEPT ![p] = l]

\* The operation is over; its locals are forgotten, the slot is not.
Return(p) ==
    /\ Goto(p, "idle")
    /\ op' = [op EXCEPT ![p] = NoOp]
    /\ mkey' = [mkey EXCEPT ![p] = 0]
    /\ next' = [next EXCEPT ![p] = NoRing]

\* The keyring file is empty at this point of the operation.
Torn(p) == IF pc[p] = "ring_fill" THEN {"ring_torn"} ELSE {}

-------------------------------------------------------------------------------
(* Starting an operation.                                                    *)

\* A locked store under a password asks for it; the settings row sets or removes the
\* password as it stood when the page was built, whatever the keyring is by then: a
\* keyring under a password may be given another one.
Offered(p, o) == o.kind = "unlock" => ring.by = "password" /\ slot[p] = 0

\* dek() uses the slot, or starts machine_dek() at the machine key; setting a
\* password first upgrades the legacy secrets, which the machine key opens.
Begin(p) ==
    /\ pc[p] = "idle"
    /\ ops < MaxOps
    /\ ops' = ops + 1
    /\ \E o \in Ops :
       /\ Offered(p, o)
       /\ op' = [op EXCEPT ![p] = o]
       /\ Goto(p, CASE o.kind \in {"unlock", "clear"} -> "check"
                    [] o.kind = "set" /\ (\E s \in Secrets : conf[s].kind = "v1") -> "salt"
                    [] OTHER -> IF slot[p] = 0 THEN "salt" ELSE "use")
    /\ UNCHANGED <<files, conf, salts, deks, mkey, next, slot, mishaps>>

\* unlock_with_password, alone or before removing the password.
Check(p) ==
    /\ pc[p] = "check"
    /\ IF ring = PasswordRing(op[p].arg, ring.dek)
       THEN /\ slot' = [slot EXCEPT ![p] = ring.dek]
            /\ IF op[p].kind = "clear"
               THEN Goto(p, "salt") /\ UNCHANGED <<op, mkey, next>>
               ELSE Return(p)
       ELSE Return(p) /\ UNCHANGED slot
    /\ UNCHANGED <<files, conf, salts, deks, ops, mishaps>>

-------------------------------------------------------------------------------
(* machine_key: the salt file is read, or made anew when it is unusable.     *)

\* Where an operation goes once it has the machine key.
AfterKey(p) == IF slot[p] = 0 THEN "ring" ELSE "use"

\* Mutant of ReadSalt: a fresh salt replaces the one on file.
ReadSaltFresh(p) ==
    /\ pc[p] = "salt"
    /\ salts < MaxSalts
    /\ salts' = salts + 1
    /\ mkey' = [mkey EXCEPT ![p] = salts + 1]
    /\ Goto(p, "salt_truncate")
    /\ UNCHANGED <<files, conf, deks, op, next, slot, ops, mishaps>>

ReadSalt(p) ==
    /\ pc[p] = "salt"
    /\ IF salt # 0
       THEN /\ mkey' = [mkey EXCEPT ![p] = salt]
            /\ Goto(p, AfterKey(p))
            /\ UNCHANGED salts
       ELSE /\ salts < MaxSalts
            /\ salts' = salts + 1
            /\ mkey' = [mkey EXCEPT ![p] = salts + 1]
            /\ Goto(p, "salt_truncate")
    /\ UNCHANGED <<files, conf, deks, op, next, slot, ops, mishaps>>

TruncateSalt(p) ==
    /\ pc[p] = "salt_truncate"
    /\ salt' = 0
    /\ Goto(p, "salt_fill")
    /\ UNCHANGED <<ring, conf, salts, deks, op, mkey, next, slot, ops, mishaps>>

FillSalt(p) ==
    /\ pc[p] = "salt_fill"
    /\ salt' = mkey[p]
    /\ Goto(p, AfterKey(p))
    /\ UNCHANGED <<ring, conf, salts, deks, op, mkey, next, slot, ops, mishaps>>

\* A salt that could not be written is used all the same.
SaltNotWritten(p) ==
    /\ WriteErrors
    /\ pc[p] \in {"salt_truncate", "salt_fill"}
    /\ Goto(p, AfterKey(p))
    /\ mishaps' = mishaps \union {"salt_unsaved"}
    /\ UNCHANGED <<files, conf, salts, deks, op, mkey, next, slot, ops>>

-------------------------------------------------------------------------------
(* machine_dek: the keyring is opened with the machine key, or made anew     *)
(* when it is unusable.                                                      *)

\* Mutant of OpenRing: a keyring the machine key does not open is replaced.
OpenRingOrReplace(p) ==
    /\ pc[p] = "ring"
    /\ IF ring = MachineRing(mkey[p], ring.dek)
       THEN /\ slot' = [slot EXCEPT ![p] = ring.dek]
            /\ Goto(p, "use")
            /\ UNCHANGED <<deks, next>>
       ELSE /\ deks < MaxDeks
            /\ deks' = deks + 1
            /\ next' = [next EXCEPT ![p] = MachineRing(mkey[p], deks + 1)]
            /\ Goto(p, "ring_truncate")
            /\ UNCHANGED slot
    /\ UNCHANGED <<files, conf, salts, op, mkey, ops, mishaps>>

OpenRing(p) ==
    /\ pc[p] = "ring"
    /\ IF ring.by = "none"
       THEN /\ deks < MaxDeks
            /\ deks' = deks + 1
            /\ next' = [next EXCEPT ![p] = MachineRing(mkey[p], deks + 1)]
            /\ Goto(p, "ring_truncate")
            /\ UNCHANGED slot
       ELSE /\ IF ring = MachineRing(mkey[p], ring.dek)
               THEN slot' = [slot EXCEPT ![p] = ring.dek] /\ Goto(p, "use")
               ELSE Goto(p, "refused") /\ UNCHANGED slot
            /\ UNCHANGED <<deks, next>>
    /\ UNCHANGED <<files, conf, salts, op, mkey, ops, mishaps>>

\* Mutant of TruncateRing: half of the old keyring stays in the file.
TruncateRingPart(p) ==
    /\ pc[p] = "ring_truncate"
    /\ ring' = [ring EXCEPT !.key = 0]
    /\ Goto(p, "ring_fill")
    /\ UNCHANGED <<salt, conf, salts, deks, op, mkey, next, slot, ops, mishaps>>

\* write_keyring
TruncateRing(p) ==
    /\ pc[p] = "ring_truncate"
    /\ ring' = NoRing
    /\ Goto(p, "ring_fill")
    /\ UNCHANGED <<salt, conf, salts, deks, op, mkey, next, slot, ops, mishaps>>

\* The new DEK goes to the slot and is used; a re-wrapped one was there before.
FillRing(p) ==
    /\ pc[p] = "ring_fill"
    /\ ring' = next[p]
    /\ IF slot[p] = 0
       THEN /\ slot' = [slot EXCEPT ![p] = next[p].dek]
            /\ Goto(p, "use")
            /\ UNCHANGED <<op, mkey, next>>
       ELSE Return(p) /\ UNCHANGED slot
    /\ UNCHANGED <<salt, conf, salts, deks, ops, mishaps>>

\* Mutant of RingNotWritten: the DEK is used although it is not on file.
RingNotWrittenUsed(p) ==
    /\ WriteErrors
    /\ pc[p] \in {"ring_truncate", "ring_fill"}
    /\ slot' = [slot EXCEPT ![p] = next[p].dek]
    /\ Goto(p, "use")
    /\ UNCHANGED <<files, conf, salts, deks, op, mkey, next, ops, mishaps>>

RingNotWritten(p) ==
    /\ WriteErrors
    /\ pc[p] \in {"ring_truncate", "ring_fill"}
    /\ IF slot[p] = 0
       THEN Goto(p, "refused") /\ UNCHANGED <<op, mkey, next>>
       ELSE Return(p)
    /\ mishaps' = mishaps \union {"ring_unsaved"} \union Torn(p)
    /\ UNCHANGED <<files, conf, salts, deks, slot, ops>>

-------------------------------------------------------------------------------
(* What the operation does with the DEK, or without it.                      *)

\* The legacy secrets the machine key opens are sealed again, or become empty
\* when there is no DEK to seal them with; the others stay as they are.
Upgraded(p, form) ==
    [s \in Secrets |-> IF conf[s] = Legacy(mkey[p]) THEN form ELSE conf[s]]

\* Mutant of Use: the legacy secrets are dropped and not sealed again.
UseDropping(p) ==
    /\ pc[p] = "use"
    /\ op[p].kind = "set"
    /\ conf' = Upgraded(p, Empty)
    /\ next' = [next EXCEPT ![p] = PasswordRing(op[p].arg, slot[p])]
    /\ Goto(p, "ring_truncate")
    /\ UNCHANGED <<files, salts, deks, op, mkey, slot, ops, mishaps>>

Use(p) ==
    /\ pc[p] = "use"
    /\ \/ /\ op[p].kind = "open"
          /\ Return(p)
          /\ UNCHANGED conf
       \/ /\ op[p].kind = "seal"
          /\ conf' = [conf EXCEPT ![op[p].arg] = Sealed(slot[p])]
          /\ Return(p)
       \/ /\ op[p].kind = "set"
          /\ conf' = Upgraded(p, Sealed(slot[p]))
          /\ next' = [next EXCEPT ![p] = PasswordRing(op[p].arg, slot[p])]
          /\ Goto(p, "ring_truncate")
          /\ UNCHANGED <<op, mkey>>
       \/ /\ op[p].kind = "clear"
          /\ next' = [next EXCEPT ![p] = MachineRing(mkey[p], slot[p])]
          /\ Goto(p, "ring_truncate")
          /\ UNCHANGED <<conf, op, mkey>>
    /\ UNCHANGED <<files, salts, deks, slot, ops, mishaps>>

\* No DEK: a typed secret is dropped, a password is not set.
Refused(p) ==
    /\ pc[p] = "refused"
    /\ conf' = CASE op[p].kind = "seal" -> [conf EXCEPT ![op[p].arg] = Empty]
                 [] op[p].kind = "set" -> Upgraded(p, Empty)
                 [] OTHER -> conf
    /\ Return(p)
    /\ UNCHANGED <<files, salts, deks, slot, ops, mishaps>>

\* The process ends, at rest or in the middle of something, and starts again.
Restart(p) ==
    /\ pc[p] # "idle" => Interrupts
    /\ ops < MaxOps
    /\ ops' = ops + 1
    /\ slot' = [slot EXCEPT ![p] = 0]
    /\ Return(p)
    /\ mishaps' = mishaps \union Torn(p)
    /\ UNCHANGED <<files, conf, salts, deks>>

-------------------------------------------------------------------------------
\* Nothing installed yet, or an installation whose secrets are still legacy.
Init ==
    /\ \/ salt = 0 /\ conf = [s \in Secrets |-> Empty]
       \/ salt = 1 /\ conf \in [Secrets -> {Empty, Legacy(1)}]
    /\ ring = NoRing
    /\ salts = 1
    /\ deks = 0
    /\ pc = [p \in Procs |-> "idle"]
    /\ op = [p \in Procs |-> NoOp]
    /\ mkey = [p \in Procs |-> 0]
    /\ next = [p \in Procs |-> NoRing]
    /\ slot = [p \in Procs |-> 0]
    /\ ops = 0
    /\ mishaps = {}

Step(p) ==
    \/ Check(p)
    \/ ReadSalt(p) \/ TruncateSalt(p) \/ FillSalt(p) \/ SaltNotWritten(p)
    \/ OpenRing(p) \/ TruncateRing(p) \/ FillRing(p) \/ RingNotWritten(p)
    \/ Use(p) \/ Refused(p)

Next == \E p \in Procs : Begin(p) \/ Step(p) \/ Restart(p)

Spec == Init /\ [][Next]_vars

-------------------------------------------------------------------------------
Rings == {NoRing} \union [by : {"machine"}, key : 1..MaxSalts, dek : 1..MaxDeks]
                  \union [by : {"password"}, key : Passwords, dek : 1..MaxDeks]

TypeOK ==
    /\ salt \in 0..MaxSalts
    /\ ring \in Rings
    /\ conf \in [Secrets -> {Empty} \union [kind : {"v1"}, key : 1..MaxSalts]
                                    \union [kind : {"v2"}, key : 1..MaxDeks]]
    /\ salts \in 0..MaxSalts
    /\ deks \in 0..MaxDeks
    /\ op \in [Procs -> {NoOp} \union Ops]
    /\ mkey \in [Procs -> 0..MaxSalts]
    /\ next \in [Procs -> Rings]
    /\ slot \in [Procs -> 0..MaxDeks]
    /\ ops \in 0..MaxOps
    /\ mishaps \subseteq {"salt_unsaved", "ring_unsaved", "ring_torn"}

\* The files alone give back the DEK to a new process that has the password,
\* if one is set.
Recoverable(d) ==
    /\ ring.dek = d
    /\ ring.by = "password" \/ ring = MachineRing(salt, d)

\* Every stored secret can be opened after the next start: under whatever
\* sequence of restarts, sealing, setting, changing and removing passwords,
\* the keyring on file still wraps the DEK the secrets were sealed under, and
\* the salt on file is still the one that opens it.
SecretsReadable ==
    (\A p \in Procs : pc[p] = "idle") =>
        \A s \in Secrets :
            /\ conf[s].kind = "v2" => Recoverable(conf[s].key)
            /\ conf[s].kind = "v1" => conf[s].key = salt

\* Nothing but a keyring cut short while it is written, or a salt that could not be
\* saved, makes a stored secret unreadable: a process may die anywhere else, in the
\* middle of a salt, a password change or an upgrade, and any other write may fail.
ReadableUnlessTorn == mishaps \subseteq {"ring_unsaved"} => SecretsReadable

\* A stored secret is only given up when the user types that one again, unless the
\* keyring it was to be sealed under could not be written.
SecretsKept ==
    [][\A s \in Secrets :
         conf[s] # Empty /\ conf'[s] = Empty =>
            \/ \E p \in Procs : op[p] = [kind |-> "seal", arg |-> s]
            \/ "ring_unsaved" \in mishaps]_vars

\* A process takes a DEK into memory only while the keyring file holds that
\* DEK: one whose keyring could not be written is not used to seal anything.
DekFromFile ==
    [][\A p \in Procs :
         slot'[p] \notin {0, slot[p]} => ring'.dek = slot'[p]]_vars

\* A keyring under a password is replaced only by a process that has in memory the very
\* DEK it wraps, and by one that wraps this DEK again; back to the machine key only for
\* someone who gave the password.  Whatever crashes and failed writes came before, a
\* locked store, or a machine key that does not open the keyring, is no reason to make
\* a new one (machine_dek, set_master_password, prompt_clear).
PasswordGuards ==
    [][ring.by = "password" /\ ring' # ring =>
         \E p \in Procs :
             /\ op[p].kind = "set" \/ op[p] = [kind |-> "clear", arg |-> ring.key]
             /\ slot[p] = ring.dek /\ next[p].dek = ring.dek]_vars

\* A process that has the DEK has the one on file, as long as no keyring was cut short:
\* two answers to "what is the key" never exist side by side.
OneDek ==
    \A p \in Procs :
        slot[p] # 0 /\ "ring_torn" \notin mishaps =>
            ring.dek = slot[p] \/ (pc[p] = "ring_fill" /\ next[p].dek = slot[p])

===============================================================================
