--------------------------- MODULE TransferPromise ---------------------------
(***************************************************************************)
(* What a copy or a move promises about the content of the files it was    *)
(* given, whatever the two sides are and whatever fails on the way.        *)
(*                                                                         *)
(* `held' are the files the source still has in full, `given' the files    *)
(* the destination has in full.  Content is delivered one file at a time,  *)
(* a move lets go of it at the source only afterwards, and the outcome     *)
(* says which of the two sides can be relied on.                           *)
(***************************************************************************)
CONSTANTS
    Files,      \* the files of the transfer
    IsMove      \* a move removes what it delivered, a copy never does

VARIABLES held, given, outcome

promiseVars == <<held, given, outcome>>

Outcomes == {"running", "ok", "cancelled", "failed"}

PromiseInit ==
    /\ held = Files
    /\ given = {}
    /\ outcome = "running"

\* One file's content has arrived in full while the source still has it.
Deliver ==
    /\ outcome = "running"
    /\ held = Files
    /\ \E f \in Files \ given : given' = given \union {f}
    /\ UNCHANGED <<held, outcome>>

\* The source lets go of some of the files the destination already has.
Release ==
    /\ outcome = "running"
    /\ IsMove
    /\ \E gone \in SUBSET (held \intersect given) :
          held' = held \ gone
    /\ UNCHANGED <<given, outcome>>

\* Success: a move left behind exactly what it could not deliver.
Succeed ==
    /\ outcome = "running"
    /\ held = IF IsMove THEN Files \ given ELSE Files
    /\ outcome' = "ok"
    /\ UNCHANGED <<held, given>>

\* A cancelled transfer took nothing away from the source.
Cancel ==
    /\ outcome = "running"
    /\ held = Files
    /\ outcome' = "cancelled"
    /\ UNCHANGED <<held, given>>

\* The removal of the delivered files stopped half way.
Fail ==
    /\ outcome = "running"
    /\ outcome' = "failed"
    /\ UNCHANGED <<held, given>>

PromiseNext == Deliver \/ Release \/ Succeed \/ Cancel \/ Fail

Promise == PromiseInit /\ [][PromiseNext]_promiseVars

==============================================================================
