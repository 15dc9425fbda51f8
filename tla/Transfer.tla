------------------------------- MODULE Transfer -------------------------------
(***************************************************************************)
(* One copy or move of a scanned list of items: execute_transfer of        *)
(* transfer-core, with the error dialog and the Cancel button of           *)
(* run_transfer_with_progress around it.                                   *)
(*                                                                         *)
(* The worker walks the items in scan order (a folder before what it       *)
(* holds), copies one at a time, asks the user about each failure, and at  *)
(* the end of a move deletes from the source, children first, everything   *)
(* that was not skipped.  Two branches: between two local sides a blocking *)
(* thread copies buffer by buffer; otherwise a file is read whole through  *)
(* one provider and written whole through the other.                       *)
(*                                                                         *)
(* File content is abstracted to what the properties tell apart: a         *)
(* destination entry is absent, old (there before), partial (created by    *)
(* this transfer and not known to be complete) or new (complete).          *)
(***************************************************************************)
EXTENDS Naturals, FiniteSets

CONSTANTS
    N,          \* number of scanned items; item i is the i-th of the list
    Dirs,       \* the items that are folders
    Above,      \* Above[i]: the scanned folders that item i lies in
    Blocks,     \* Blocks[f]: how many buffers it takes to read file f
    Late,       \* files other programs may create under the source meanwhile
    LateIn,     \* LateIn[l]: the scanned folder the late file l appears in
    SrcLocal, DestLocal, IsMove,
    Holding,    \* the scanned folders that contain the destination itself
    MaxErrors   \* bound on the I/O failures of one behaviour

Items == 1..N
Files == Items \ Dirs
LocalRun == SrcLocal /\ DestLocal

ASSUME TransferAssumption ==
    /\ N \in Nat \ {0}
    /\ Dirs \subseteq Items
    /\ Above \in [Items -> SUBSET Dirs]
    /\ \A i \in Items : \A d \in Above[i] : d < i /\ Above[d] \subseteq Above[i]
    /\ Blocks \in [Files -> Nat]
    /\ LateIn \in [Late -> Dirs]
    /\ {SrcLocal, DestLocal, IsMove} \subseteq BOOLEAN
    /\ Holding \subseteq Dirs
    /\ MaxErrors \in Nat

VARIABLES
    pc,         \* where the worker is in execute_transfer
    cur,        \* the item it is at; N + 1 after the last
    written,    \* buffers of the current file written so far
    skipped,    \* items the user chose to skip
    plan,       \* source items still to be deleted by a move
    settled,    \* files reported as FileDone or FileSkipped
    result,     \* what execute_transfer returned, or "running"
    src, late,  \* the source: scanned items and late files
    dest,       \* the destination entry of each item
    request,    \* the ErrorRequest: in the channel, or on screen as a dialog
    reply,      \* the answer in the request's oneshot channel
    cancel,     \* the cancellation flag behind the Cancel button
    errors      \* I/O failures so far

worker == <<pc, cur, written, skipped, plan, settled, result>>
source == <<src, late>>
ui     == <<request, reply, cancel>>
vars   == <<worker, source, dest, ui, errors>>

Below(d) == {i \in Items : d \in Above[i]}
LateUnder(d) == {l \in Late : LateIn[l] = d \/ d \in Above[LateIn[l]]}

\* Mutant of Removable: the folders above a skipped item are not spared.
RemovableIgnoringHolders == {i \in Items : i \notin skipped}

\* Mutant of Removable: what was skipped is not spared.
RemovableAll == Items

\* What a finished move may delete: not what was skipped, nor a folder that
\* still holds something skipped.
Removable ==
    {i \in Items : i \notin skipped /\ (i \in Dirs => Below(i) \intersect skipped = {})}

\* The items are deleted in reverse scan order.
LastPlanned(i) == i \in plan /\ \A j \in plan : j <= i

-------------------------------------------------------------------------------
(* Steps shared by the worker's actions.                                     *)

Finish(r) == pc' = "done" /\ result' = r

\* Mutant of NextItem: the item after this one is passed over.
NextItemTwice == pc' = "item" /\ cur' = cur + 2

NextItem == pc' = "item" /\ cur' = cur + 1

IoError == errors < MaxErrors /\ errors' = errors + 1

\* The attempt failed: send an ErrorRequest and wait for its reply.
Ask ==
    /\ pc' = "ask"
    /\ request' = "queued"
    /\ UNCHANGED <<cur, skipped, plan, settled, result, source, reply, cancel>>

\* The head of the retry loop, past its cancellation check.
Attempting(kind) ==
    /\ pc = "item"
    /\ cur \in Items
    /\ ~cancel
    /\ cur \in kind

CancelledAtItem ==
    /\ pc = "item"
    /\ cur \in Items
    /\ cancel
    /\ Finish("cancelled")
    /\ UNCHANGED <<cur, written, skipped, plan, settled, source, dest, ui, errors>>

-------------------------------------------------------------------------------
(* Folders.  create_dir_all accepts a folder that exists; create_directory   *)
(* of the local provider, used when only the destination is local, does not. *)

FolderRefused == ~LocalRun /\ DestLocal /\ dest[cur] = "old"

MakeFolder ==
    /\ Attempting(Dirs)
    /\ ~FolderRefused
    /\ dest' = [dest EXCEPT ![cur] = "new"]
    /\ NextItem
    /\ UNCHANGED <<written, skipped, plan, settled, result, source, ui, errors>>

MakeFolderFails ==
    /\ Attempting(Dirs)
    /\ IF FolderRefused THEN UNCHANGED errors ELSE IoError
    /\ Ask
    /\ UNCHANGED <<written, dest>>

-------------------------------------------------------------------------------
(* Files, both sides local: copy_one_file.                                   *)

\* File::open and File::create succeed; what the destination held is gone.
StartCopy ==
    /\ LocalRun
    /\ Attempting(Files)
    /\ dest' = [dest EXCEPT ![cur] = "partial"]
    /\ written' = 0
    /\ pc' = "copy"
    /\ UNCHANGED <<cur, skipped, plan, settled, result, source, ui, errors>>

StartCopyFails ==
    /\ LocalRun
    /\ Attempting(Files)
    /\ IoError
    /\ Ask
    /\ UNCHANGED <<written, dest>>

CopyBlock ==
    /\ pc = "copy"
    /\ ~cancel
    /\ written < Blocks[cur]
    /\ written' = written + 1
    /\ UNCHANGED <<pc, cur, skipped, plan, settled, result, source, dest, ui, errors>>

\* A read returns 0 bytes: the file is complete and FileDone is sent.
CopyDone ==
    /\ pc = "copy"
    /\ ~cancel
    /\ written = Blocks[cur]
    /\ dest' = [dest EXCEPT ![cur] = "new"]
    /\ settled' = settled + 1
    /\ NextItem
    /\ UNCHANGED <<written, skipped, plan, result, source, ui, errors>>

\* Mutant of CopyCancelled: the unfinished file is left behind.
CopyCancelledLeaving ==
    /\ pc = "copy"
    /\ cancel
    /\ Finish("cancelled")
    /\ UNCHANGED <<cur, written, skipped, plan, settled, source, dest, ui, errors>>

\* The flag is checked before every buffer; the unfinished file is removed,
\* and a failure to remove it is ignored.
CopyCancelled ==
    /\ pc = "copy"
    /\ cancel
    /\ \/ dest' = [dest EXCEPT ![cur] = "absent"] /\ UNCHANGED errors
       \/ IoError /\ UNCHANGED dest
    /\ Finish("cancelled")
    /\ UNCHANGED <<cur, written, skipped, plan, settled, source, ui>>

\* A read or a write fails: what was written stays at the destination.
CopyFails ==
    /\ pc = "copy"
    /\ ~cancel
    /\ IoError
    /\ Ask
    /\ UNCHANGED <<written, dest>>

\* A read is interrupted: an error of that kind is taken for a cancellation.
CopyInterrupted ==
    /\ pc = "copy"
    /\ ~cancel
    /\ IoError
    /\ Finish("cancelled")
    /\ UNCHANGED <<cur, written, skipped, plan, settled, source, dest, ui>>

-------------------------------------------------------------------------------
(* Files, at least one side not local: read whole, then write whole.         *)

RemoteRead ==
    /\ ~LocalRun
    /\ Attempting(Files)
    /\ pc' = "write"
    /\ UNCHANGED <<cur, written, skipped, plan, settled, result, source, dest, ui, errors>>

RemoteReadFails ==
    /\ ~LocalRun
    /\ Attempting(Files)
    /\ IoError
    /\ Ask
    /\ UNCHANGED <<written, dest>>

\* The flag is checked once more between the read and the write.
RemoteWriteCancelled ==
    /\ pc = "write"
    /\ cancel
    /\ Finish("cancelled")
    /\ UNCHANGED <<cur, written, skipped, plan, settled, source, dest, ui, errors>>

RemoteWrite ==
    /\ pc = "write"
    /\ ~cancel
    /\ dest' = [dest EXCEPT ![cur] = "new"]
    /\ settled' = settled + 1
    /\ NextItem
    /\ UNCHANGED <<written, skipped, plan, result, source, ui, errors>>

\* The write fails before or after the destination was touched.
RemoteWriteFails ==
    /\ pc = "write"
    /\ ~cancel
    /\ IoError
    /\ \E left \in {dest[cur], "partial"} : dest' = [dest EXCEPT ![cur] = left]
    /\ Ask
    /\ UNCHANGED written

-------------------------------------------------------------------------------
(* The user's decision about a failed item.                                  *)

\* Skip and Abort on a file delete its entry at a destination that is not
\* local; the result of that deletion is ignored.
DropFailedEntry ==
    IF ~LocalRun /\ ~DestLocal /\ cur \in Files
    THEN \E left \in {"absent", dest[cur]} : dest' = [dest EXCEPT ![cur] = left]
    ELSE UNCHANGED dest

Decided(a) ==
    /\ pc = "ask"
    /\ reply = a
    /\ reply' = "none"
    /\ UNCHANGED <<written, plan, source, request, cancel, errors>>

RetryItem ==
    /\ Decided("retry")
    /\ pc' = "item"
    /\ UNCHANGED <<cur, skipped, settled, result, dest>>

\* Mutant of SkipItem: a skipped file is not reported as settled.
SkipItemSilently ==
    /\ Decided("skip")
    /\ skipped' = skipped \union {cur}
    /\ DropFailedEntry
    /\ NextItem
    /\ UNCHANGED <<settled, result>>

SkipItem ==
    /\ Decided("skip")
    /\ skipped' = skipped \union {cur}
    /\ settled' = IF cur \in Files THEN settled + 1 ELSE settled
    /\ DropFailedEntry
    /\ NextItem
    /\ UNCHANGED result

AbortTransfer ==
    /\ Decided("abort")
    /\ DropFailedEntry
    /\ Finish("cancelled")
    /\ UNCHANGED <<cur, skipped, settled>>

-------------------------------------------------------------------------------
(* After the last item.                                                      *)

CopyFinished ==
    /\ pc = "item"
    /\ cur = N + 1
    /\ ~IsMove
    /\ Finish("ok")
    /\ UNCHANGED <<cur, written, skipped, plan, settled, source, dest, ui, errors>>

\* Collecting the paths checks the flag at every item and touches nothing.
SweepCancelled ==
    /\ pc = "item"
    /\ cur = N + 1
    /\ IsMove
    /\ cancel
    /\ Finish("cancelled")
    /\ UNCHANGED <<cur, written, skipped, plan, settled, source, dest, ui, errors>>

Sweep ==
    /\ pc = "item"
    /\ cur = N + 1
    /\ IsMove
    /\ ~cancel
    /\ plan' = Removable
    /\ pc' = "delete"
    /\ UNCHANGED <<cur, written, skipped, settled, result, source, dest, ui, errors>>

\* Mutant of DeleteDone: the flag is looked at once more after the deletion.
DeleteDoneCancellable ==
    /\ pc = "delete"
    /\ plan = {} \/ cancel
    /\ Finish(IF cancel THEN "cancelled" ELSE "ok")
    /\ UNCHANGED <<cur, written, skipped, plan, settled, source, dest, ui, errors>>

\* delete_entries: one path after the other; a folder goes with all it holds.
DeleteNext ==
    /\ pc = "delete"
    /\ \E i \in Items :
       /\ LastPlanned(i)
       /\ plan' = plan \ {i}
       /\ src' = [j \in Items |-> IF j = i \/ j \in Below(i) THEN "gone" ELSE src[j]]
       /\ late' = [l \in Late |->
                     IF l \in LateUnder(i) /\ late[l] = "here" THEN "gone" ELSE late[l]]
       /\ dest' = IF i \in Holding THEN [j \in Items |-> "absent"] ELSE dest
    /\ UNCHANGED <<pc, cur, written, skipped, settled, result, ui, errors>>

\* A deletion fails, possibly after part of the folder went: it is the last.
DeleteFails ==
    /\ pc = "delete"
    /\ \E i \in Items :
       /\ LastPlanned(i)
       /\ \E part \in SUBSET LateUnder(i) :
             late' = [l \in Late |->
                        IF l \in part /\ late[l] = "here" THEN "gone" ELSE late[l]]
       /\ \E part \in SUBSET (IF i \in Holding THEN Items ELSE {}) :
             dest' = [j \in Items |-> IF j \in part THEN "absent" ELSE dest[j]]
    /\ IoError
    /\ Finish("failed")
    /\ UNCHANGED <<cur, written, skipped, plan, settled, src, ui>>

DeleteDone ==
    /\ pc = "delete"
    /\ plan = {}
    /\ Finish("ok")
    /\ UNCHANGED <<cur, written, skipped, plan, settled, source, dest, ui, errors>>

-------------------------------------------------------------------------------
(* The progress timer and the user.                                          *)

\* The 100 ms timer takes a request from the channel and opens its dialog.
ShowError ==
    /\ request = "queued"
    /\ request' = "shown"
    /\ UNCHANGED <<worker, source, dest, reply, cancel, errors>>

\* Mutant of Answer: the dialog closes without answering.
AnswerLost(a) ==
    /\ request = "shown"
    /\ request' = "none"
    /\ UNCHANGED <<reply, worker, source, dest, cancel, errors>>

Answer(a) ==
    /\ request = "shown"
    /\ request' = "none"
    /\ reply' = a
    /\ UNCHANGED <<worker, source, dest, cancel, errors>>

PressCancel ==
    /\ result = "running"
    /\ ~cancel
    /\ cancel' = TRUE
    /\ UNCHANGED <<worker, source, dest, request, reply, errors>>

\* Another program creates a file in a source folder that is still there.
LateFile ==
    /\ \E l \in Late :
          /\ late[l] = "unborn"
          /\ src[LateIn[l]] = "here"
          /\ late' = [late EXCEPT ![l] = "here"]
    /\ UNCHANGED <<worker, src, dest, ui, errors>>

-------------------------------------------------------------------------------
Init ==
    /\ pc = "item"
    /\ cur = 1
    /\ written = 0
    /\ skipped = {}
    /\ plan = {}
    /\ settled = 0
    /\ result = "running"
    /\ src = [i \in Items |-> "here"]
    /\ late = [l \in Late |-> "unborn"]
    /\ dest \in [Items -> {"absent", "old"}]
    /\ request = "none"
    /\ reply = "none"
    /\ cancel = FALSE
    /\ errors = 0

Folder == MakeFolder \/ MakeFolderFails
LocalFile ==
    \/ StartCopy \/ StartCopyFails \/ CopyBlock \/ CopyDone
    \/ CopyCancelled \/ CopyFails \/ CopyInterrupted
RemoteFile ==
    \/ RemoteRead \/ RemoteReadFails
    \/ RemoteWrite \/ RemoteWriteFails \/ RemoteWriteCancelled
Decision == RetryItem \/ SkipItem \/ AbortTransfer
Ending ==
    \/ CopyFinished \/ Sweep \/ SweepCancelled
    \/ DeleteNext \/ DeleteFails \/ DeleteDone

WorkerStep == CancelledAtItem \/ Folder \/ LocalFile \/ RemoteFile \/ Decision \/ Ending

Next ==
    \/ WorkerStep
    \/ ShowError
    \/ \E a \in {"retry", "skip", "abort"} : Answer(a)
    \/ PressCancel
    \/ LateFile

Spec == Init /\ [][Next]_vars

\* The worker thread and the timer keep running.  The user answers every
\* dialog, and does not answer Retry for ever.
Fairness ==
    /\ WF_vars(WorkerStep)
    /\ WF_vars(ShowError)
    /\ WF_vars(\E a \in {"retry", "skip", "abort"} : Answer(a))
    /\ SF_vars(Answer("skip") \/ Answer("abort"))

FairSpec == Spec /\ Fairness

-------------------------------------------------------------------------------
TypeOK ==
    /\ pc \in {"item", "copy", "write", "ask", "delete", "done"}
    /\ cur \in 1..(N + 1)
    /\ written \in Nat
    /\ skipped \subseteq Items
    /\ plan \subseteq Items
    /\ settled \in Nat
    /\ result \in {"running", "ok", "cancelled", "failed"}
    /\ src \in [Items -> {"here", "gone"}]
    /\ late \in [Late -> {"unborn", "here", "gone"}]
    /\ dest \in [Items -> {"absent", "old", "partial", "new"}]
    /\ request \in {"none", "queued", "shown"}
    /\ reply \in {"none", "retry", "skip", "abort"}
    /\ cancel \in BOOLEAN
    /\ errors \in 0..MaxErrors

\* A file is never lost: while the source no longer has it, the destination
\* has it in full.  It rests on the order copy-then-delete, on `skipped' being
\* left out of the deletion, and on no deleted folder holding a skipped file.
ContentSafe == \A f \in Files : src[f] = "gone" => dest[f] = "new"

\* What the user skipped stays where it was, and so do the folders it is in:
\* the reverse sweep never removes a folder from above a skipped item.
SkippedStay ==
    \A s \in skipped : src[s] = "here" /\ \A d \in Above[s] : src[d] = "here"

\* "Cancelled" is only reported while the source is whole: nothing can cancel
\* a move once the first source item is being deleted.
CancelKeepsSource ==
    result = "cancelled" => \A i \in Items : src[i] = "here"

\* However a local transfer is cancelled, with no I/O failure on the way it
\* leaves no truncated file behind.
NoTruncatedFile ==
    (LocalRun /\ errors = 0 /\ result # "running") =>
        \A f \in Files : dest[f] # "partial"

\* A transfer reports success only with every file accounted for: reported
\* once as done or skipped, complete or skipped, and after a move gone from
\* the source unless skipped.
SuccessAccounted ==
    result = "ok" =>
        /\ settled = Cardinality(Files)
        /\ \A f \in Files \ skipped : dest[f] = "new" /\ (IsMove <=> src[f] = "gone")

\* A file that appeared in a source folder after the scan is deleted with that
\* folder only if nothing in or under the folder was skipped.
LateOnlyWithWholeFolder ==
    \A l \in Late : late[l] = "gone" =>
        skipped \intersect ({LateIn[l]} \union Below(LateIn[l])) = {}

\* The transfer ends, whatever fails: the worker never waits for a reply that
\* cannot come.
Terminates == <>(result # "running")

\* The transfer keeps the promise about file content.
Kept == INSTANCE TransferPromise WITH
    held    <- {f \in Files : src[f] = "here"},
    given   <- {f \in Files : dest[f] = "new"},
    outcome <- result

KeepsPromise == Kept!Promise

===============================================================================
