---------------------------- MODULE TransferProofs ----------------------------
(***************************************************************************)
(* Proofs about Transfer for every item list, every pair of sides and any  *)
(* number of failures.  The hypothesis Holding = {} says that no moved     *)
(* folder contains the destination; run transfer_into_itself shows that    *)
(* file content is lost without it.                                        *)
(***************************************************************************)
EXTENDS Transfer, FiniteSetTheorems, TLAPS

\* The worker's program points fit its position in the item list.
Position ==
    /\ pc \in {"copy", "write"} => cur \in Files
    /\ pc = "ask" => cur \in Items
    /\ pc = "delete" => cur = N + 1 /\ IsMove
    /\ (result = "running") <=> (pc # "done")
    /\ result = "ok" => cur = N + 1

\* What lies behind the worker was delivered or skipped; what lies ahead, and
\* what was skipped, was not delivered.
Progress ==
    /\ \A s \in skipped : s < cur
    /\ \A f \in Files : f < cur => f \in skipped \/ dest[f] = "new"
    /\ \A f \in Files : f >= cur \/ f \in skipped => dest[f] # "new"

\* The source loses something only in the deletion phase of a move, and never
\* an item that was skipped or that holds a skipped one.
Removal ==
    /\ \A i \in Items : src[i] = "gone" =>
          /\ cur = N + 1
          /\ IsMove
          /\ pc = "delete" \/ result \in {"ok", "failed"}
          /\ i \notin skipped
          /\ Below(i) \intersect skipped = {}
    /\ pc = "delete" =>
          /\ plan \subseteq Removable
          /\ \A i \in Removable \ plan : src[i] = "gone"
    /\ result = "ok" /\ IsMove => \A i \in Removable : src[i] = "gone"

Inv == TypeOK /\ Position /\ Progress /\ Removal

-------------------------------------------------------------------------------
\* A folder above a folder above an item is above the item; files have nothing
\* below them.
LEMMA BelowFacts ==
    /\ \A d \in Items : Below(d) \subseteq Items
    /\ \A f \in Files : Below(f) = {}
    /\ \A d \in Items : \A i \in Below(d) : d \in Dirs /\ Below(i) \subseteq Below(d)
BY TransferAssumption DEF Below, Files, Items

\* The initial states satisfy the invariant.
LEMMA InitInv == Init => Inv
<1> SUFFICES ASSUME Init PROVE Inv
  OBVIOUS
<1> USE TransferAssumption DEF Init
<1>1. TypeOK
  <2>1. dest \in [Items -> {"absent", "old", "partial", "new"}]
    OBVIOUS
  <2>2. cur \in 1..(N + 1) /\ errors \in 0..MaxErrors
    OBVIOUS
  <2> QED BY <2>1, <2>2 DEF TypeOK
<1>2. Position
  BY DEF Position
<1>3. Progress
  <2>1. \A f \in Files : f \in 1..N /\ dest[f] # "new"
    BY DEF Items, Files
  <2> QED BY <2>1 DEF Progress
<1>4. Removal
  BY DEF Removal
<1> QED
  BY <1>1, <1>2, <1>3, <1>4 DEF Inv

\* Types and program points are preserved by every step.
LEMMA TypeStep == TypeOK /\ Position /\ [Next]_vars => TypeOK' /\ Position'
<1> SUFFICES ASSUME TypeOK, Position, [Next]_vars PROVE TypeOK' /\ Position'
  OBVIOUS
<1> USE TransferAssumption
    DEF TypeOK, Position, worker, source, ui, Finish, NextItem, IoError, Ask,
        Attempting, Items, Files
<1>1. CASE MakeFolder
  BY <1>1 DEF MakeFolder
<1>2. CASE MakeFolderFails
  BY <1>2 DEF MakeFolderFails, FolderRefused
<1>3. CASE StartCopy
  BY <1>3 DEF StartCopy
<1>4. CASE StartCopyFails
  BY <1>4 DEF StartCopyFails
<1>5. CASE CopyBlock
  BY <1>5 DEF CopyBlock
<1>6. CASE CopyDone
  BY <1>6 DEF CopyDone
<1>7. CASE CopyCancelled
  BY <1>7 DEF CopyCancelled
<1>8. CASE CopyFails
  BY <1>8 DEF CopyFails
<1>9. CASE CopyInterrupted
  BY <1>9 DEF CopyInterrupted
<1>10. CASE RemoteRead
  BY <1>10 DEF RemoteRead
<1>11. CASE RemoteReadFails
  BY <1>11 DEF RemoteReadFails
<1>12. CASE RemoteWriteCancelled
  BY <1>12 DEF RemoteWriteCancelled
<1>13. CASE RemoteWrite
  BY <1>13 DEF RemoteWrite
<1>14. CASE RemoteWriteFails
  BY <1>14 DEF RemoteWriteFails
<1>15. CASE RetryItem
  BY <1>15 DEF RetryItem, Decided
<1>16. CASE SkipItem
  <2>1. cur \in Items /\ cur + 1 \in 1..(N + 1)
    BY <1>16 DEF SkipItem, Decided
  <2>2. dest' \in [Items -> {"absent", "old", "partial", "new"}]
    BY <1>16, <2>1 DEF SkipItem, DropFailedEntry
  <2> QED BY <1>16, <2>1, <2>2 DEF SkipItem, Decided
<1>17. CASE AbortTransfer
  <2>1. cur \in Items
    BY <1>17 DEF AbortTransfer, Decided
  <2>2. dest' \in [Items -> {"absent", "old", "partial", "new"}]
    BY <1>17, <2>1 DEF AbortTransfer, DropFailedEntry
  <2> QED BY <1>17, <2>1, <2>2 DEF AbortTransfer, Decided
<1>18. CASE CopyFinished
  BY <1>18 DEF CopyFinished
<1>19. CASE SweepCancelled
  BY <1>19 DEF SweepCancelled
<1>20. CASE Sweep
  BY <1>20 DEF Sweep, Removable
<1>21. CASE DeleteNext
  BY <1>21 DEF DeleteNext, LastPlanned
<1>22. CASE DeleteFails
  BY <1>22 DEF DeleteFails, LastPlanned
<1>23. CASE DeleteDone
  BY <1>23 DEF DeleteDone
<1>24. CASE CancelledAtItem
  BY <1>24 DEF CancelledAtItem
<1>25. CASE ShowError
  BY <1>25 DEF ShowError
<1>26. CASE PressCancel
  BY <1>26 DEF PressCancel
<1>27. CASE LateFile
  BY <1>27 DEF LateFile
<1>28. ASSUME NEW a \in {"retry", "skip", "abort"}, Answer(a) PROVE TypeOK' /\ Position'
  BY <1>28 DEF Answer
<1>29. CASE UNCHANGED vars
  BY <1>29 DEF vars
<1> QED
  BY <1>1, <1>2, <1>3, <1>4, <1>5, <1>6, <1>7, <1>8, <1>9, <1>10, <1>11,
     <1>12, <1>13, <1>14, <1>15, <1>16, <1>17, <1>18, <1>19, <1>20, <1>21,
     <1>22, <1>23, <1>24, <1>25, <1>26, <1>27, <1>28, <1>29
     DEF Next, WorkerStep, Folder, LocalFile, RemoteFile, Decision, Ending

\* No file behind the worker is lost, none ahead of it or skipped is delivered.
LEMMA ProgressStep ==
    ASSUME TypeOK, Position, Progress, Holding = {}, [Next]_vars
    PROVE  Progress'
<1> USE TransferAssumption
    DEF TypeOK, Position, Progress, worker, source, ui, Finish, NextItem,
        IoError, Ask, Attempting, Items, Files
<1>1. CASE MakeFolder
  BY <1>1 DEF MakeFolder
<1>2. CASE MakeFolderFails
  BY <1>2 DEF MakeFolderFails, FolderRefused
<1>3. CASE StartCopy
  BY <1>3 DEF StartCopy
<1>4. CASE StartCopyFails
  BY <1>4 DEF StartCopyFails
<1>5. CASE CopyBlock
  BY <1>5 DEF CopyBlock
<1>6. CASE CopyDone
  <2>1. cur \in Files /\ dest' = [dest EXCEPT ![cur] = "new"] /\ cur' = cur + 1
    BY <1>6 DEF CopyDone
  <2>2. \A f \in Files : f < cur + 1 => f < cur \/ f = cur
    OBVIOUS
  <2>3. \A f \in Files : dest'[f] = IF f = cur THEN "new" ELSE dest[f]
    BY <2>1
  <2>4. skipped' = skipped /\ cur \notin skipped
    BY <1>6 DEF CopyDone
  <2> QED BY <2>1, <2>2, <2>3, <2>4
<1>7. CASE CopyCancelled
  BY <1>7 DEF CopyCancelled
<1>8. CASE CopyFails
  BY <1>8 DEF CopyFails
<1>9. CASE CopyInterrupted
  BY <1>9 DEF CopyInterrupted
<1>10. CASE RemoteRead
  BY <1>10 DEF RemoteRead
<1>11. CASE RemoteReadFails
  BY <1>11 DEF RemoteReadFails
<1>12. CASE RemoteWriteCancelled
  BY <1>12 DEF RemoteWriteCancelled
<1>13. CASE RemoteWrite
  <2>1. cur \in Files /\ dest' = [dest EXCEPT ![cur] = "new"] /\ cur' = cur + 1
    BY <1>13 DEF RemoteWrite
  <2>2. \A f \in Files : f < cur + 1 => f < cur \/ f = cur
    OBVIOUS
  <2>3. \A f \in Files : dest'[f] = IF f = cur THEN "new" ELSE dest[f]
    BY <2>1
  <2>4. skipped' = skipped /\ cur \notin skipped
    BY <1>13 DEF RemoteWrite
  <2> QED BY <2>1, <2>2, <2>3, <2>4
<1>14. CASE RemoteWriteFails
  BY <1>14 DEF RemoteWriteFails
<1>15. CASE RetryItem
  BY <1>15 DEF RetryItem, Decided
<1>16. CASE SkipItem
  <2>1. cur \in Items /\ cur' = cur + 1 /\ skipped' = skipped \union {cur}
    BY <1>16 DEF SkipItem, Decided
  <2>2. \A f \in Files : dest'[f] = dest[f] \/ (f = cur /\ dest'[f] # "new")
    BY <1>16 DEF SkipItem, DropFailedEntry
  <2>3. \A f \in Files : f < cur + 1 => f < cur \/ f = cur
    BY <2>1
  <2> QED BY <2>1, <2>2, <2>3
<1>17. CASE AbortTransfer
  <2>1. cur' = cur /\ skipped' = skipped
    BY <1>17 DEF AbortTransfer
  <2>2. \A f \in Files : dest'[f] = dest[f] \/ (f = cur /\ dest'[f] # "new")
    BY <1>17 DEF AbortTransfer, DropFailedEntry
  <2> QED BY <2>1, <2>2
<1>18. CASE CopyFinished
  BY <1>18 DEF CopyFinished
<1>19. CASE SweepCancelled
  BY <1>19 DEF SweepCancelled
<1>20. CASE Sweep
  BY <1>20 DEF Sweep
<1>21. CASE DeleteNext
  BY <1>21 DEF DeleteNext, LastPlanned
<1>22. CASE DeleteFails
  BY <1>22 DEF DeleteFails, LastPlanned
<1>23. CASE DeleteDone
  BY <1>23 DEF DeleteDone
<1>24. CASE CancelledAtItem
  BY <1>24 DEF CancelledAtItem
<1>25. CASE ShowError
  BY <1>25 DEF ShowError
<1>26. CASE PressCancel
  BY <1>26 DEF PressCancel
<1>27. CASE LateFile
  BY <1>27 DEF LateFile
<1>28. ASSUME NEW a \in {"retry", "skip", "abort"}, Answer(a) PROVE Progress'
  BY <1>28 DEF Answer
<1>29. CASE UNCHANGED vars
  BY <1>29 DEF vars
<1> QED
  BY <1>1, <1>2, <1>3, <1>4, <1>5, <1>6, <1>7, <1>8, <1>9, <1>10, <1>11,
     <1>12, <1>13, <1>14, <1>15, <1>16, <1>17, <1>18, <1>19, <1>20, <1>21,
     <1>22, <1>23, <1>24, <1>25, <1>26, <1>27, <1>28, <1>29
     DEF Next, WorkerStep, Folder, LocalFile, RemoteFile, Decision, Ending

\* The source loses only what a move may remove, and only while it deletes.
LEMMA RemovalStep ==
    ASSUME TypeOK, Position, Removal, [Next]_vars
    PROVE  Removal'
<1> USE TransferAssumption
    DEF TypeOK, Position, Removal, Removable, worker, source, ui, Finish, NextItem,
        IoError, Ask, Attempting, Items
<1>1. CASE MakeFolder
  BY <1>1 DEF MakeFolder
<1>2. CASE MakeFolderFails
  BY <1>2 DEF MakeFolderFails, FolderRefused
<1>3. CASE StartCopy
  BY <1>3 DEF StartCopy
<1>4. CASE StartCopyFails
  BY <1>4 DEF StartCopyFails
<1>5. CASE CopyBlock
  BY <1>5 DEF CopyBlock
<1>6. CASE CopyDone
  BY <1>6 DEF CopyDone
<1>7. CASE CopyCancelled
  BY <1>7 DEF CopyCancelled
<1>8. CASE CopyFails
  BY <1>8 DEF CopyFails
<1>9. CASE CopyInterrupted
  BY <1>9 DEF CopyInterrupted
<1>10. CASE RemoteRead
  BY <1>10 DEF RemoteRead
<1>11. CASE RemoteReadFails
  BY <1>11 DEF RemoteReadFails
<1>12. CASE RemoteWriteCancelled
  BY <1>12 DEF RemoteWriteCancelled
<1>13. CASE RemoteWrite
  BY <1>13 DEF RemoteWrite
<1>14. CASE RemoteWriteFails
  BY <1>14 DEF RemoteWriteFails
<1>15. CASE RetryItem
  BY <1>15 DEF RetryItem, Decided
<1>16. CASE SkipItem
  BY <1>16 DEF SkipItem, Decided, DropFailedEntry
<1>17. CASE AbortTransfer
  BY <1>17 DEF AbortTransfer, Decided, DropFailedEntry
<1>18. CASE CopyFinished
  BY <1>18 DEF CopyFinished
<1>19. CASE SweepCancelled
  BY <1>19 DEF SweepCancelled
<1>20. CASE Sweep
  BY <1>20 DEF Sweep
<1>21. CASE DeleteNext
  <2>1. PICK i \in Items :
          /\ i \in plan
          /\ plan' = plan \ {i}
          /\ src' = [j \in Items |->
                       IF j = i \/ j \in Below(i) THEN "gone" ELSE src[j]]
    BY <1>21 DEF DeleteNext, LastPlanned
  <2>2. Below(i) \intersect skipped = {} /\ i \notin skipped
    BY <1>21, <2>1, BelowFacts DEF Files, DeleteNext
  <2>3. \A j \in Below(i) : j \notin skipped /\ Below(j) \intersect skipped = {}
    BY <2>2, BelowFacts
  <2>4. UNCHANGED <<pc, cur, skipped, result>> /\ pc = "delete"
    BY <1>21 DEF DeleteNext
  <2>5. Below(i)' = Below(i) /\ \A j \in Items : Below(j)' = Below(j)
    BY DEF Below
  <2>6. Removable' = Removable
    BY <2>4, <2>5
  <2>7. \A j \in Items : src'[j] = "gone" =>
           j \notin skipped /\ Below(j) \intersect skipped = {}
    BY <2>1, <2>2, <2>3
  <2>8. \A j \in Removable \ plan' : src'[j] = "gone"
    BY <2>1, <2>4
  <2> QED BY <2>1, <2>4, <2>5, <2>6, <2>7, <2>8
<1>22. CASE DeleteFails
  BY <1>22 DEF DeleteFails, LastPlanned
<1>23. CASE DeleteDone
  BY <1>23 DEF DeleteDone
<1>24. CASE CancelledAtItem
  BY <1>24 DEF CancelledAtItem
<1>25. CASE ShowError
  BY <1>25 DEF ShowError
<1>26. CASE PressCancel
  BY <1>26 DEF PressCancel
<1>27. CASE LateFile
  BY <1>27 DEF LateFile
<1>28. ASSUME NEW a \in {"retry", "skip", "abort"}, Answer(a) PROVE Removal'
  BY <1>28 DEF Answer
<1>29. CASE UNCHANGED vars
  BY <1>29 DEF vars
<1> QED
  BY <1>1, <1>2, <1>3, <1>4, <1>5, <1>6, <1>7, <1>8, <1>9, <1>10, <1>11,
     <1>12, <1>13, <1>14, <1>15, <1>16, <1>17, <1>18, <1>19, <1>20, <1>21,
     <1>22, <1>23, <1>24, <1>25, <1>26, <1>27, <1>28, <1>29
     DEF Next, WorkerStep, Folder, LocalFile, RemoteFile, Decision, Ending

-------------------------------------------------------------------------------
\* What the deletion phase of a move may touch holds whatever is moved where.
LEMMA RemovalInvariant == Spec => [](TypeOK /\ Position /\ Removal)
<1>1. Init => TypeOK /\ Position /\ Removal
  BY InitInv DEF Inv
<1>2. TypeOK /\ Position /\ Removal /\ [Next]_vars => (TypeOK /\ Position /\ Removal)'
  BY TypeStep, RemovalStep
<1> QED
  BY <1>1, <1>2, PTL DEF Spec

\* The whole invariant, when no moved folder contains the destination.
LEMMA Invariant ==
    ASSUME Holding = {}
    PROVE  Spec => []Inv
<1>1. Init => Inv
  BY InitInv
<1>2. Inv /\ [Next]_vars => Inv'
  BY TypeStep, ProgressStep, RemovalStep DEF Inv
<1> QED
  BY <1>1, <1>2, PTL DEF Spec

\* Every reachable state of a transfer has the right types.
THEOREM TypeCorrect == Spec => []TypeOK
BY RemovalInvariant, PTL

\* No file of a transfer is lost: what left the source is complete at the
\* destination (execute_transfer deletes only after copying, and never what was
\* skipped), provided no moved folder contains the destination.
THEOREM FilesSafe ==
    ASSUME Holding = {}
    PROVE  Spec => []ContentSafe
<1>1. Inv => ContentSafe
  BY TransferAssumption DEF Inv, TypeOK, Position, Progress, Removal, ContentSafe, Items, Files
<1> QED
  BY <1>1, Invariant, PTL

\* A skipped item and every folder it lies in survive at the source: the
\* reverse sweep spares a folder as soon as anything below it was skipped.
THEOREM SkippedSurvive == Spec => []SkippedStay
<1>1. TypeOK /\ Position /\ Removal => SkippedStay
  <2> SUFFICES ASSUME TypeOK, Removal, NEW s \in skipped
               PROVE  src[s] = "here" /\ \A d \in Above[s] : src[d] = "here"
    BY DEF SkippedStay
  <2>1. s \in Items /\ Above[s] \subseteq Items
    BY TransferAssumption DEF TypeOK, Items
  <2>2. src[s] = "here"
    BY <2>1 DEF TypeOK, Removal
  <2>3. ASSUME NEW d \in Above[s] PROVE src[d] = "here"
    <3>1. s \in Below(d) \intersect skipped
      BY <2>1 DEF Below
    <3> QED BY <2>1, <3>1 DEF TypeOK, Removal
  <2> QED BY <2>2, <2>3
<1> QED
  BY <1>1, RemovalInvariant, PTL

\* A transfer that reports "cancelled" took nothing away from the source: the
\* flag is not looked at again once delete_entries has the list.
THEOREM CancelSafe == Spec => []CancelKeepsSource
<1>1. TypeOK /\ Position /\ Removal => CancelKeepsSource
  BY DEF TypeOK, Position, Removal, CancelKeepsSource
<1> QED
  BY <1>1, RemovalInvariant, PTL

-------------------------------------------------------------------------------
\* Until something has failed, the only unfinished entry at the destination is
\* the one being copied.
OnePartial ==
    \A f \in Items :
       dest[f] = "partial" => errors > 0 \/ (pc = "copy" /\ cur = f)

\* Every step keeps it: the copy loop either completes its file, removes it,
\* or counts a failure.
LEMMA PartialStep ==
    ASSUME TypeOK, Position, OnePartial, [Next]_vars
    PROVE  OnePartial'
<1> USE TransferAssumption
    DEF TypeOK, Position, OnePartial, worker, source, ui, Finish, NextItem,
        IoError, Ask, Attempting, Items, Files
<1>1. CASE MakeFolder
  BY <1>1 DEF MakeFolder
<1>2. CASE MakeFolderFails
  BY <1>2 DEF MakeFolderFails, FolderRefused
<1>3. CASE StartCopy
  BY <1>3 DEF StartCopy
<1>4. CASE StartCopyFails
  BY <1>4 DEF StartCopyFails
<1>5. CASE CopyBlock
  BY <1>5 DEF CopyBlock
<1>6. CASE CopyDone
  BY <1>6 DEF CopyDone
<1>7. CASE CopyCancelled
  BY <1>7 DEF CopyCancelled
<1>8. CASE CopyFails
  BY <1>8 DEF CopyFails
<1>9. CASE CopyInterrupted
  BY <1>9 DEF CopyInterrupted
<1>10. CASE RemoteRead
  BY <1>10 DEF RemoteRead
<1>11. CASE RemoteReadFails
  BY <1>11 DEF RemoteReadFails
<1>12. CASE RemoteWriteCancelled
  BY <1>12 DEF RemoteWriteCancelled
<1>13. CASE RemoteWrite
  BY <1>13 DEF RemoteWrite
<1>14. CASE RemoteWriteFails
  BY <1>14 DEF RemoteWriteFails
<1>15. CASE RetryItem
  BY <1>15 DEF RetryItem, Decided
<1>16. CASE SkipItem
  <2>1. \A f \in Items : dest'[f] = "partial" => dest[f] = "partial"
    BY <1>16 DEF SkipItem, DropFailedEntry
  <2> QED BY <1>16, <2>1 DEF SkipItem, Decided
<1>17. CASE AbortTransfer
  <2>1. \A f \in Items : dest'[f] = "partial" => dest[f] = "partial"
    BY <1>17 DEF AbortTransfer, DropFailedEntry
  <2> QED BY <1>17, <2>1 DEF AbortTransfer, Decided
<1>18. CASE CopyFinished
  BY <1>18 DEF CopyFinished
<1>19. CASE SweepCancelled
  BY <1>19 DEF SweepCancelled
<1>20. CASE Sweep
  BY <1>20 DEF Sweep
<1>21. CASE DeleteNext
  BY <1>21 DEF DeleteNext, LastPlanned
<1>22. CASE DeleteFails
  BY <1>22 DEF DeleteFails, LastPlanned
<1>23. CASE DeleteDone
  BY <1>23 DEF DeleteDone
<1>24. CASE CancelledAtItem
  BY <1>24 DEF CancelledAtItem
<1>25. CASE ShowError
  BY <1>25 DEF ShowError
<1>26. CASE PressCancel
  BY <1>26 DEF PressCancel
<1>27. CASE LateFile
  BY <1>27 DEF LateFile
<1>28. ASSUME NEW a \in {"retry", "skip", "abort"}, Answer(a) PROVE OnePartial'
  BY <1>28 DEF Answer
<1>29. CASE UNCHANGED vars
  BY <1>29 DEF vars
<1> QED
  BY <1>1, <1>2, <1>3, <1>4, <1>5, <1>6, <1>7, <1>8, <1>9, <1>10, <1>11,
     <1>12, <1>13, <1>14, <1>15, <1>16, <1>17, <1>18, <1>19, <1>20, <1>21,
     <1>22, <1>23, <1>24, <1>25, <1>26, <1>27, <1>28, <1>29
     DEF Next, WorkerStep, Folder, LocalFile, RemoteFile, Decision, Ending

\* A cancelled local transfer without I/O failures leaves no truncated file:
\* copy_one_file removes what it was writing.
THEOREM NothingTruncated == Spec => []NoTruncatedFile
<1>1. Init => OnePartial
  BY DEF Init, OnePartial
<1>2. TypeOK /\ Position /\ OnePartial /\ [Next]_vars => OnePartial'
  BY PartialStep
<1>3. TypeOK /\ Position /\ OnePartial => NoTruncatedFile
  BY TransferAssumption DEF TypeOK, Position, OnePartial, NoTruncatedFile, Files
<1> QED
  BY <1>1, <1>2, <1>3, RemovalInvariant, PTL DEF Spec

-------------------------------------------------------------------------------
\* The files each side has, as TransferPromise sees them.
held == {f \in Files : src[f] = "here"}
given == {f \in Files : dest[f] = "new"}

\* Every step of a transfer is a step of the promise or leaves it alone.
LEMMA PromiseStep ==
    ASSUME Inv, Inv', Holding = {}, [Next]_vars
    PROVE  [Kept!PromiseNext]_(Kept!promiseVars)
<1> SUFFICES [Kept!PromiseNext]_<<held, given, result>>
  BY DEF Kept!promiseVars, held, given
<1> USE TransferAssumption
    DEF Inv, TypeOK, Position, Progress, Removal, held, given, worker, source, ui,
        Finish, NextItem, IoError, Ask, Attempting, Items, Files
<1>1. CASE MakeFolder
  <2>1. given' = given /\ held' = held /\ result' = result
    BY <1>1 DEF MakeFolder
  <2> QED BY <2>1
<1>2. CASE MakeFolderFails
  <2>1. given' = given /\ held' = held /\ result' = result
    BY <1>2 DEF MakeFolderFails, FolderRefused
  <2> QED BY <2>1
<1>3. CASE StartCopy
  <2>1. given' = given /\ held' = held /\ result' = result
    BY <1>3 DEF StartCopy
  <2> QED BY <2>1
<1>4. CASE StartCopyFails
  <2>1. given' = given /\ held' = held /\ result' = result
    BY <1>4 DEF StartCopyFails
  <2> QED BY <2>1
<1>5. CASE CopyBlock
  <2>1. given' = given /\ held' = held /\ result' = result
    BY <1>5 DEF CopyBlock
  <2> QED BY <2>1
<1>6. CASE CopyDone
  <2>1. held' = held /\ held = Files /\ result = "running" /\ result' = result
    BY <1>6 DEF CopyDone
  <2>2. cur \in Files /\ cur \notin given /\ given' = given \union {cur}
    BY <1>6 DEF CopyDone
  <2> QED BY <2>1, <2>2 DEF Kept!PromiseNext, Kept!Deliver
<1>7. CASE CopyCancelled
  <2>1. given' = given /\ held' = held /\ held = Files
    BY <1>7 DEF CopyCancelled
  <2>2. result = "running" /\ result' = "cancelled"
    BY <1>7 DEF CopyCancelled
  <2> QED BY <2>1, <2>2 DEF Kept!PromiseNext, Kept!Cancel
<1>8. CASE CopyFails
  <2>1. given' = given /\ held' = held /\ result' = result
    BY <1>8 DEF CopyFails
  <2> QED BY <2>1
<1>9. CASE CopyInterrupted
  <2>1. given' = given /\ held' = held /\ held = Files
    BY <1>9 DEF CopyInterrupted
  <2>2. result = "running" /\ result' = "cancelled"
    BY <1>9 DEF CopyInterrupted
  <2> QED BY <2>1, <2>2 DEF Kept!PromiseNext, Kept!Cancel
<1>10. CASE RemoteRead
  <2>1. given' = given /\ held' = held /\ result' = result
    BY <1>10 DEF RemoteRead
  <2> QED BY <2>1
<1>11. CASE RemoteReadFails
  <2>1. given' = given /\ held' = held /\ result' = result
    BY <1>11 DEF RemoteReadFails
  <2> QED BY <2>1
<1>12. CASE RemoteWriteCancelled
  <2>1. given' = given /\ held' = held /\ held = Files
    BY <1>12 DEF RemoteWriteCancelled
  <2>2. result = "running" /\ result' = "cancelled"
    BY <1>12 DEF RemoteWriteCancelled
  <2> QED BY <2>1, <2>2 DEF Kept!PromiseNext, Kept!Cancel
<1>13. CASE RemoteWrite
  <2>1. held' = held /\ held = Files /\ result = "running" /\ result' = result
    BY <1>13 DEF RemoteWrite
  <2>2. cur \in Files /\ cur \notin given /\ given' = given \union {cur}
    BY <1>13 DEF RemoteWrite
  <2> QED BY <2>1, <2>2 DEF Kept!PromiseNext, Kept!Deliver
<1>14. CASE RemoteWriteFails
  <2>1. given' = given /\ held' = held /\ result' = result
    BY <1>14 DEF RemoteWriteFails
  <2> QED BY <2>1
<1>15. CASE RetryItem
  <2>1. given' = given /\ held' = held /\ result' = result
    BY <1>15 DEF RetryItem, Decided
  <2> QED BY <2>1
<1>16. CASE SkipItem
  <2>1. given' = given /\ held' = held /\ result' = result
    BY <1>16 DEF SkipItem, Decided, DropFailedEntry
  <2> QED BY <2>1
<1>17. CASE AbortTransfer
  <2>1. given' = given /\ held' = held /\ held = Files
    BY <1>17 DEF AbortTransfer, Decided, DropFailedEntry
  <2>2. result = "running" /\ result' = "cancelled"
    BY <1>17 DEF AbortTransfer, Decided, DropFailedEntry
  <2> QED BY <2>1, <2>2 DEF Kept!PromiseNext, Kept!Cancel
<1>18. CASE CopyFinished
  <2>1. given' = given /\ held' = held /\ held = Files /\ ~IsMove
    BY <1>18 DEF CopyFinished
  <2>2. result = "running" /\ result' = "ok"
    BY <1>18 DEF CopyFinished
  <2> QED BY <2>1, <2>2 DEF Kept!PromiseNext, Kept!Succeed
<1>19. CASE SweepCancelled
  <2>1. given' = given /\ held' = held /\ held = Files
    BY <1>19 DEF SweepCancelled
  <2>2. result = "running" /\ result' = "cancelled"
    BY <1>19 DEF SweepCancelled
  <2> QED BY <2>1, <2>2 DEF Kept!PromiseNext, Kept!Cancel
<1>20. CASE Sweep
  <2>1. given' = given /\ held' = held /\ result' = result
    BY <1>20 DEF Sweep
  <2> QED BY <2>1
<1>21. CASE DeleteNext
  <2> DEFINE lost == {f \in held : src'[f] = "gone"}
  <2>1. result = "running" /\ result' = result /\ IsMove /\ dest' = dest
    BY <1>21 DEF DeleteNext
  <2>2. held' = held \ lost /\ given' = given
    BY <1>21, <2>1 DEF DeleteNext
  <2>3. \A f \in Files : src'[f] = "gone" => dest'[f] = "new"
    BY DEF Removal, Progress
  <2>4. lost \in SUBSET (held \intersect given)
    BY <2>1, <2>3
  <2> QED BY <2>1, <2>2, <2>4 DEF Kept!PromiseNext, Kept!Release
<1>22. CASE DeleteFails
  <2>1. given' = given /\ held' = held
    BY <1>22 DEF DeleteFails
  <2>2. result = "running" /\ result' = "failed"
    BY <1>22 DEF DeleteFails
  <2> QED BY <2>1, <2>2 DEF Kept!PromiseNext, Kept!Fail
<1>23. CASE DeleteDone
  <2>1. given' = given /\ held' = held /\ IsMove
    BY <1>23 DEF DeleteDone
  <2>2. result = "running" /\ result' = "ok"
    BY <1>23 DEF DeleteDone
  <2>3. \A f \in Files : f \in skipped \/ f \in Removable
    BY DEF Removable
  <2>4. \A f \in Files : src[f] = "gone" <=> f \notin skipped
    BY <1>23, <2>3 DEF DeleteDone
  <2>5. held = Files \ given
    BY <1>23, <2>4 DEF DeleteDone
  <2> QED BY <2>1, <2>2, <2>5 DEF Kept!PromiseNext, Kept!Succeed
<1>24. CASE CancelledAtItem
  <2>1. given' = given /\ held' = held /\ held = Files
    BY <1>24 DEF CancelledAtItem
  <2>2. result = "running" /\ result' = "cancelled"
    BY <1>24 DEF CancelledAtItem
  <2> QED BY <2>1, <2>2 DEF Kept!PromiseNext, Kept!Cancel
<1>25. CASE ShowError
  <2>1. given' = given /\ held' = held /\ result' = result
    BY <1>25 DEF ShowError
  <2> QED BY <2>1
<1>26. CASE PressCancel
  <2>1. given' = given /\ held' = held /\ result' = result
    BY <1>26 DEF PressCancel
  <2> QED BY <2>1
<1>27. CASE LateFile
  <2>1. given' = given /\ held' = held /\ result' = result
    BY <1>27 DEF LateFile
  <2> QED BY <2>1
<1>28. ASSUME NEW a \in {"retry", "skip", "abort"}, Answer(a) PROVE [Kept!PromiseNext]_<<held, given, result>>
  <2>1. given' = given /\ held' = held /\ result' = result
    BY <1>28 DEF Answer
  <2> QED BY <2>1
<1>29. CASE UNCHANGED vars
  <2>1. given' = given /\ held' = held /\ result' = result
    BY <1>29 DEF vars
  <2> QED BY <2>1
<1> QED
  BY <1>1, <1>2, <1>3, <1>4, <1>5, <1>6, <1>7, <1>8, <1>9, <1>10, <1>11,
     <1>12, <1>13, <1>14, <1>15, <1>16, <1>17, <1>18, <1>19, <1>20, <1>21,
     <1>22, <1>23, <1>24, <1>25, <1>26, <1>27, <1>28, <1>29
     DEF Next, WorkerStep, Folder, LocalFile, RemoteFile, Decision, Ending

\* A transfer implements TransferPromise: content is delivered one file at a
\* time, let go of at the source only afterwards, and "ok" and "cancelled" say
\* truly which side has what.
THEOREM TransferKeepsPromise ==
    ASSUME Holding = {}
    PROVE  Spec => KeepsPromise
<1>1. Init => Kept!PromiseInit
  BY TransferAssumption DEF Init, Kept!PromiseInit, Files, Items
<1>2. Inv /\ Inv' /\ [Next]_vars => [Kept!PromiseNext]_(Kept!promiseVars)
  BY PromiseStep
<1> QED
  BY <1>1, <1>2, Invariant, PTL DEF Spec, KeepsPromise, Kept!Promise

-------------------------------------------------------------------------------
\* A late file goes only in the deletion phase, from a folder nothing in or
\* below which was skipped.
LateRemoval ==
    \A l \in Late : late[l] = "gone" =>
        /\ cur = N + 1
        /\ pc = "delete" \/ result \in {"ok", "failed"}
        /\ skipped \intersect ({LateIn[l]} \union Below(LateIn[l])) = {}

\* Every step keeps it: a folder in the deletion list has nothing skipped below.
LEMMA LateStep ==
    ASSUME TypeOK, Position, Removal, LateRemoval, [Next]_vars
    PROVE  LateRemoval'
<1> USE TransferAssumption
    DEF TypeOK, Position, Removal, Removable, LateRemoval, worker, source, ui, Finish,
        NextItem, IoError, Ask, Attempting, Items
<1>1. CASE MakeFolder
  BY <1>1 DEF MakeFolder
<1>2. CASE MakeFolderFails
  BY <1>2 DEF MakeFolderFails, FolderRefused
<1>3. CASE StartCopy
  BY <1>3 DEF StartCopy
<1>4. CASE StartCopyFails
  BY <1>4 DEF StartCopyFails
<1>5. CASE CopyBlock
  BY <1>5 DEF CopyBlock
<1>6. CASE CopyDone
  BY <1>6 DEF CopyDone
<1>7. CASE CopyCancelled
  BY <1>7 DEF CopyCancelled
<1>8. CASE CopyFails
  BY <1>8 DEF CopyFails
<1>9. CASE CopyInterrupted
  BY <1>9 DEF CopyInterrupted
<1>10. CASE RemoteRead
  BY <1>10 DEF RemoteRead
<1>11. CASE RemoteReadFails
  BY <1>11 DEF RemoteReadFails
<1>12. CASE RemoteWriteCancelled
  BY <1>12 DEF RemoteWriteCancelled
<1>13. CASE RemoteWrite
  BY <1>13 DEF RemoteWrite
<1>14. CASE RemoteWriteFails
  BY <1>14 DEF RemoteWriteFails
<1>15. CASE RetryItem
  BY <1>15 DEF RetryItem, Decided
<1>16. CASE SkipItem
  BY <1>16 DEF SkipItem, Decided, DropFailedEntry
<1>17. CASE AbortTransfer
  BY <1>17 DEF AbortTransfer, Decided, DropFailedEntry
<1>18. CASE CopyFinished
  BY <1>18 DEF CopyFinished
<1>19. CASE SweepCancelled
  BY <1>19 DEF SweepCancelled
<1>20. CASE Sweep
  BY <1>20 DEF Sweep
<1>21. CASE DeleteNext
  <2>1. PICK i \in Items :
          /\ i \in plan
          /\ \A l \in Late : late'[l] = "gone" => late[l] = "gone" \/ l \in LateUnder(i)
    BY <1>21 DEF DeleteNext, LastPlanned
  <2>2. Below(i) \intersect skipped = {} /\ i \notin skipped
    BY <1>21, <2>1, BelowFacts DEF Files, DeleteNext
  <2>3. \A l \in LateUnder(i) : LateIn[l] = i \/ LateIn[l] \in Below(i)
    BY DEF LateUnder, Below
  <2>4. \A l \in LateUnder(i) : skipped \intersect ({LateIn[l]} \union Below(LateIn[l])) = {}
    BY <2>2, <2>3, BelowFacts
  <2>5. UNCHANGED <<cur, skipped>> /\ pc = "delete" /\ (pc' = "delete" \/ result' = "failed")
    BY <1>21 DEF DeleteNext
  <2>6. \A d \in Items : Below(d)' = Below(d)
    BY DEF Below
  <2> QED BY <2>1, <2>4, <2>5, <2>6
<1>22. CASE DeleteFails
  <2>1. PICK i \in Items :
          /\ i \in plan
          /\ \A l \in Late : late'[l] = "gone" => late[l] = "gone" \/ l \in LateUnder(i)
    BY <1>22 DEF DeleteFails, LastPlanned
  <2>2. Below(i) \intersect skipped = {} /\ i \notin skipped
    BY <1>22, <2>1, BelowFacts DEF Files, DeleteFails
  <2>3. \A l \in LateUnder(i) : LateIn[l] = i \/ LateIn[l] \in Below(i)
    BY DEF LateUnder, Below
  <2>4. \A l \in LateUnder(i) : skipped \intersect ({LateIn[l]} \union Below(LateIn[l])) = {}
    BY <2>2, <2>3, BelowFacts
  <2>5. UNCHANGED <<cur, skipped>> /\ pc = "delete" /\ (pc' = "delete" \/ result' = "failed")
    BY <1>22 DEF DeleteFails
  <2>6. \A d \in Items : Below(d)' = Below(d)
    BY DEF Below
  <2> QED BY <2>1, <2>4, <2>5, <2>6
<1>23. CASE DeleteDone
  BY <1>23 DEF DeleteDone
<1>24. CASE CancelledAtItem
  BY <1>24 DEF CancelledAtItem
<1>25. CASE ShowError
  BY <1>25 DEF ShowError
<1>26. CASE PressCancel
  BY <1>26 DEF PressCancel
<1>27. CASE LateFile
  BY <1>27 DEF LateFile
<1>28. ASSUME NEW a \in {"retry", "skip", "abort"}, Answer(a) PROVE LateRemoval'
  BY <1>28 DEF Answer
<1>29. CASE UNCHANGED vars
  BY <1>29 DEF vars
<1> QED
  BY <1>1, <1>2, <1>3, <1>4, <1>5, <1>6, <1>7, <1>8, <1>9, <1>10, <1>11,
     <1>12, <1>13, <1>14, <1>15, <1>16, <1>17, <1>18, <1>19, <1>20, <1>21,
     <1>22, <1>23, <1>24, <1>25, <1>26, <1>27, <1>28, <1>29
     DEF Next, WorkerStep, Folder, LocalFile, RemoteFile, Decision, Ending

\* A file that appeared after the scan is deleted only together with a folder
\* from which the user skipped nothing.
THEOREM LateFilesGoWithWholeFolders == Spec => []LateOnlyWithWholeFolder
<1>1. Init => LateRemoval
  BY DEF Init, LateRemoval
<1>2. TypeOK /\ Position /\ Removal /\ LateRemoval /\ [Next]_vars => LateRemoval'
  BY LateStep
<1>3. LateRemoval => LateOnlyWithWholeFolder
  BY DEF LateRemoval, LateOnlyWithWholeFolder
<1> QED
  BY <1>1, <1>2, <1>3, RemovalInvariant, PTL DEF Spec

-------------------------------------------------------------------------------
\* The files the worker has passed, and the count of those reported.
Passed(c) == {f \in Files : f < c}
Counted == settled = Cardinality(Passed(cur))

\* Passing an item adds it to the passed files if it is one, and nothing else.
LEMMA PassedFacts ==
    /\ Cardinality(Passed(1)) = 0
    /\ Passed(N + 1) = Files
    /\ \A c \in Items \ Files : Passed(c + 1) = Passed(c)
    /\ \A c \in Files : Cardinality(Passed(c + 1)) = Cardinality(Passed(c)) + 1
<1> USE TransferAssumption DEF Passed, Items, Files
<1>1. Passed(1) = {}
  OBVIOUS
<1>2. Passed(N + 1) = Files
  OBVIOUS
<1>3. \A c \in Items \ Files : Passed(c + 1) = Passed(c)
  OBVIOUS
<1>4. ASSUME NEW c \in Files
      PROVE  Cardinality(Passed(c + 1)) = Cardinality(Passed(c)) + 1
  <2>1. Passed(c + 1) = Passed(c) \union {c} /\ c \notin Passed(c)
    OBVIOUS
  <2>2. IsFiniteSet(1..N)
    BY FS_Interval
  <2>3. IsFiniteSet(Passed(c))
    BY <2>2, FS_Subset
  <2> QED BY <2>1, <2>3, FS_AddElement
<1> QED
  BY <1>1, <1>2, <1>3, <1>4, FS_EmptySet

\* Every step keeps the count: one report per file passed, a retry counts none.
LEMMA CountStep ==
    ASSUME TypeOK, Position, Counted, [Next]_vars
    PROVE  Counted'
<1> USE TransferAssumption
    DEF TypeOK, Position, Counted, worker, source, ui, Finish, NextItem, IoError, Ask,
        Attempting
<1>1. CASE MakeFolder
  <2>1. settled' = settled /\ cur' = cur + 1 /\ cur \in Items \ Files
    BY <1>1 DEF MakeFolder, Files
  <2> QED BY <2>1, PassedFacts
<1>2. CASE MakeFolderFails
  <2>1. settled' = settled /\ cur' = cur
    BY <1>2 DEF MakeFolderFails, FolderRefused
  <2> QED BY <2>1
<1>3. CASE StartCopy
  <2>1. settled' = settled /\ cur' = cur
    BY <1>3 DEF StartCopy
  <2> QED BY <2>1
<1>4. CASE StartCopyFails
  <2>1. settled' = settled /\ cur' = cur
    BY <1>4 DEF StartCopyFails
  <2> QED BY <2>1
<1>5. CASE CopyBlock
  <2>1. settled' = settled /\ cur' = cur
    BY <1>5 DEF CopyBlock
  <2> QED BY <2>1
<1>6. CASE CopyDone
  <2>1. settled' = settled + 1 /\ cur' = cur + 1 /\ cur \in Files
    BY <1>6 DEF CopyDone
  <2> QED BY <2>1, PassedFacts
<1>7. CASE CopyCancelled
  <2>1. settled' = settled /\ cur' = cur
    BY <1>7 DEF CopyCancelled
  <2> QED BY <2>1
<1>8. CASE CopyFails
  <2>1. settled' = settled /\ cur' = cur
    BY <1>8 DEF CopyFails
  <2> QED BY <2>1
<1>9. CASE CopyInterrupted
  <2>1. settled' = settled /\ cur' = cur
    BY <1>9 DEF CopyInterrupted
  <2> QED BY <2>1
<1>10. CASE RemoteRead
  <2>1. settled' = settled /\ cur' = cur
    BY <1>10 DEF RemoteRead
  <2> QED BY <2>1
<1>11. CASE RemoteReadFails
  <2>1. settled' = settled /\ cur' = cur
    BY <1>11 DEF RemoteReadFails
  <2> QED BY <2>1
<1>12. CASE RemoteWriteCancelled
  <2>1. settled' = settled /\ cur' = cur
    BY <1>12 DEF RemoteWriteCancelled
  <2> QED BY <2>1
<1>13. CASE RemoteWrite
  <2>1. settled' = settled + 1 /\ cur' = cur + 1 /\ cur \in Files
    BY <1>13 DEF RemoteWrite
  <2> QED BY <2>1, PassedFacts
<1>14. CASE RemoteWriteFails
  <2>1. settled' = settled /\ cur' = cur
    BY <1>14 DEF RemoteWriteFails
  <2> QED BY <2>1
<1>15. CASE RetryItem
  <2>1. settled' = settled /\ cur' = cur
    BY <1>15 DEF RetryItem, Decided
  <2> QED BY <2>1
<1>16. CASE SkipItem
  <2>1. cur \in Items /\ cur' = cur + 1
    BY <1>16 DEF SkipItem, Decided
  <2>2. settled' = IF cur \in Files THEN settled + 1 ELSE settled
    BY <1>16 DEF SkipItem
  <2> QED BY <2>1, <2>2, PassedFacts
<1>17. CASE AbortTransfer
  <2>1. settled' = settled /\ cur' = cur
    BY <1>17 DEF AbortTransfer, Decided, DropFailedEntry
  <2> QED BY <2>1
<1>18. CASE CopyFinished
  <2>1. settled' = settled /\ cur' = cur
    BY <1>18 DEF CopyFinished
  <2> QED BY <2>1
<1>19. CASE SweepCancelled
  <2>1. settled' = settled /\ cur' = cur
    BY <1>19 DEF SweepCancelled
  <2> QED BY <2>1
<1>20. CASE Sweep
  <2>1. settled' = settled /\ cur' = cur
    BY <1>20 DEF Sweep
  <2> QED BY <2>1
<1>21. CASE DeleteNext
  <2>1. settled' = settled /\ cur' = cur
    BY <1>21 DEF DeleteNext, LastPlanned
  <2> QED BY <2>1
<1>22. CASE DeleteFails
  <2>1. settled' = settled /\ cur' = cur
    BY <1>22 DEF DeleteFails, LastPlanned
  <2> QED BY <2>1
<1>23. CASE DeleteDone
  <2>1. settled' = settled /\ cur' = cur
    BY <1>23 DEF DeleteDone
  <2> QED BY <2>1
<1>24. CASE CancelledAtItem
  <2>1. settled' = settled /\ cur' = cur
    BY <1>24 DEF CancelledAtItem
  <2> QED BY <2>1
<1>25. CASE ShowError
  <2>1. settled' = settled /\ cur' = cur
    BY <1>25 DEF ShowError
  <2> QED BY <2>1
<1>26. CASE PressCancel
  <2>1. settled' = settled /\ cur' = cur
    BY <1>26 DEF PressCancel
  <2> QED BY <2>1
<1>27. CASE LateFile
  <2>1. settled' = settled /\ cur' = cur
    BY <1>27 DEF LateFile
  <2> QED BY <2>1
<1>28. ASSUME NEW a \in {"retry", "skip", "abort"}, Answer(a) PROVE Counted'
  <2>1. settled' = settled /\ cur' = cur
    BY <1>28 DEF Answer
  <2> QED BY <2>1
<1>29. CASE UNCHANGED vars
  <2>1. settled' = settled /\ cur' = cur
    BY <1>29 DEF vars
  <2> QED BY <2>1
<1> QED
  BY <1>1, <1>2, <1>3, <1>4, <1>5, <1>6, <1>7, <1>8, <1>9, <1>10, <1>11,
     <1>12, <1>13, <1>14, <1>15, <1>16, <1>17, <1>18, <1>19, <1>20, <1>21,
     <1>22, <1>23, <1>24, <1>25, <1>26, <1>27, <1>28, <1>29
     DEF Next, WorkerStep, Folder, LocalFile, RemoteFile, Decision, Ending

\* Success means every file is accounted for: reported exactly once, complete
\* at the destination or skipped, and gone from the source of a move.
THEOREM SuccessIsTrue ==
    ASSUME Holding = {}
    PROVE  Spec => []SuccessAccounted
<1>1. Init => Counted
  BY PassedFacts DEF Init, Counted
<1>2. Inv /\ Counted /\ [Next]_vars => Counted'
  BY CountStep DEF Inv
<1>3. Inv /\ Counted => SuccessAccounted
  <2> SUFFICES ASSUME Inv, Counted, result = "ok" PROVE SuccessAccounted
    BY DEF SuccessAccounted
  <2>1. cur = N + 1 /\ settled = Cardinality(Files)
    BY PassedFacts DEF Inv, Position, Counted
  <2>2. \A f \in Files \ skipped : f < cur /\ f \in Removable
    BY <2>1, TransferAssumption DEF Items, Files, Removable
  <2>3. \A f \in Files \ skipped : dest[f] = "new"
    BY <2>2 DEF Inv, Progress
  <2>4. \A f \in Files \ skipped : IsMove <=> src[f] = "gone"
    BY <2>2, TransferAssumption DEF Inv, Removal, Items, Files
  <2> QED BY <2>1, <2>3, <2>4 DEF SuccessAccounted
<1> QED
  BY <1>1, <1>2, <1>3, Invariant, PTL DEF Spec

===============================================================================
