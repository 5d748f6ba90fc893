----------------------- MODULE SourceBlobUpload_proofs -----------------------
(* Proofs about SourceBlobUpload, for any uploaders and contents.          *)
EXTENDS SourceBlobUpload, TLAPS

USE NothingAssumption, NobodyAssumption

-----------------------------------------------------------------------------
(* Type correctness.                                                       *)

\* What the shared effects do to the types they touch.
LEMMA JobTypes ==
    /\ NoUpload \in Upload
    /\ NoJob \in Job
    /\ \A c \in Contents, k \in {"insert", "replace"} :
         [NoJob EXCEPT !.kind = k, !.content = c] \in Job
    /\ \A m \in {"cleanup_pending", "upload_unknown"} :
         [NoJob EXCEPT !.mark = m] \in Job
BY DEF NoUpload, NoJob, Upload, Job, UploadStates

Marks == {"cleanup_pending", "upload_unknown"}

ControlOK == pc' \in [Uploaders -> PCs] /\ job' \in [Uploaders -> Job]

\* What ends, catches or redirects a request keeps its place and its job typed.
LEMMA GotoTypes ==
    ASSUME TypeOK, NEW u \in Uploaders
    PROVE  /\ \A l \in PCs : Goto(u, l) => pc' \in [Uploaders -> PCs]
           /\ \A m \in Marks : Catch(u, m) => ControlOK
           /\ Finish(u) => ControlOK
           /\ Undo(u) => ControlOK
<1> USE DEF TypeOK, ControlOK
<1>1. \A l \in PCs : Goto(u, l) => pc' \in [Uploaders -> PCs]
  BY DEF Goto
<1>2. ASSUME NEW m \in Marks, Catch(u, m) PROVE ControlOK
  BY <1>2, JobTypes DEF Catch, Goto, PCs, Marks
<1>3. ASSUME Finish(u) PROVE ControlOK
  BY <1>3, JobTypes DEF Finish, Goto, PCs
<1>4. ASSUME Undo(u) PROVE ControlOK
  BY <1>4 DEF Undo, Goto, PCs, Job
<1>. QED BY <1>1, <1>2, <1>3, <1>4

\* No step of an uploader leaves a type.
LEMMA UploaderType ==
    ASSUME TypeOK, NEW u \in Uploaders, UploaderStep(u)
    PROVE  TypeOK'
<1> USE GotoTypes DEF TypeOK, World, ControlOK, Marks
<1>1. ASSUME NEW c \in Contents, InsertSources(u, c) PROVE TypeOK'
  BY <1>1, JobTypes DEF InsertSources, PCs
<1>2. ASSUME NEW c \in Contents, ReplaceFileContent(u, c) PROVE TypeOK'
  BY <1>2, JobTypes DEF ReplaceFileContent, PCs
<1>3. CASE ReserveSourceBlobUpload(u)
  BY <1>3 DEF ReserveSourceBlobUpload, Upload, UploadStates, Job, PCs
<1>4. CASE ReserveRefused(u)
  BY <1>4 DEF ReserveRefused
<1>5. CASE BeginSourceBlobUpload(u)
  <2>1. upload' \in Upload
    BY <1>5 DEF BeginSourceBlobUpload, Upload, UploadStates
  <2>2. faults' \in SUBSET Faults
    BY <1>5 DEF BeginSourceBlobUpload, Faults
  <2>. QED BY <1>5, <2>1, <2>2 DEF BeginSourceBlobUpload, PCs
<1>6. CASE RefusedBeforePut(u)
  BY <1>6 DEF RefusedBeforePut
<1>7. CASE PutSourceBlobWithFence(u)
  BY <1>7 DEF PutSourceBlobWithFence, Put, Job, PCs, Holding
<1>8. CASE PutAcknowledged(u)
  BY <1>8 DEF PutAcknowledged, Upload, UploadStates, Job
<1>9. CASE PutRejected(u)
  BY <1>9 DEF PutRejected
<1>10. CASE PutOutcomeUnknown(u)
  BY <1>10 DEF PutOutcomeUnknown, MarkSourceFailed, Upload, UploadStates
<1>11. CASE PutSessionLost(u)
  BY <1>11 DEF PutSessionLost, Faults
<1>12. CASE CancelSourceBlobUploadBeforePut(u)
  BY <1>12 DEF CancelSourceBlobUploadBeforePut, Job
<1>13. CASE RecordFailedSourceBlobUpload(u)
  <2>1. job[u].mark \in UploadStates
    BY DEF Job, UploadStates
  <2>2. upload' \in Upload
    BY <1>13, <2>1 DEF RecordFailedSourceBlobUpload, Upload
  <2>. QED BY <1>13, <2>2 DEF RecordFailedSourceBlobUpload, MarkSourceFailed
<1>14. CASE Crash(u)
  BY <1>14 DEF Crash, Faults
<1>. QED BY <1>1, <1>2, <1>3, <1>4, <1>5, <1>6, <1>7, <1>8, <1>9, <1>10,
            <1>11, <1>12, <1>13, <1>14 DEF UploaderStep

\* Nor does the object store's end of a PUT.
LEMMA StoreType == TypeOK /\ StoreStep => TypeOK'
<1> SUFFICES ASSUME TypeOK, NEW p \in puts,
                    StoreApplies(p) \/ StoreRejects(p) \/ StoreDrops(p)
             PROVE  TypeOK'
  BY DEF StoreStep
<1>. QED BY DEF TypeOK, StoreApplies, StoreRejects, StoreDrops, Settle, Put,
                PCs, Holding

\* Nor does a lifecycle command, a direct cleanup or a sweep.
LEMMA OtherType == TypeOK /\ (LifecycleStep \/ SweepStep) => TypeOK'
<1> SUFFICES ASSUME TypeOK, LifecycleStep \/ SweepStep PROVE TypeOK'
  OBVIOUS
<1> USE DEF TypeOK, World, Upload, UploadStates
<1>1. ASSUME NEW failed \in BOOLEAN, OtherSourceWrite(failed) PROVE TypeOK'
  BY <1>1 DEF OtherSourceWrite
<1>2. CASE Tombstone
  BY <1>2 DEF Tombstone, RequestSourceBlobUploadCleanup
<1>3. CASE RestoreOrPurge
  BY <1>3 DEF RestoreOrPurge
<1>4. CASE ListSourceLifecycleStorageCleanupKeys
  BY <1>4 DEF ListSourceLifecycleStorageCleanupKeys
<1>5. CASE EraseDelete
  BY <1>5 DEF EraseDelete
<1>6. CASE MarkSourceTreeStorageCleanupCompleted
  BY <1>6 DEF MarkSourceTreeStorageCleanupCompleted
<1>7. CASE EraseAbandoned
  BY <1>7 DEF EraseAbandoned
<1>8. CASE RecoverAbandoned
  BY <1>8 DEF RecoverAbandoned, StartSweep, MarkSourceFailed
<1>9. CASE RecoverTombstoned
  BY <1>9 DEF RecoverTombstoned, StartSweep
<1>10. CASE CompletePendingCleanup
  BY <1>10 DEF CompletePendingCleanup
<1>11. CASE CleanupFails
  BY <1>11 DEF CleanupFails
<1>. QED BY <1>1, <1>2, <1>3, <1>4, <1>5, <1>6, <1>7, <1>8, <1>9, <1>10,
            <1>11 DEF LifecycleStep, SweepStep

\* Every variable keeps its type: in particular the upload row is always in one
\* of the states its database check allows, whatever handlers interleave.
THEOREM TypeCorrect == Spec => []TypeOK
<1>1. Init => TypeOK
  <2>1. Init => upload \in Upload /\ pc \in [Uploaders -> PCs]
                  /\ job \in [Uploaders -> Job]
    BY JobTypes DEF Init, PCs
  <2>. QED BY <2>1 DEF Init, TypeOK
<1>2. TypeOK /\ [Next]_vars => TypeOK'
  <2>1. TypeOK /\ UNCHANGED vars => TypeOK'
    BY DEF TypeOK, vars
  <2>. QED BY <2>1, UploaderType, StoreType, OtherType DEF Next
<1>. QED BY <1>1, <1>2, PTL DEF Spec

-----------------------------------------------------------------------------
(* The erasure promise.                                                    *)

Inductive == TypeOK /\ ErasureInv

\* When nobody holds the rows, PUTs in flight have their durable fence.
LEMMA Quiet ==
    ASSUME Inductive, Recorded, Unlocked, upload.state # "upload_unknown"
    PROVE  puts = {}
BY DEF Inductive, TypeOK, Put, Recorded, ErasureInv, SinglePut, Unlocked, Holding

\* A holder's PUT is the only one there can be.
LEMMA HeldPut ==
    ASSUME Inductive, Recorded, NEW u \in Uploaders, pc[u] \in Holding
    PROVE  \A p \in puts : p.by = u /\ pc[u] = "putting"
BY DEF Inductive, TypeOK, Put, Recorded, ErasureInv, SinglePut, LockHolder,
       Holding

\* Uploaders keep the reasons the erasure promise holds for: they begin a PUT
\* only on a live source whose earlier PUTs have ended.
LEMMA UploaderKeeps ==
    ASSUME Inductive, TypeOK', NEW u \in Uploaders, UploaderStep(u)
    PROVE  ErasureInv'
<1> USE DEF Inductive, TypeOK, Upload, Put, Job, UploadStates, Holding, World,
            ErasureInv, LockHolder, SinglePut, Acknowledgement, Memory,
            TombstoneShape, TombstoneClosesUpload, EraseProgress,
            ErasureIsFinal, Recorded, Live, Unlocked, NoJob, NoUpload, Goto
<1>1. ASSUME NEW c \in Contents, InsertSources(u, c) PROVE ErasureInv'
  BY <1>1 DEF InsertSources
<1>2. ASSUME NEW c \in Contents, ReplaceFileContent(u, c) PROVE ErasureInv'
  BY <1>2 DEF ReplaceFileContent
<1>3. CASE ReserveSourceBlobUpload(u)
  BY <1>3 DEF ReserveSourceBlobUpload, MayWrite, Replaceable
<1>4. CASE ReserveRefused(u)
  <2>1. CASE Catch(u, "cleanup_pending")
    BY <1>4, <2>1 DEF ReserveRefused, Catch
  <2>2. CASE Finish(u)
    BY <1>4, <2>2 DEF ReserveRefused, Finish
  <2>. QED BY <1>4, <2>1, <2>2 DEF ReserveRefused
<1>5. CASE BeginSourceBlobUpload(u)
  BY <1>5 DEF BeginSourceBlobUpload, MayWrite
<1>6. CASE RefusedBeforePut(u)
  <2>1. CASE Catch(u, "cleanup_pending")
    BY <1>6, <2>1 DEF RefusedBeforePut, Catch
  <2>2. CASE Undo(u)
    BY <1>6, <2>2 DEF RefusedBeforePut, Undo
  <2>. QED BY <1>6, <2>1, <2>2 DEF RefusedBeforePut
<1>7. CASE PutSourceBlobWithFence(u)
  BY <1>7, Quiet DEF PutSourceBlobWithFence, MayWrite
<1>8. CASE PutAcknowledged(u)
  BY <1>8 DEF PutAcknowledged, Finish
<1>9. CASE PutRejected(u)
  <2>1. Recorded => puts = {}
    BY <1>9, HeldPut DEF PutRejected
  <2>2. CASE Catch(u, "cleanup_pending")
    BY <1>9, <2>1, <2>2 DEF PutRejected, Catch
  <2>3. CASE Undo(u)
    BY <1>9, <2>1, <2>3 DEF PutRejected, Undo
  <2>. QED BY <1>9, <2>2, <2>3 DEF PutRejected
<1>10. CASE PutOutcomeUnknown(u)
  BY <1>10 DEF PutOutcomeUnknown, Catch, MarkSourceFailed
<1>11. CASE PutSessionLost(u)
  BY <1>11 DEF PutSessionLost, Catch
<1>12. CASE CancelSourceBlobUploadBeforePut(u)
  BY <1>12, Quiet DEF CancelSourceBlobUploadBeforePut, Finish, Replaceable
<1>13. CASE RecordFailedSourceBlobUpload(u)
  BY <1>13, Quiet DEF RecordFailedSourceBlobUpload, Finish, MarkSourceFailed
<1>14. CASE Crash(u)
  BY <1>14, HeldPut DEF Crash, Finish
<1>. QED BY <1>1, <1>2, <1>3, <1>4, <1>5, <1>6, <1>7, <1>8, <1>9, <1>10,
            <1>11, <1>12, <1>13, <1>14 DEF UploaderStep

\* A PUT that lands late lands under its lock or its durable unknown outcome.
LEMMA StoreKeeps ==
    ASSUME Inductive, TypeOK', StoreStep PROVE ErasureInv'
<1> SUFFICES ASSUME NEW p \in puts,
                    StoreApplies(p) \/ StoreRejects(p) \/ StoreDrops(p)
             PROVE  ErasureInv'
  BY DEF StoreStep
<1> USE DEF Inductive, TypeOK, Put, Holding, ErasureInv, Settle, Recorded,
            StoreApplies, StoreRejects, StoreDrops
<1>1. LockHolder'
  BY DEF LockHolder, Live
<1>2. SinglePut'
  BY DEF SinglePut
<1>3. Acknowledgement' /\ TombstoneShape'
  BY DEF Acknowledgement, TombstoneShape
<1>4. Memory'
  BY DEF Memory
<1>5. TombstoneClosesUpload'
  BY DEF TombstoneClosesUpload, Unlocked
<1>6. EraseProgress' /\ ErasureIsFinal'
  BY DEF EraseProgress, ErasureIsFinal
<1>. QED BY <1>1, <1>2, <1>3, <1>4, <1>5, <1>6

\* A tombstone closes the upload; a cleanup deletes before it reports.
LEMMA OtherKeeps ==
    ASSUME Inductive, TypeOK', LifecycleStep \/ SweepStep PROVE ErasureInv'
<1> USE DEF Inductive, TypeOK, Upload, Put, Job, UploadStates, Holding, World,
            ErasureInv, LockHolder, SinglePut, Acknowledgement, Memory,
            TombstoneShape, TombstoneClosesUpload, EraseProgress,
            ErasureIsFinal, Recorded, Live, Unlocked
<1>1. ASSUME NEW failed \in BOOLEAN, OtherSourceWrite(failed)
      PROVE  ErasureInv'
  BY <1>1 DEF OtherSourceWrite
<1>2. CASE Tombstone
  BY <1>2 DEF Tombstone, RequestSourceBlobUploadCleanup
<1>3. CASE RestoreOrPurge
  BY <1>3 DEF RestoreOrPurge
<1>4. CASE ListSourceLifecycleStorageCleanupKeys
  BY <1>4 DEF ListSourceLifecycleStorageCleanupKeys
<1>5. CASE EraseDelete
  BY <1>5, Quiet DEF EraseDelete
<1>6. CASE MarkSourceTreeStorageCleanupCompleted
  BY <1>6 DEF MarkSourceTreeStorageCleanupCompleted, Unacknowledged
<1>7. CASE EraseAbandoned
  BY <1>7 DEF EraseAbandoned
<1>8. CASE RecoverAbandoned
  BY <1>8, Quiet DEF RecoverAbandoned, Abandoned, StartSweep, MarkSourceFailed
<1>9. CASE RecoverTombstoned
  BY <1>9 DEF RecoverTombstoned, StartSweep
<1>10. CASE CompletePendingCleanup
  BY <1>10, Quiet DEF CompletePendingCleanup, CleanupDue
<1>11. CASE CleanupFails
  BY <1>11 DEF CleanupFails, CleanupDue
<1>. QED BY <1>1, <1>2, <1>3, <1>4, <1>5, <1>6, <1>7, <1>8, <1>9, <1>10,
            <1>11 DEF LifecycleStep, SweepStep

\* The strengthening holds in every reachable state.
LEMMA ErasureInvariant == Spec => []ErasureInv
<1>1. Init => ErasureInv
  BY DEF Init, ErasureInv, LockHolder, SinglePut, Acknowledgement, Memory,
         TombstoneShape, TombstoneClosesUpload, EraseProgress, ErasureIsFinal,
         Recorded, Unlocked, Holding, NoJob, NoUpload
<1>2. TypeOK /\ TypeOK' /\ ErasureInv /\ [Next]_vars => ErasureInv'
  <2>1. ErasureInv /\ UNCHANGED vars => ErasureInv'
    BY DEF vars, ErasureInv, LockHolder, SinglePut, Acknowledgement, Memory,
           TombstoneShape, TombstoneClosesUpload, EraseProgress,
           ErasureIsFinal, Recorded, Unlocked, Live
  <2>. QED BY <2>1, UploaderKeeps, StoreKeeps, OtherKeeps DEF Inductive, Next
<1>. QED BY <1>1, <1>2, TypeCorrect, PTL DEF Spec

\* While every PUT's end is recorded, at most one PUT can still reach the key,
\* and the row lock or the durable unknown outcome keeps other writers out.
THEOREM PutsAreSerialized == Spec => []SinglePut
<1>1. ErasureInv => SinglePut
  BY DEF ErasureInv
<1>. QED BY <1>1, ErasureInvariant, PTL

\* A storage cleanup that was reported complete is complete for good: no bytes
\* are stored, and no request that could store any is under way.
THEOREM ErasureHolds == Spec => []ErasureIsFinal
<1>1. ErasureInv => ErasureIsFinal
  BY DEF ErasureInv
<1>. QED BY <1>1, ErasureInvariant, PTL

\* From the tombstone on no upload goes forward, also after crashes and lost
\* database sessions.
THEOREM TombstoneCloses == Spec => []TombstoneClosesUpload
<1>1. ErasureInv => TombstoneClosesUpload
  BY DEF ErasureInv
<1>. QED BY <1>1, ErasureInvariant, PTL

-----------------------------------------------------------------------------
(* Acknowledged bytes are the described ones.                              *)

Described == object # Nothing /\ object = source.content

Sending == {"reserve", "begin", "put"} \union Holding

\* What the PUT under the row locks carries, and what it has left at the key.
Carrying ==
    /\ \A u \in Uploaders : pc[u] \in Sending => job[u].content \in Contents
    /\ \A p \in puts : pc[p.by] = "putting" => p.content = job[p.by].content
    /\ \A u \in Uploaders : pc[u] = "stored" => object = job[u].content

\* A reservation that may still be taken back left the bytes it found.
TakenBack ==
    \A u \in Uploaders :
        source.row = "live" /\ upload.state \in {"reserved", "uploading"}
          /\ upload.owner = u /\ job[u].prev.state = "uploaded"
          /\ (\A v \in Uploaders : pc[v] # "stored")
        => Described

\* Before its first insertion a source has no upload.
NothingYet ==
    source.row = "none" /\ tombstone.state = "none" => upload.state = "none"

BytesInv ==
    faults = {} =>
        /\ Carrying /\ TakenBack /\ NothingYet
        /\ source.row = "live" /\ upload.state = "uploaded" => Described

\* Uploaders keep the described bytes: a reservation remembers that it found
\* them, and only a request whose PUT was not sent or was refused goes back.
LEMMA UploaderKeepsBytes ==
    ASSUME Inductive, TypeOK', BytesInv, NEW u \in Uploaders, UploaderStep(u)
    PROVE  BytesInv'
<1> SUFFICES ASSUME faults' = {} PROVE BytesInv'
  BY DEF BytesInv
<1> USE DEF Inductive, TypeOK, Upload, Put, Job, UploadStates, Holding, World,
            BytesInv, Carrying, TakenBack, NothingYet, Described, Sending,
            Live, Unlocked, NoJob, NoUpload, Goto
<1>1. ASSUME NEW c \in Contents, InsertSources(u, c) PROVE BytesInv'
  BY <1>1 DEF InsertSources
<1>2. ASSUME NEW c \in Contents, ReplaceFileContent(u, c) PROVE BytesInv'
  BY <1>2 DEF ReplaceFileContent
<1>3. CASE ReserveSourceBlobUpload(u)
  BY <1>3 DEF ReserveSourceBlobUpload, MayWrite, Replaceable
<1>4. CASE ReserveRefused(u)
  <2>1. CASE Catch(u, "cleanup_pending")
    BY <1>4, <2>1 DEF ReserveRefused, Catch
  <2>2. CASE Finish(u)
    BY <1>4, <2>2 DEF ReserveRefused, Finish
  <2>. QED BY <1>4, <2>1, <2>2 DEF ReserveRefused
<1>5. CASE BeginSourceBlobUpload(u)
  <2>1. faults = {} /\ upload.owner = u
    BY <1>5 DEF BeginSourceBlobUpload
  <2>. QED BY <1>5, <2>1 DEF BeginSourceBlobUpload, MayWrite
<1>6. CASE RefusedBeforePut(u)
  <2>1. CASE Catch(u, "cleanup_pending")
    BY <1>6, <2>1 DEF RefusedBeforePut, Catch
  <2>2. CASE Undo(u)
    BY <1>6, <2>2 DEF RefusedBeforePut, Undo
  <2>. QED BY <1>6, <2>1, <2>2 DEF RefusedBeforePut
<1>7. CASE PutSourceBlobWithFence(u)
  BY <1>7, Quiet DEF PutSourceBlobWithFence, MayWrite, Recorded
<1>8. CASE PutAcknowledged(u)
  BY <1>8 DEF PutAcknowledged, Finish, ErasureInv, LockHolder
<1>9. CASE PutRejected(u)
  <2>1. CASE Catch(u, "cleanup_pending")
    BY <1>9, <2>1 DEF PutRejected, Catch
  <2>2. CASE Undo(u)
    BY <1>9, <2>2 DEF PutRejected, Undo
  <2>. QED BY <1>9, <2>1, <2>2 DEF PutRejected
<1>10. CASE PutOutcomeUnknown(u)
  BY <1>10 DEF PutOutcomeUnknown, Catch, MarkSourceFailed, ErasureInv,
               LockHolder
<1>11. CASE PutSessionLost(u)
  BY <1>11 DEF PutSessionLost
<1>12. CASE CancelSourceBlobUploadBeforePut(u)
  BY <1>12 DEF CancelSourceBlobUploadBeforePut, Finish, ErasureInv, Memory,
               Replaceable
<1>13. CASE RecordFailedSourceBlobUpload(u)
  BY <1>13 DEF RecordFailedSourceBlobUpload, Finish, MarkSourceFailed
<1>14. CASE Crash(u)
  <2>1. faults = {} /\ pc[u] \notin {"putting", "stored"}
    BY <1>14 DEF Crash
  <2>. QED BY <1>14, <2>1 DEF Crash, Finish
<1>. QED BY <1>1, <1>2, <1>3, <1>4, <1>5, <1>6, <1>7, <1>8, <1>9, <1>10,
            <1>11, <1>12, <1>13, <1>14 DEF UploaderStep

\* A PUT lands only while its holder has the upload in uploading, or after its
\* unknown outcome was recorded: never on acknowledged bytes.
LEMMA StoreKeepsBytes ==
    ASSUME Inductive, TypeOK', BytesInv, StoreStep PROVE BytesInv'
<1> SUFFICES ASSUME faults = {}, NEW p \in puts,
                    StoreApplies(p) \/ StoreRejects(p) \/ StoreDrops(p)
             PROVE  BytesInv'
  BY DEF StoreStep, BytesInv, StoreApplies, StoreRejects, StoreDrops, Settle
<1> USE DEF Inductive, TypeOK, Put, Holding, BytesInv, Settle, NothingYet,
            StoreApplies, StoreRejects, StoreDrops
<1>1. pc[p.by] = "putting" \/ upload.state = "upload_unknown"
  BY DEF ErasureInv, SinglePut
<1>2. \A v \in Uploaders : pc[v] # "stored"
  <2> SUFFICES ASSUME NEW v \in Uploaders, pc[v] = "stored" PROVE FALSE
    OBVIOUS
  <2>. QED BY HeldPut DEF Recorded
<1>3. pc[p.by] = "putting" => upload.state = "uploading"
  BY DEF ErasureInv, LockHolder
<1>4. Carrying'
  BY <1>2 DEF Carrying, Sending
<1>5. TakenBack'
  BY <1>1, <1>2, <1>3 DEF TakenBack, Described
<1>6. (source.row = "live" /\ upload.state = "uploaded" => Described)'
  BY <1>1, <1>3 DEF Described
<1>. QED BY <1>4, <1>5, <1>6

\* Deletions of the object meet no live source with an acknowledged upload.
LEMMA OtherKeepsBytes ==
    ASSUME Inductive, TypeOK', BytesInv, LifecycleStep \/ SweepStep
    PROVE  BytesInv'
<1> USE DEF Inductive, TypeOK, Upload, Put, Job, UploadStates, Holding, World,
            BytesInv, Carrying, TakenBack, NothingYet, Described, Sending,
            Live, Unlocked
<1>1. ASSUME NEW failed \in BOOLEAN, OtherSourceWrite(failed)
      PROVE  BytesInv'
  BY <1>1 DEF OtherSourceWrite
<1>2. CASE Tombstone
  BY <1>2 DEF Tombstone, RequestSourceBlobUploadCleanup
<1>3. CASE RestoreOrPurge
  BY <1>3 DEF RestoreOrPurge
<1>4. CASE ListSourceLifecycleStorageCleanupKeys
  BY <1>4 DEF ListSourceLifecycleStorageCleanupKeys
<1>5. CASE EraseDelete
  <2>1. source.row # "live" /\ \A v \in Uploaders : pc[v] # "stored"
    BY <1>5 DEF EraseDelete, ErasureInv, EraseProgress, TombstoneShape,
                LockHolder
  <2>. QED BY <1>5, <2>1 DEF EraseDelete
<1>6. CASE MarkSourceTreeStorageCleanupCompleted
  BY <1>6 DEF MarkSourceTreeStorageCleanupCompleted
<1>7. CASE EraseAbandoned
  BY <1>7 DEF EraseAbandoned
<1>8. CASE RecoverAbandoned
  BY <1>8 DEF RecoverAbandoned, Abandoned, StartSweep, MarkSourceFailed
<1>9. CASE RecoverTombstoned
  BY <1>9 DEF RecoverTombstoned, StartSweep
<1>10. CASE CompletePendingCleanup
  BY <1>10 DEF CompletePendingCleanup, CleanupDue
<1>11. CASE CleanupFails
  BY <1>11 DEF CleanupFails, CleanupDue
<1>. QED BY <1>1, <1>2, <1>3, <1>4, <1>5, <1>6, <1>7, <1>8, <1>9, <1>10,
            <1>11 DEF LifecycleStep, SweepStep

\* While a live source's upload counts as uploaded, the object holds exactly the
\* bytes the source row describes: a replacement that was refused, rejected or
\* taken back has left them, and nobody else's PUT or deletion touched them.
THEOREM AcknowledgedBytesStand == Spec => []UploadedBytesAreDescribed
<1>1. Init => BytesInv
  BY DEF Init, BytesInv, Carrying, TakenBack, NothingYet, Sending, Holding,
         NoUpload, NoJob
<1>2. Inductive /\ TypeOK' /\ BytesInv /\ [Next]_vars => BytesInv'
  <2>1. BytesInv /\ UNCHANGED vars => BytesInv'
    BY DEF vars, BytesInv, Carrying, TakenBack, NothingYet, Described
  <2>. QED BY <2>1, UploaderKeepsBytes, StoreKeepsBytes, OtherKeepsBytes
           DEF Next
<1>3. BytesInv => UploadedBytesAreDescribed
  BY DEF BytesInv, Described, UploadedBytesAreDescribed
<1>. QED BY <1>1, <1>2, <1>3, TypeCorrect, ErasureInvariant, PTL
         DEF Spec, Inductive

-----------------------------------------------------------------------------
(* The protocol implements its erasure receipt.                            *)

bytes == ({object} \ {Nothing}) \union {p.content : p \in puts}
void == "unrecorded_put" \in faults

\* What a step may do to the bytes, the receipt and the fault it is void under.
ReceiptStep ==
    /\ \/ tombstone'.storage = tombstone.storage
       \/ /\ tombstone.storage = "none" /\ tombstone'.storage = "pending"
          /\ UNCHANGED <<bytes, void>>
       \/ /\ tombstone.storage = "pending" /\ tombstone'.storage = "completed"
          /\ UNCHANGED void
    /\ tombstone.storage # "none" => bytes' \subseteq bytes
    /\ void => void'
    /\ void' # void => UNCHANGED <<bytes, tombstone>>

\* Every step does to the receipt and the bytes what an erasure receipt allows.
LEMMA ReceiptSteps ==
    ASSUME Inductive, Next PROVE ReceiptStep
<1>1. CASE \E u \in Uploaders : UploaderStep(u)
  <2> SUFFICES ASSUME NEW u \in Uploaders, UploaderStep(u)
               PROVE  ReceiptStep
    BY <1>1
  <2>1. CASE PutSourceBlobWithFence(u)
    <3>1. tombstone.storage = "none"
      BY <2>1 DEF PutSourceBlobWithFence, MayWrite, Live, Inductive,
                  ErasureInv, TombstoneShape
    <3>. QED BY <2>1, <3>1 DEF PutSourceBlobWithFence, ReceiptStep, void
  <2>2. CASE UNCHANGED <<object, puts, tombstone, faults>>
    BY <2>2 DEF ReceiptStep, bytes, void
  <2>3. CASE BeginSourceBlobUpload(u)
    BY <2>3 DEF BeginSourceBlobUpload, ReceiptStep, bytes, void
  <2>4. CASE PutSessionLost(u) \/ Crash(u)
    BY <2>4 DEF PutSessionLost, Crash, ReceiptStep, bytes, void
  <2>. QED
    BY <2>1, <2>2, <2>3, <2>4
    DEF UploaderStep, World, InsertSources, ReplaceFileContent,
        ReserveSourceBlobUpload, ReserveRefused, RefusedBeforePut,
        PutAcknowledged, PutRejected, PutOutcomeUnknown,
        CancelSourceBlobUploadBeforePut, RecordFailedSourceBlobUpload
<1>2. CASE StoreStep
  <2> SUFFICES ASSUME NEW p \in puts,
                      StoreApplies(p) \/ StoreRejects(p) \/ StoreDrops(p)
               PROVE  ReceiptStep
    BY <1>2 DEF StoreStep
  <2>. QED BY DEF StoreApplies, StoreRejects, StoreDrops, Settle, ReceiptStep,
                  bytes, void
<1>3. CASE LifecycleStep \/ SweepStep
  <2>1. tombstone \in [state : {"none", "tombstoned", "finalized"},
                       storage : {"none", "pending", "completed"}]
    BY DEF Inductive, TypeOK
  <2>2. erase = "mark" => tombstone.storage # "none"
    BY DEF Inductive, ErasureInv, EraseProgress
  <2>3. Tombstone => tombstone.storage = "none"
    BY DEF Tombstone, Live, Inductive, ErasureInv, TombstoneShape
  <2>. QED
    BY <1>3, <2>1, <2>2, <2>3
    DEF LifecycleStep, SweepStep, World, ReceiptStep, bytes, void,
        OtherSourceWrite, Tombstone, RestoreOrPurge,
        ListSourceLifecycleStorageCleanupKeys, EraseDelete,
        MarkSourceTreeStorageCleanupCompleted, EraseAbandoned,
        RecoverAbandoned, RecoverTombstoned, StartSweep,
        CompletePendingCleanup, CleanupFails
<1>. QED BY <1>1, <1>2, <1>3 DEF Next

\* A caller who sees the storage cleanup of a tombstone only as a receipt, with
\* the bytes that exist or may still appear, sees an ErasureReceipt.
THEOREM ReceiptRefinement == Spec => ImplementsErasureReceipt
<1>1. Init => Receipt!Init
  BY DEF Init, Receipt!Init
<1>2. ErasureInv /\ ErasureInv' /\ TypeOK /\ [Next]_vars
        => [Receipt!Next]_Receipt!vars
  <2> SUFFICES ASSUME ErasureInv, ErasureInv', TypeOK, [Next]_vars
               PROVE  [Receipt!Next]_Receipt!vars
    OBVIOUS
  <2> USE DEF Receipt!vars
  <2>1. CASE UNCHANGED vars
    BY <2>1 DEF vars
  <2>2. CASE Next
    <3>1. ReceiptStep
      BY <2>2, ReceiptSteps DEF Inductive
    <3>2. tombstone.storage \in {"none", "pending", "completed"}
      BY DEF TypeOK
    <3>3. ~void /\ tombstone.storage = "completed" => bytes = {}
      BY DEF ErasureInv, ErasureIsFinal, bytes, void
    <3>4. ~void' /\ tombstone'.storage = "completed" => bytes' = {}
      BY DEF ErasureInv, ErasureIsFinal, bytes, void
    <3>5. CASE void
      BY <3>1, <3>2, <3>5 DEF ReceiptStep, bytes, void, Receipt!Next,
                              Receipt!Unprotected
    <3>6. CASE ~void /\ void'
      BY <3>1, <3>6 DEF ReceiptStep, bytes, void, Receipt!Next, Receipt!Void
    <3>7. CASE ~void /\ ~void'
      <4>1. UNCHANGED ("unrecorded_put" \in faults)
        BY <3>7 DEF void
      <4>2. CASE UNCHANGED tombstone.storage /\ tombstone.storage = "none"
        BY <4>1, <4>2 DEF Receipt!Next, Receipt!Work
      <4>3. CASE UNCHANGED tombstone.storage /\ tombstone.storage = "pending"
        BY <3>1, <4>1, <4>3
        DEF ReceiptStep, bytes, Receipt!Next, Receipt!Remove
      <4>4. CASE UNCHANGED tombstone.storage /\ tombstone.storage = "completed"
        <5>1. bytes = {} /\ bytes' = {}
          BY <3>3, <3>4, <3>7, <4>4
        <5>. QED BY <4>1, <4>4, <5>1 DEF bytes
      <4>5. CASE tombstone.storage = "none" /\ tombstone'.storage = "pending"
        BY <3>1, <4>1, <4>5
        DEF ReceiptStep, bytes, Receipt!Next, Receipt!Request
      <4>6. CASE /\ tombstone.storage = "pending"
                 /\ tombstone'.storage = "completed"
        BY <3>4, <3>7, <4>1, <4>6 DEF bytes, Receipt!Next, Receipt!Complete
      <4>. QED BY <3>1, <3>2, <4>2, <4>3, <4>4, <4>5, <4>6 DEF ReceiptStep
    <3>. QED BY <3>5, <3>6, <3>7
  <2>. QED BY <2>1, <2>2
<1>. QED BY <1>1, <1>2, TypeCorrect, ErasureInvariant, PTL
         DEF Spec, ImplementsErasureReceipt, Receipt!Spec

=============================================================================
