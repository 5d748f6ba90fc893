-------------------------- MODULE SourceBlobUpload --------------------------
(***************************************************************************)
(* The bytes of one file source: the source row, its upload reservation   *)
(* row in PostgreSQL, the object at the source's stable key in MinIO, the  *)
(* PUT requests still travelling to it, the tombstone that erases it all,  *)
(* and the processes that work on them:                                    *)
(*                                                                         *)
(*   - uploaders: requests inside sourceService.insertSources or           *)
(*     replaceFileContent (reserve, begin, put, then the error paths);     *)
(*   - the lifecycle command (tombstone, restore, purge) and the direct    *)
(*     cleanup its caller runs after it;                                   *)
(*   - the storage cleanup sweep;                                          *)
(*   - the object store, which may store, refuse or lose a PUT, at any     *)
(*     time after it was sent, also after its sender gave up or died.      *)
(*                                                                         *)
(* A PostgreSQL transaction is one step, except the one that holds its row *)
(* locks across the PUT.  Abstractions: source.version is only compared    *)
(* for equality and only grows, so `fence` is the set of uploaders whose   *)
(* version is still the row's; the updatedAt stamp of a reservation is the *)
(* uploader that wrote it; "older than one hour" is a choice of the sweep. *)
(***************************************************************************)

CONSTANTS
    Uploaders,   \* upload requests; each runs once, to its end or its crash
    Contents,    \* the bytes they send
    Nothing,     \* no bytes
    Nobody       \* no uploader

ASSUME NothingAssumption == Nothing \notin Contents
ASSUME NobodyAssumption == Nobody \notin Uploaders

VARIABLES
    source,      \* sources row: presence, status = failed, described bytes
    upload,      \* source_blob_uploads row: state, writer, uploadedAt # null
    object,      \* what MinIO holds at the key
    puts,        \* PUT requests sent and neither stored, refused nor lost
    tombstone,   \* source_tombstones row: state and storageCleanupState
    pc,          \* where each uploader is
    job,         \* what each uploader was asked and remembers
    fence,       \* uploaders whose expected source version is current
    sweep,       \* where the cleanup sweep is
    erase,       \* where the direct cleanup is
    faults       \* which events the protocol has no answer to have happened

vars == <<source, upload, object, puts, tombstone, pc, job, fence, sweep,
          erase, faults>>

-----------------------------------------------------------------------------
UploadStates == {"none", "reserved", "uploading", "upload_unknown",
                 "uploaded", "cleanup_pending", "cleanup_completed"}

Upload == [state : UploadStates, owner : Uploaders \union {Nobody},
           acked : BOOLEAN]

NoUpload == [state |-> "none", owner |-> Nobody, acked |-> FALSE]

Put == [by : Uploaders, content : Contents \union {Nothing}]

Job == [kind : {"none", "insert", "replace"},
        content : Contents \union {Nothing},
        prev : Upload,
        mark : {"cleanup_pending", "upload_unknown"}]

NoJob == [kind |-> "none", content |-> Nothing, prev |-> NoUpload,
          mark |-> "cleanup_pending"]

\* The steps at which putSourceBlobWithFence holds the source and upload rows.
Holding == {"putting", "stored", "rejected"}

\* A PUT's transaction ended without recording the PUT's outcome; an uploader
\* began on a reservation that another uploader had made.
Faults == {"unrecorded_put", "adopted_reservation"}

PCs == {"idle", "reserve", "begin", "put", "cancel", "fail", "done"}
         \union Holding

TypeOK ==
    /\ source \in [row : {"none", "live", "deleted"}, failed : BOOLEAN,
                   content : Contents \union {Nothing}]
    /\ upload \in Upload
    /\ object \in Contents \union {Nothing}
    /\ puts \in SUBSET Put
    /\ tombstone \in [state : {"none", "tombstoned", "finalized"},
                      storage : {"none", "pending", "completed"}]
    /\ pc \in [Uploaders -> PCs]
    /\ job \in [Uploaders -> Job]
    /\ fence \in SUBSET Uploaders
    /\ sweep \in {"idle", "delete"}
    /\ erase \in {"idle", "delete", "mark"}
    /\ faults \in SUBSET Faults

Init ==
    /\ source = [row |-> "none", failed |-> FALSE, content |-> Nothing]
    /\ upload = NoUpload
    /\ object = Nothing
    /\ puts = {}
    /\ tombstone = [state |-> "none", storage |-> "none"]
    /\ pc = [u \in Uploaders |-> "idle"]
    /\ job = [u \in Uploaders |-> NoJob]
    /\ fence = {}
    /\ sweep = "idle"
    /\ erase = "idle"
    /\ faults = {}

-----------------------------------------------------------------------------
(* Guards and effects several handlers share.                              *)

\* Nobody holds the rows across a PUT, so a transaction that locks them runs.
Unlocked == \A u \in Uploaders : pc[u] \notin Holding

\* Slip: deletion is not noticed by writers.
NotRemoved == source.row # "none"

\* The checks of the source write fence that this component can fail.
Live == source.row = "live" /\ tombstone.state = "none"

MayWrite(u) ==
    /\ Unlocked
    /\ Live
    /\ job[u].kind = "replace" => u \in fence

Goto(u, l) == pc' = [pc EXCEPT ![u] = l]

\* The request is over: it forgets what it knew.
Finish(u) ==
    /\ Goto(u, "done")
    /\ job' = [job EXCEPT ![u] = NoJob]

\* The request goes to its catch; `mark` is what that would record.
Catch(u, mark) ==
    /\ Goto(u, "fail")
    /\ job' = [job EXCEPT ![u] = [NoJob EXCEPT !.mark = mark]]

\* A replacement takes back its reservation.
Undo(u) ==
    /\ Goto(u, "cancel")
    /\ job' = [job EXCEPT ![u].content = Nothing]

\* UPDATE sources SET status = 'failed' on a live row; the version trigger
\* moves only when the status really changes.
MarkSourceFailed ==
    IF source.row = "live"
    THEN /\ source' = [source EXCEPT !.failed = TRUE]
         /\ fence' = IF source.failed THEN fence ELSE {}
    ELSE UNCHANGED <<source, fence>>

World == <<object, puts, tombstone, sweep, erase, faults>>

-----------------------------------------------------------------------------
(* Uploaders.                                                              *)

\* insertSources committed a fresh row; the payload is still to be written.
InsertSources(u, c) ==
    /\ pc[u] = "idle"
    /\ source.row = "none" /\ tombstone.state = "none"
    /\ source' = [row |-> "live", failed |-> FALSE, content |-> Nothing]
    /\ job' = [job EXCEPT ![u] = [NoJob EXCEPT !.kind = "insert",
                                               !.content = c]]
    /\ Goto(u, "reserve")
    /\ UNCHANGED <<upload, fence, World>>

\* replaceFileContent reads the row, and its version, without a lock.
ReplaceFileContent(u, c) ==
    /\ pc[u] = "idle"
    /\ source.row = "live"
    /\ fence' = fence \union {u}
    /\ job' = [job EXCEPT ![u] = [NoJob EXCEPT !.kind = "replace",
                                               !.content = c]]
    /\ Goto(u, "reserve")
    /\ UNCHANGED <<source, upload, World>>

Replaceable == {"uploaded", "cleanup_pending", "cleanup_completed"}

ReserveSourceBlobUpload(u) ==
    /\ pc[u] = "reserve"
    /\ MayWrite(u)
    /\ \/ upload.state = "none"
       \/ job[u].kind = "replace" /\ upload.state \in Replaceable
    /\ upload' = [state |-> "reserved", owner |-> u, acked |-> FALSE]
    /\ job' = [job EXCEPT ![u].prev = upload]
    /\ Goto(u, "begin")
    /\ UNCHANGED <<source, fence, World>>

\* The reservation transaction threw.  The catch of insertSources records a
\* failed upload whatever threw; replaceFileContent has nothing to undo.
ReserveRefused(u) ==
    /\ pc[u] = "reserve"
    /\ IF job[u].kind = "insert" THEN Catch(u, "cleanup_pending") ELSE Finish(u)
    /\ fence' = fence \ {u}
    /\ UNCHANGED <<source, upload, World>>

\* The state is checked, the stamp is not: a begin that stalled past the sweep
\* can take over the reservation another uploader made since.
BeginSourceBlobUpload(u) ==
    /\ pc[u] = "begin"
    /\ MayWrite(u)
    /\ upload.state = "reserved"
    /\ upload' = [upload EXCEPT !.state = "uploading", !.owner = u]
    /\ faults' = IF upload.owner = u THEN faults
                 ELSE faults \union {"adopted_reservation"}
    /\ Goto(u, "put")
    /\ UNCHANGED <<source, object, puts, tombstone, job, fence, sweep, erase>>

\* No PUT was sent: an insert records a failed upload, a replacement cancels.
RefusedBeforePut(u) ==
    /\ pc[u] \in {"begin", "put"}
    /\ IF job[u].kind = "insert" THEN Catch(u, "cleanup_pending") ELSE Undo(u)
    /\ fence' = fence \ {u}
    /\ UNCHANGED <<source, upload, World>>

\* Only a replacement compares the reservation's stamp with its own.
PutSourceBlobWithFence(u) ==
    /\ pc[u] = "put"
    /\ MayWrite(u)
    /\ upload.state = "uploading"
    /\ job[u].kind = "replace" => upload.owner = u
    /\ puts' = puts \union {[by |-> u, content |-> job[u].content]}
    /\ Goto(u, "putting")
    /\ UNCHANGED <<source, upload, object, tombstone, job, fence, sweep,
                   erase, faults>>

\* Slip: the acknowledged state gets the source's word for it.
PutAcknowledgedMisnamed(u) ==
    /\ pc[u] = "stored"
    /\ source' = [source EXCEPT !.failed = FALSE, !.content = job[u].content]
    /\ upload' = [state |-> "completed", owner |-> Nobody, acked |-> TRUE]
    /\ fence' = {}
    /\ Finish(u)
    /\ UNCHANGED World

\* HTTP 200 arrived: the source row, the receipt and the upload row commit.
PutAcknowledged(u) ==
    /\ pc[u] = "stored"
    /\ source' = [source EXCEPT !.failed = FALSE, !.content = job[u].content]
    /\ upload' = [state |-> "uploaded", owner |-> Nobody, acked |-> TRUE]
    /\ fence' = {}
    /\ Finish(u)
    /\ UNCHANGED World

\* A complete non-200 answer: the transaction rolls back and the caller undoes.
PutRejected(u) ==
    /\ pc[u] = "rejected"
    /\ IF job[u].prev.state = "uploaded"
       THEN Undo(u) ELSE Catch(u, "cleanup_pending")
    /\ fence' = fence \ {u}
    /\ UNCHANGED <<source, upload, World>>

\* Slip: a timeout is treated as a failure that cleanup may settle.
PutOutcomeAssumedFailed(u) ==
    /\ pc[u] \in {"putting", "stored"}
    /\ upload' = [upload EXCEPT !.state = "cleanup_pending", !.owner = Nobody]
    /\ MarkSourceFailed
    /\ Catch(u, "cleanup_pending")
    /\ UNCHANGED World

\* Timeout or lost answer: commit the unknown outcome before the locks go.
PutOutcomeUnknown(u) ==
    /\ pc[u] \in {"putting", "stored"}
    /\ upload' = [upload EXCEPT !.state = "upload_unknown", !.owner = Nobody]
    /\ MarkSourceFailed
    /\ Catch(u, IF job[u].kind = "replace"
                THEN "upload_unknown" ELSE "cleanup_pending")
    /\ UNCHANGED World

\* The database session ends under a PUT, or its commit fails: the locks go,
\* nothing is recorded, the uploader lives on to its catch.
PutSessionLost(u) ==
    /\ pc[u] \in {"putting", "stored"}
    /\ faults' = faults \union {"unrecorded_put"}
    /\ Catch(u, IF job[u].kind = "replace"
                THEN "upload_unknown" ELSE "cleanup_pending")
    /\ fence' = fence \ {u}
    /\ UNCHANGED <<source, upload, object, puts, tombstone, sweep, erase>>

\* Slip: the reservation is restored although the source was erased meanwhile.
CancelUnconditionally(u) ==
    /\ pc[u] = "cancel"
    /\ Unlocked
    /\ upload' = job[u].prev
    /\ Finish(u)
    /\ UNCHANGED <<source, fence, World>>

CancelSourceBlobUploadBeforePut(u) ==
    /\ pc[u] = "cancel"
    /\ Unlocked
    /\ upload' = IF /\ source.row = "live"
                    /\ upload.state \in {"reserved", "uploading"}
                    /\ upload.owner = u
                 THEN job[u].prev ELSE upload
    /\ Finish(u)
    /\ UNCHANGED <<source, fence, World>>

RecordFailedSourceBlobUpload(u) ==
    /\ pc[u] = "fail"
    /\ Unlocked
    /\ upload' = IF upload.state \in {"none", "cleanup_completed",
                                      "upload_unknown"}
                 THEN upload
                 ELSE [upload EXCEPT !.state = job[u].mark, !.owner = Nobody]
    /\ MarkSourceFailed
    /\ Finish(u)
    /\ UNCHANGED World

\* The process dies: its transaction rolls back, its PUT may still arrive.
Crash(u) ==
    /\ pc[u] \notin {"idle", "done"}
    /\ faults' = IF pc[u] \in {"putting", "stored"}
                 THEN faults \union {"unrecorded_put"} ELSE faults
    /\ Finish(u)
    /\ fence' = fence \ {u}
    /\ UNCHANGED <<source, upload, object, puts, tombstone, sweep, erase>>

-----------------------------------------------------------------------------
(* The object store.                                                       *)

Settle(p, l) ==
    /\ puts' = puts \ {p}
    /\ pc' = IF pc[p.by] = "putting" THEN [pc EXCEPT ![p.by] = l] ELSE pc
    /\ UNCHANGED <<source, upload, tombstone, job, fence, sweep, erase,
                   faults>>

StoreApplies(p) == object' = p.content /\ Settle(p, "stored")

StoreRejects(p) == pc[p.by] = "putting" /\ Settle(p, "rejected")
                     /\ UNCHANGED object

StoreDrops(p) == Settle(p, "putting") /\ UNCHANGED object

-----------------------------------------------------------------------------
(* Other writers of the source row, and its lifecycle.                     *)

\* Ingestion, metadata and status writers: version moves, status may change.
OtherSourceWrite(failed) ==
    /\ Unlocked
    /\ source.row = "live"
    /\ source' = [source EXCEPT !.failed = failed]
    /\ fence' = {}
    /\ UNCHANGED <<upload, pc, job, World>>

\* An erased upload owes physical cleanup; an unknown one keeps its fence.
RequestSourceBlobUploadCleanup ==
    IF upload.state \in {"none", "cleanup_completed", "upload_unknown"}
    THEN upload
    ELSE [upload EXCEPT !.state = "cleanup_pending", !.owner = Nobody]

Tombstone ==
    /\ Unlocked
    /\ Live
    /\ source' = [source EXCEPT !.row = "deleted", !.content = Nothing]
    /\ upload' = RequestSourceBlobUploadCleanup
    /\ tombstone' = [state |-> "tombstoned", storage |-> "pending"]
    /\ fence' = {}
    /\ UNCHANGED <<object, puts, pc, job, sweep, erase, faults>>

\* Restore and purge delete the blank row; the tombstone outlives it.  They
\* differ only in what may follow under another source id.
RestoreOrPurge ==
    /\ source.row = "deleted"
    /\ tombstone.state = "tombstoned"
    /\ source' = [row |-> "none", failed |-> FALSE, content |-> Nothing]
    /\ tombstone' = [tombstone EXCEPT !.state = "finalized"]
    /\ UNCHANGED <<upload, object, puts, pc, job, fence, sweep, erase,
                   faults>>

-----------------------------------------------------------------------------
(* Direct cleanup by the caller of a lifecycle command (or its replay).    *)

\* Keys of unknown uploads are filtered out of the deletion list.
ListSourceLifecycleStorageCleanupKeys ==
    /\ erase = "idle"
    /\ tombstone.storage = "pending"
    /\ erase' = IF upload.state = "upload_unknown" THEN "mark" ELSE "delete"
    /\ UNCHANGED <<source, upload, object, puts, tombstone, pc, job, fence,
                   sweep, faults>>

EraseDelete ==
    /\ erase = "delete"
    /\ object' = Nothing
    /\ erase' = "mark"
    /\ UNCHANGED <<source, upload, puts, tombstone, pc, job, fence, sweep,
                   faults>>

\* An upload nobody acknowledged belongs to the sweep.
Unacknowledged == /\ upload.state \notin {"none", "cleanup_completed"}
                  /\ ~upload.acked

\* Slip: the direct cleanup completes receipts the sweep still owns.
MarkAnyStorageCleanupCompleted ==
    /\ erase = "mark"
    /\ tombstone' = [tombstone EXCEPT !.storage = "completed"]
    /\ erase' = "idle"
    /\ UNCHANGED <<source, upload, object, puts, pc, job, fence, sweep,
                   faults>>

MarkSourceTreeStorageCleanupCompleted ==
    /\ erase = "mark"
    /\ tombstone' = [tombstone EXCEPT !.storage =
                       IF Unacknowledged THEN @ ELSE "completed"]
    /\ erase' = "idle"
    /\ UNCHANGED <<source, upload, object, puts, pc, job, fence, sweep,
                   faults>>

\* The caller dies, or MinIO refuses: the durable receipt stays pending.
EraseAbandoned ==
    /\ erase # "idle"
    /\ erase' = "idle"
    /\ UNCHANGED <<source, upload, object, puts, tombstone, pc, job, fence,
                   sweep, faults>>

-----------------------------------------------------------------------------
(* The cleanup sweep.                                                      *)

\* Slip: only reservations, not begun uploads, are ever recovered.
AbandonedReservation == upload.state = "reserved" /\ tombstone.state = "none"

\* A reservation older than an hour, with no tombstone, becomes cleanup work.
Abandoned == /\ upload.state \in {"reserved", "uploading"}
             /\ tombstone.state = "none"

\* A tombstone's cleanup, unless the outcome of its PUT is unknown, and every
\* upload waiting for cleanup.  Unknown uploads are only moved to the back.
Listed(up) == \/ up.state = "cleanup_pending"
              \/ tombstone.storage = "pending" /\ up.state # "upload_unknown"

\* The first statements of a sweep, and the snapshot the rest works from.
StartSweep(up) ==
    /\ sweep = "idle"
    /\ upload' = up
    /\ sweep' = IF Listed(up) THEN "delete" ELSE "idle"
    /\ UNCHANGED <<object, puts, tombstone, pc, job, erase, faults>>

RecoverAbandoned ==
    /\ Unlocked
    /\ Abandoned
    /\ StartSweep([upload EXCEPT !.state = "cleanup_pending",
                                 !.owner = Nobody])
    /\ MarkSourceFailed

\* Nothing is old enough; reservations of a pending tombstone are repaired.
RecoverTombstoned ==
    /\ StartSweep(IF /\ tombstone.storage = "pending"
                     /\ upload.state \in {"reserved", "uploading", "uploaded"}
                  THEN [upload EXCEPT !.state = "cleanup_pending",
                                      !.owner = Nobody]
                  ELSE upload)
    /\ UNCHANGED <<source, fence>>

\* Slip: a cleanup trusts its snapshot; a cleanup forgets uploads that never were.
CleanupTrustsSnapshot == TRUE

CleanupNeedsUpload == upload.state = "cleanup_pending"

CleanupDue ==
    /\ upload.state \in {"none", "cleanup_pending", "cleanup_completed"}
    /\ upload.state = "cleanup_pending" \/ tombstone.storage = "pending"

CompletePendingCleanup ==
    /\ sweep = "delete"
    /\ Unlocked
    /\ IF CleanupDue
       THEN /\ object' = Nothing
            /\ upload' = [upload EXCEPT !.state =
                            IF @ = "cleanup_pending"
                            THEN "cleanup_completed" ELSE @]
            /\ tombstone' = [tombstone EXCEPT !.storage =
                               IF @ = "pending" THEN "completed" ELSE @]
       ELSE UNCHANGED <<object, upload, tombstone>>
    /\ sweep' = "idle"
    /\ UNCHANGED <<source, puts, pc, job, fence, erase, faults>>

\* MinIO or the commit fails: the object may be gone, the rows roll back.
CleanupFails ==
    /\ sweep = "delete"
    /\ Unlocked
    /\ object' \in IF CleanupDue THEN {object, Nothing} ELSE {object}
    /\ sweep' = "idle"
    /\ UNCHANGED <<source, upload, puts, tombstone, pc, job, fence, erase,
                   faults>>

-----------------------------------------------------------------------------
UploaderStep(u) ==
    \/ \E c \in Contents : InsertSources(u, c) \/ ReplaceFileContent(u, c)
    \/ ReserveSourceBlobUpload(u) \/ ReserveRefused(u)
    \/ BeginSourceBlobUpload(u) \/ RefusedBeforePut(u)
    \/ PutSourceBlobWithFence(u) \/ PutAcknowledged(u) \/ PutRejected(u)
    \/ PutOutcomeUnknown(u) \/ PutSessionLost(u)
    \/ CancelSourceBlobUploadBeforePut(u) \/ RecordFailedSourceBlobUpload(u)
    \/ Crash(u)

StoreStep == \E p \in puts : StoreApplies(p) \/ StoreRejects(p) \/ StoreDrops(p)

LifecycleStep ==
    \/ \E failed \in BOOLEAN : OtherSourceWrite(failed)
    \/ Tombstone
    \/ RestoreOrPurge
    \/ ListSourceLifecycleStorageCleanupKeys \/ EraseDelete
    \/ MarkSourceTreeStorageCleanupCompleted \/ EraseAbandoned

SweepStep ==
    \/ RecoverAbandoned \/ RecoverTombstoned
    \/ CompletePendingCleanup \/ CleanupFails

Next ==
    \/ \E u \in Uploaders : UploaderStep(u)
    \/ StoreStep
    \/ LifecycleStep
    \/ SweepStep

Spec == Init /\ [][Next]_vars

\* A PUT ends within SOURCE_BLOB_UPLOAD_TIMEOUT_MS, so its locks are released;
\* the sweep is called again and again, and a deletion does not fail forever.
\* A reservation that stays is eventually older than an hour when a sweep runs.
Fairness ==
    /\ \A u \in Uploaders : WF_vars(PutAcknowledged(u) \/ PutRejected(u)
                                     \/ PutOutcomeUnknown(u))
    /\ WF_vars(RecoverAbandoned \/ RecoverTombstoned)
    /\ SF_vars(RecoverAbandoned)
    /\ SF_vars(CompletePendingCleanup)

FairSpec == Spec /\ Fairness

-----------------------------------------------------------------------------
(* What the component owes, as long as no fault it cannot answer happened. *)

\* Two PUTs never race for the stable key: a PUT that may still land is the one
\* under the row locks, or its durable upload_unknown fence keeps others out.
SinglePut ==
    "unrecorded_put" \in faults \/ \A p \in puts :
        /\ \A q \in puts : q = p
        /\ pc[p.by] = "putting" \/ upload.state = "upload_unknown"

\* While a live source's upload counts as uploaded, the object holds exactly
\* the bytes the source row describes.
UploadedBytesAreDescribed ==
    faults # {} \/ (source.row = "live" /\ upload.state = "uploaded"
                     => object # Nothing /\ object = source.content)

\* Once a tombstone reports its storage cleaned up, no bytes are at the key and
\* none can arrive any more.
ErasureIsFinal ==
    "unrecorded_put" \in faults \/ (tombstone.storage = "completed"
                     => object = Nothing /\ puts = {})

\* From the tombstone on, no reservation can carry an upload forward and no
\* uploader holds the rows.
TombstoneClosesUpload ==
    tombstone.state # "none"
      => /\ Unlocked
         /\ upload.state \notin {"reserved", "uploading", "uploaded"}

\* A pending cleanup ends, unless an upload's outcome is unknown: no crash, lost
\* PUT or failed deletion leaves it pending forever.
ErasureSettles ==
    tombstone.storage = "pending"
      ~> tombstone.storage = "completed" \/ upload.state = "upload_unknown"

\* A reservation does not stay open forever, whoever died while it was open.
ReservationSettles ==
    upload.state \in {"reserved", "uploading"}
      ~> upload.state \notin {"reserved", "uploading"}

\* The receipt of this component is an erasure receipt: the bytes are those at
\* the key and those in flight, an unrecorded PUT voids it.
Receipt == INSTANCE ErasureReceipt WITH
    bytes <- ({object} \ {Nothing}) \union {p.content : p \in puts},
    receipt <- tombstone.storage,
    void <- "unrecorded_put" \in faults

ImplementsErasureReceipt == Receipt!Spec

-----------------------------------------------------------------------------
(* Why the erasure promise holds: an inductive strengthening of it.        *)

Recorded == "unrecorded_put" \notin faults

\* Rows held across a PUT are those of a live source with a begun upload.
LockHolder ==
    \A u \in Uploaders : pc[u] \in Holding =>
        /\ Live /\ upload.state = "uploading"
        /\ \A v \in Uploaders : pc[v] \in Holding => v = u

\* uploadedAt is set by an acknowledgement only, and an upload whose outcome
\* is unknown has none.
Acknowledgement ==
    /\ upload.state \in {"none", "reserved", "uploading"} => ~upload.acked
    /\ Recorded /\ upload.state = "upload_unknown" => ~upload.acked

\* A request restores only a state it may replace, and records an unknown
\* outcome only where the PUT's own transaction has recorded it before.
Memory ==
    \A u \in Uploaders :
        /\ job[u].prev.state \in {"none"} \union Replaceable
        /\ job[u].prev.state = "none" => ~job[u].prev.acked
        /\ Recorded /\ pc[u] = "fail" /\ job[u].mark = "upload_unknown"
             => upload.state = "upload_unknown"

TombstoneShape ==
    /\ tombstone.state = "none" <=> tombstone.storage = "none"
    /\ source.row = "live" => tombstone.state = "none"
    /\ source.row = "deleted" => tombstone.state = "tombstoned"

\* The direct cleanup has deleted what it is about to report, or skips it.
EraseProgress ==
    /\ erase # "idle" => tombstone.storage # "none"
    /\ Recorded /\ erase = "mark" => \/ upload.state = "upload_unknown"
                                     \/ object = Nothing /\ puts = {}

ErasureInv ==
    /\ LockHolder /\ SinglePut /\ Acknowledgement /\ Memory
    /\ TombstoneShape /\ TombstoneClosesUpload
    /\ EraseProgress /\ ErasureIsFinal

-----------------------------------------------------------------------------
(* What the repository says of this component and the code does not do.    *)

\* sources.ts: "A tombstone therefore waits for this put's acknowledgement or
\* durable unknown receipt."
TombstoneWaitsForPut ==
    tombstone.state # "none" /\ puts # {} => upload.state = "upload_unknown"

\* sources.ts: "only definite failures may enter physical cleanup": the upload
\* of a source that stays live is not cleaned up once it was acknowledged.
OnlyDefiniteFailuresEnterCleanup ==
    [][upload.state = "uploaded" /\ source'.row = "live"
         => upload'.state # "cleanup_pending"]_vars

\* README.md: "An unknown-outcome receipt stays open until cleanup observes and
\* deletes the object."
UnknownReceiptIsCleanedUp ==
    upload.state = "upload_unknown" /\ object # Nothing ~> object = Nothing

=============================================================================
