-------------------------- MODULE SourceProcessing --------------------------
(***************************************************************************)
(* From an ingestion request to an extracted graph: one document source,   *)
(* its processing receipts (source_ingestion_operations), their BullMQ     *)
(* jobs, the workers that run them, the client that retries them, and the  *)
(* claims extracted from the source.  The actors are                       *)
(*                                                                         *)
(*   - requests inside saveMemory: store or revise the content, accept it  *)
(*     with a receipt, put the job on the queue;                           *)
(*   - workers inside ingestDocument or ingestFile, which convert, extract *)
(*     chunk by chunk outside any transaction and finish the receipt;      *)
(*   - retrySourceProcessing, over PostgreSQL and Redis in turn;           *)
(*   - the source's lifecycle, which erases and purges it;                 *)
(*   - BullMQ, which hands a job to another worker when its lock expires,  *)
(*     whether or not the first worker still runs.                         *)
(*                                                                         *)
(* A PostgreSQL transaction is one step, a Redis call another.  Versions   *)
(* are only compared for equality with the row's and only grow, so `fresh` *)
(* is the set of holders whose remembered source version is the row's.     *)
(* Receipts are in creation order.                                         *)
(***************************************************************************)
EXTENDS Naturals, Sequences, FiniteSets

CONSTANTS
    Requests,     \* ingestion requests; each runs once
    Revisions,    \* content together with its extraction context
    Empty,        \* revisions whose content splits into no chunk
    Workers,      \* job executions at the same time
    LastChunk,    \* any other content has the chunks 1..LastChunk
    MaxAttempts,  \* attempts of a BullMQ job
    MaxStalls,    \* maxStalledCount of the queue
    Retries,      \* whether clients retry at all
    Blank         \* no revision

ASSUME BlankAssumption == Blank \notin Revisions
ASSUME EmptyAssumption == Empty \subseteq Revisions
ASSUME BoundAssumption == /\ LastChunk \in Nat \ {0}
                          /\ MaxAttempts \in Nat \ {0}
                          /\ MaxStalls \in Nat
                          /\ Retries \in BOOLEAN

VARIABLES
    source,    \* sources row: presence, revision of its content, status
    receipts,  \* source_ingestion_operations rows
    jobs,      \* the BullMQ job of each receipt
    claims,    \* how often each chunk of a revision is in the graph
    request,   \* where each request is and what it remembers
    run,       \* what each worker executes and remembers
    retry,     \* what the retrying client remembers
    fresh,     \* holders of the current source version
    overlap    \* a job ran twice at once

vars == <<source, receipts, jobs, claims, request, run, retry, fresh, overlap>>

-----------------------------------------------------------------------------
Chunks == 1 .. LastChunk
Receipts == 1 .. Len(receipts)

Closed == {"completed", "failed", "purged"}
Open == {"queued", "processing"}

Receipt == [revision : Revisions, owns : BOOLEAN, status : Open \union Closed,
            superseded : BOOLEAN]

JobStates == {"none", "waiting", "delayed", "active", "completed", "failed"}
Job == [state : JobStates, tries : 0 .. MaxAttempts, stalls : 0 .. MaxStalls]

Idle == [at |-> "idle", op |-> 0, content |-> Blank, chunk |-> 1,
         wrote |-> FALSE, final |-> FALSE, locked |-> FALSE]

Done == [at |-> "done", revision |-> Blank, expects |-> FALSE, op |-> 0]

NoRetry == [at |-> "idle", op |-> 0, status |-> "queued", job |-> "none",
            same |-> TRUE]

NoClaims == [x \in Revisions \X Chunks |-> 0]

\* Holders of a remembered source version.
Asked(q) == <<"request", q>>
Ran(w) == <<"run", w>>
Kept(i) == <<"receipt", i>>
Retried == <<"retry", 0>>

TypeOK ==
    /\ source \in [row : {"none", "live", "deleted", "gone"},
                   revision : Revisions \union {Blank},
                   status : {"pending", "processing", "completed", "failed"}]
    /\ receipts \in Seq(Receipt)
    /\ jobs \in Seq(Job) /\ Len(jobs) = Len(receipts)
    /\ claims \in [Revisions \X Chunks -> 0 .. 2]
    /\ request \in [Requests ->
          [at : {"idle", "read", "update", "found", "replace", "create", "add",
                 "done"},
           revision : Revisions \union {Blank}, expects : BOOLEAN,
           op : Receipts \union {0}]]
    /\ run \in [Workers ->
          [at : {"idle", "mark", "content", "convert", "start", "extract",
                 "finish", "caught", "thrown", "returned"},
           op : Receipts \union {0}, content : Revisions \union {Blank},
           chunk : Chunks, wrote : BOOLEAN, final : BOOLEAN,
           locked : BOOLEAN]]
    /\ retry \in [at : {"idle", "inspect", "restore", "validate", "reopen",
                        "requeue"},
                  op : Receipts \union {0}, status : Open \union Closed,
                  job : JobStates, same : BOOLEAN]
    /\ fresh \subseteq {Asked(q) : q \in Requests} \union
                       {Ran(w) : w \in Workers} \union
                       {Kept(i) : i \in Receipts} \union {Retried}
    /\ overlap \in BOOLEAN

Init ==
    /\ source = [row |-> "none", revision |-> Blank, status |-> "pending"]
    /\ receipts = <<>>
    /\ jobs = <<>>
    /\ claims = NoClaims
    /\ request = [q \in Requests |-> [at |-> "idle", revision |-> Blank,
                                      expects |-> FALSE, op |-> 0]]
    /\ run = [w \in Workers |-> Idle]
    /\ retry = NoRetry
    /\ fresh = {}
    /\ overlap = FALSE

-----------------------------------------------------------------------------
(* Shared effects.                                                         *)

Live == source.row = "live"

\* Slip: the holders are not told the version the change leaves behind.
VersionNotHandedOn(s, holders) ==
    /\ source' = [source EXCEPT !.status = s]
    /\ fresh' = IF source.status = s THEN fresh \union holders ELSE {}

\* UPDATE sources SET status: the version trigger moves only on a real change,
\* and the transaction hands the version it leaves behind to `holders`.
SetStatus(s, holders) ==
    /\ source' = [source EXCEPT !.status = s]
    /\ fresh' = holders \union IF source.status = s THEN fresh ELSE {}

\* Any write of a receipt row moves its updatedAt, so that a snapshot of it no
\* longer matches.
Touch(rows) ==
    retry' = [retry EXCEPT !.same = @ /\ retry.op \notin rows]

Write(i, status, superseded) ==
    /\ receipts' = [receipts EXCEPT ![i].status = status,
                                    ![i].superseded = superseded]
    /\ Touch({i})

\* isSuperseded: a receipt of the same source was created later.
Newer(i) == i < Len(receipts)

\* The receipt no longer speaks for the source row.
Overtaken(i) == Kept(i) \notin fresh \/ Newer(i)

\* The receipt of a revision, unless a later revision took its key away.
Owners(r) == {i \in Receipts : receipts[i].owns /\ receipts[i].revision = r}

Go(w, l) == run' = [run EXCEPT ![w].at = l]

Leave(q) == request' = [request EXCEPT ![q] = Done]

Rest == <<claims, jobs, overlap>>

-----------------------------------------------------------------------------
(* Requests: saveMemory for a contextual document.                         *)

\* The row and its content commit together; a duplicate finds them at once.
InsertIngestionSource(q, r) ==
    /\ request[q].at = "idle"
    /\ source.row = "none"
    /\ source' = [row |-> "live", revision |-> r, status |-> "completed"]
    /\ request' = [request EXCEPT ![q] =
                     [at |-> "read", revision |-> r, expects |-> TRUE,
                      op |-> 0]]
    /\ fresh' = {}
    /\ UNCHANGED <<receipts, retry, run, Rest>>

\* The new row is read back: its version, if its content is still the request's.
ReadCreated(q) ==
    /\ request[q].at = "read"
    /\ IF source.revision = request[q].revision
       THEN /\ request' = [request EXCEPT ![q].at = "create"]
            /\ fresh' = fresh \union {Asked(q)}
       ELSE Leave(q) /\ UNCHANGED fresh
    /\ UNCHANGED <<source, receipts, retry, run, Rest>>

\* The insert conflicts: read the row and the revision's receipt, unlocked.
FindExisting(q, r) ==
    /\ request[q].at = "idle"
    /\ source.row \in {"live", "deleted"}
    /\ request' = [request EXCEPT ![q] =
                     [at |-> IF Owners(r) # {} THEN "update"
                             ELSE IF source.revision = r THEN "create"
                             ELSE "replace",
                      revision |-> r, expects |-> FALSE, op |-> 0]]
    /\ UNCHANGED <<source, receipts, retry, run, fresh, Rest>>

\* Slip: a metadata update leaves open receipts at the old version.
NoneFollows == {}

\* Open receipts at the row's version follow a metadata update.
Followers == {i \in Receipts : /\ Kept(i) \in fresh
                               /\ receipts[i].status \in Open}

\* Known content: only metadata is revised, which may or may not change the row.
UpdateIngestionMetadata(q, changed) ==
    /\ request[q].at = "update"
    /\ IF Live /\ source.revision = request[q].revision
       THEN /\ fresh' = IF changed THEN {Kept(i) : i \in Followers} ELSE fresh
            /\ IF changed THEN Touch(Followers) ELSE UNCHANGED retry
            /\ request' = [request EXCEPT ![q].at = "found"]
       ELSE Leave(q) /\ UNCHANGED <<fresh, retry>>
    /\ UNCHANGED <<source, receipts, run, Rest>>

\* The receipt is read again; a queued one may still need its job.
FindUpdated(q) ==
    LET owners == Owners(request[q].revision)
        queued == {i \in owners : receipts[i].status = "queued"}
    IN /\ request[q].at = "found"
       /\ request' = [request EXCEPT ![q] =
            CASE owners = {} -> [@ EXCEPT !.at = "create"]
              [] queued # {} -> [@ EXCEPT !.at = "add",
                                          !.op = CHOOSE i \in queued : TRUE]
              [] OTHER -> Done]
       /\ UNCHANGED <<source, receipts, retry, run, fresh, Rest>>

\* New content: the receipts give up their keys and what was extracted from
\* the old content goes; the same content with the same timestamp leaves the
\* row's version alone.  A receipt accepted meanwhile for the same content
\* makes the request fail; so does a removed source.
ReplaceInlineContent(q) ==
    LET r == request[q].revision
        same == source.revision = r /\ source.status = "pending"
    IN /\ request[q].at = "replace"
       /\ IF Live /\ Owners(r) = {}
          THEN /\ source' = [source EXCEPT !.revision = r,
                                           !.status = "pending"]
               /\ \/ fresh' = {Asked(q)}
                  \/ same /\ fresh' = fresh \union {Asked(q)}
               /\ receipts' = [i \in Receipts |->
                                 [receipts[i] EXCEPT !.owns = FALSE]]
               /\ claims' = NoClaims
               /\ request' = [request EXCEPT ![q].at = "create",
                                             ![q].expects = TRUE]
          ELSE Leave(q) /\ UNCHANGED <<source, fresh, receipts, claims>>
       /\ UNCHANGED <<jobs, run, retry, overlap>>

\* The revision's receipt, created or reused, or a version conflict.
CreateSourceIngestionOperation(q) ==
    LET r == request[q].revision IN
    /\ request[q].at = "create"
    /\ \/ /\ Live /\ source.revision = r /\ Owners(r) # {}
          /\ request' = [request EXCEPT ![q].at = "add",
                           ![q].op = CHOOSE i \in Owners(r) : TRUE]
          /\ UNCHANGED <<source, receipts, jobs, fresh>>
       \/ /\ Live /\ source.revision = r /\ Owners(r) = {}
          /\ request[q].expects => Asked(q) \in fresh
          /\ SetStatus("pending", {Kept(Len(receipts) + 1)})
          /\ receipts' = Append(receipts, [revision |-> r, owns |-> TRUE,
                              status |-> "queued", superseded |-> FALSE])
          /\ jobs' = Append(jobs, [state |-> "none", tries |-> 0,
                                   stalls |-> 0])
          /\ request' = [request EXCEPT ![q].at = "add",
                                        ![q].op = Len(receipts) + 1]
       \/ /\ \/ ~Live
             \/ source.revision # r
             \/ /\ Owners(r) = {}
                /\ request[q].expects /\ Asked(q) \notin fresh
          /\ Leave(q)
          /\ UNCHANGED <<source, receipts, jobs, fresh>>
    /\ UNCHANGED <<claims, run, retry, overlap>>

\* BullMQ ignores an add whose job id it still knows, whatever its state.
Enqueue(i) ==
    jobs' = [jobs EXCEPT ![i].state = IF @ = "none" THEN "waiting" ELSE @]

AddJob(q) ==
    /\ request[q].at = "add"
    /\ Enqueue(request[q].op)
    /\ Leave(q)
    /\ UNCHANGED <<source, receipts, claims, run, retry, fresh, overlap>>

\* The server dies, or Redis refuses the job.
RequestFails(q) ==
    /\ request[q].at \notin {"idle", "done"}
    /\ Leave(q)
    /\ UNCHANGED <<source, receipts, run, retry, fresh, Rest>>

-----------------------------------------------------------------------------
(* Workers: ingestDocument and ingestFile.                                 *)

At(w, i, l) == run[w].at = l /\ run[w].op = i

Working(w, i) == run[w].op = i /\ run[w].at \notin {"returned", "thrown"}

\* BullMQ hands a waiting job to a free worker.
PickUp(w, i) ==
    /\ run[w].at = "idle"
    /\ jobs[i].state = "waiting"
    /\ jobs' = [jobs EXCEPT ![i].state = "active"]
    /\ run' = [run EXCEPT ![w] =
                 [Idle EXCEPT !.at = "mark", !.op = i, !.locked = TRUE,
                    !.final = jobs[i].tries + 1 >= MaxAttempts]]
    /\ overlap' = (overlap \/ \E v \in Workers : Working(v, i))
    /\ UNCHANGED <<source, receipts, claims, request, retry, fresh>>

\* The catch block rethrows, and the last attempt records the failure before.
Catch(w) == IF run[w].final THEN "caught" ELSE "thrown"

\* A transaction of the run changes nothing and the run goes to l.
Only(w, l) ==
    /\ Go(w, l)
    /\ UNCHANGED <<source, receipts, retry, fresh>>

IsSettled(i) == receipts[i].status \in Closed

\* How every receipt transaction of a run starts, with the live source and then
\* the receipt locked: a closed receipt is left alone, an overtaken one is
\* closed, and either way the run returns; otherwise it proceeds as A.
WithReceipt(w, i, A) ==
    /\ Live
    /\ \/ IsSettled(i) /\ Only(w, "returned")
       \/ /\ ~IsSettled(i)
          /\ Overtaken(i)
          /\ Write(i, "failed", TRUE)
          /\ Go(w, "returned")
          /\ UNCHANGED <<source, fresh>>
       \/ /\ ~IsSettled(i)
          /\ ~Overtaken(i)
          /\ A

Mark(w, i) ==
    /\ At(w, i, "mark")
    /\ \/ ~Live /\ Only(w, "thrown")
       \/ WithReceipt(w, i, /\ SetStatus("processing", {Ran(w), Kept(i)})
                            /\ Write(i, "processing", FALSE)
                            /\ Go(w, "content"))
    /\ UNCHANGED <<request, Rest>>

\* Content is read outside any transaction: it may be newer than the version
\* the run was given.  A removed source has none.
ReadContent(w, i) ==
    /\ At(w, i, "content")
    /\ \/ Live /\ run' = [run EXCEPT ![w].at = "convert",
                                     ![w].content = source.revision]
       \/ ~Live /\ Go(w, Catch(w))
       \/ source.row = "gone" /\ Go(w, "returned")
    /\ UNCHANGED <<source, receipts, request, retry, fresh, Rest>>

\* Slip: the fence checks that the source is live and nothing else.
FenceIgnoresVersion(w) == Live

\* withSourceWriteFence with the version the run was given.
Fence(w) == Live /\ Ran(w) \in fresh

\* Converted content is stored under the version the run was given, which both
\* the run and a receipt in processing then follow.
Convert(w, i) ==
    /\ At(w, i, "convert")
    /\ \/ /\ Fence(w)
          /\ Go(w, "start")
          /\ IF receipts[i].status = "processing"
             THEN fresh' = {Ran(w), Kept(i)} /\ Touch({i})
             ELSE fresh' = {Ran(w)} /\ UNCHANGED retry
          /\ UNCHANGED <<source, receipts>>
       \/ ~Fence(w) /\ Only(w, Catch(w))
    /\ UNCHANGED <<request, Rest>>

\* Nothing to convert, or it was converted by an earlier attempt.
NothingToConvert(w, i) ==
    /\ At(w, i, "convert")
    /\ Go(w, "start")
    /\ UNCHANGED <<source, receipts, request, retry, fresh, Rest>>

\* finishSourceIngestionOperation(status).
Finish(w, i, status) ==
    \/ ~Live /\ Only(w, Catch(w))
    \/ WithReceipt(w, i, IF status = "completed" /\ Ran(w) \notin fresh
                         THEN Only(w, Catch(w))
                         ELSE /\ SetStatus(status, {Kept(i)})
                              /\ Write(i, status, FALSE)
                              /\ Go(w, "returned"))

\* A file without readable text is rejected for good; the job itself succeeds.
Unreadable(w, i) ==
    /\ At(w, i, "convert")
    /\ Finish(w, i, "failed")
    /\ UNCHANGED <<request, Rest>>

ExtractionStarted(w, i) ==
    /\ At(w, i, "start")
    /\ \/ ~Live /\ Only(w, Catch(w))
       \/ WithReceipt(w, i, /\ Touch({i} \ {j \in Receipts :
                                     receipts[j].status = "queued"})
                            /\ Go(w, "extract")
                            /\ UNCHANGED <<source, receipts, fresh>>)
    /\ UNCHANGED <<request, Rest>>

\* Slips: one chunk too many; success whatever the chunks did.
NextChunkPastEnd(w, wrote) ==
    run' = [run EXCEPT ![w].wrote = wrote,
                       ![w].chunk = @ + 1,
                       ![w].at = IF run[w].chunk <= LastChunk THEN "extract"
                                 ELSE IF wrote THEN "finish" ELSE Catch(w)]

FinishesRegardless(w, wrote) ==
    run' = [run EXCEPT ![w].wrote = wrote,
                       ![w].chunk = IF @ < LastChunk THEN @ + 1 ELSE @,
                       ![w].at = IF run[w].chunk < LastChunk THEN "extract"
                                 ELSE "finish"]

\* On to the next chunk; after the last one, a single success is enough.
NextChunk(w, wrote) ==
    run' = [run EXCEPT ![w].wrote = wrote,
                       ![w].chunk = IF @ < LastChunk THEN @ + 1 ELSE @,
                       ![w].at = IF run[w].chunk < LastChunk THEN "extract"
                                 ELSE IF wrote THEN "finish" ELSE Catch(w)]

\* Slip: a run adds to what an earlier run extracted.
KeepsOldClaims(w) == claims

\* A run's first success removes what the source had in the graph before.
Retained(w) == IF run[w].wrote THEN claims ELSE NoClaims

\* The content splits into no chunk: the run is through, without a look at the
\* source and with nothing extracted.
NothingToExtract(w, i) ==
    /\ At(w, i, "extract")
    /\ run[w].content \in Empty
    /\ Only(w, "finish")
    /\ UNCHANGED <<request, Rest>>

\* The graph written from one chunk, in a transaction of its own.  What follows
\* it in extractGraph (the lifecycle pass, embeddings, notices) may throw: then
\* the chunk is written, and does not count.
ExtractChunk(w, i) ==
    LET x == <<run[w].content, run[w].chunk>> IN
    /\ At(w, i, "extract")
    /\ run[w].content \notin Empty
    /\ Fence(w)
    /\ claims' = [Retained(w) EXCEPT ![x] = IF @ < 2 THEN @ + 1 ELSE @]
    /\ \E counts \in {TRUE, run[w].wrote} : NextChunk(w, counts)
    /\ UNCHANGED <<source, receipts, jobs, request, retry, fresh, overlap>>

\* The model fails, or the fence refuses the write: the next chunk is tried.
ChunkFails(w, i) ==
    /\ At(w, i, "extract")
    /\ run[w].content \notin Empty
    /\ NextChunk(w, run[w].wrote)
    /\ UNCHANGED <<source, receipts, request, retry, fresh, Rest>>

Complete(w, i) ==
    /\ At(w, i, "finish")
    /\ Finish(w, i, "completed")
    /\ UNCHANGED <<request, Rest>>

\* Any other call throws: inside the try block for the catch block to see,
\* before and after it (the dedup sweep after a completed one) for the job.
RunThrows(w, i) ==
    /\ run[w].op = i
    /\ run[w].at \notin {"idle", "thrown"}
    /\ Only(w, IF run[w].at \in {"mark", "caught", "returned"}
               THEN "thrown" ELSE Catch(w))
    /\ UNCHANGED <<request, Rest>>

\* The last attempt closes the receipt; whatever comes of that, the job throws.
RecordFailure(w, i) ==
    /\ At(w, i, "caught")
    /\ Go(w, "thrown")
    /\ IF Live /\ ~IsSettled(i)
       THEN IF Overtaken(i)
            THEN Write(i, "failed", TRUE) /\ UNCHANGED <<source, fresh>>
            ELSE SetStatus("failed", {Kept(i)}) /\ Write(i, "failed", FALSE)
       ELSE UNCHANGED <<source, receipts, retry, fresh>>
    /\ UNCHANGED <<request, Rest>>

-----------------------------------------------------------------------------
(* BullMQ.  A worker whose lock expired has no say over its job any more.     *)

\* The outcome of an attempt reaches Redis; the worker is free either way.
Report(w, i, state) ==
    /\ jobs' = IF run[w].locked
               THEN [jobs EXCEPT ![i].state = state,
                                 ![i].tries = IF @ < MaxAttempts
                                              THEN @ + 1 ELSE @]
               ELSE jobs
    /\ run' = [run EXCEPT ![w] = Idle]
    /\ UNCHANGED <<source, receipts, claims, request, retry, fresh, overlap>>

JobReturns(w, i) == At(w, i, "returned") /\ Report(w, i, "completed")

\* Attempts are left, or this was the last one.
JobThrows(w, i) ==
    /\ At(w, i, "thrown")
    /\ Report(w, i, IF jobs[i].tries + 1 < MaxAttempts
                    THEN "delayed" ELSE "failed")

\* The backoff before the next attempt is over.
DelayEnds(i) ==
    /\ jobs[i].state = "delayed"
    /\ jobs' = [jobs EXCEPT ![i].state = "waiting"]
    /\ UNCHANGED <<source, receipts, claims, request, run, retry, fresh, overlap>>

\* The worker process dies in the middle of the job.
Die(w) ==
    /\ run[w].at # "idle"
    /\ run' = [run EXCEPT ![w] = Idle]
    /\ UNCHANGED <<source, receipts, request, retry, fresh, Rest>>

\* The lock of an active job expired: its worker died, or was too busy to
\* renew it and still runs.  The job is run again, or failed for good.
Stall(i) ==
    /\ jobs[i].state = "active"
    /\ jobs' = [jobs EXCEPT
         ![i].state = IF @ = "active" /\ jobs[i].stalls < MaxStalls
                      THEN "waiting" ELSE "failed",
         ![i].stalls = IF @ < MaxStalls THEN @ + 1 ELSE @]
    /\ run' = [w \in Workers |->
                 [run[w] EXCEPT !.locked = @ /\ run[w].op # i]]
    /\ UNCHANGED <<source, receipts, claims, request, retry, fresh, overlap>>

-----------------------------------------------------------------------------
(* The retrying client: retrySourceProcessing.                             *)

\* A client that saw its receipt completed or purged does not ask.
RetryRead(i) ==
    /\ Retries /\ retry.at = "idle"
    /\ receipts[i].status \in Open \union {"failed"}
    /\ retry' = [at |-> "inspect", op |-> i, status |-> receipts[i].status,
                 job |-> "none", same |-> TRUE]
    /\ fresh' = (fresh \ {Retried}) \union
                  IF Kept(i) \in fresh THEN {Retried} ELSE {}
    /\ UNCHANGED <<source, receipts, request, run, Rest>>

\* Slip: a reopened receipt whose job was not restarted is not retryable.
OnlyFailedRestarts(status) == status = "failed"

\* Receipts whose completed job may be run again.
Restarts(status) == status \in {"failed", "queued"}

\* The job as Redis has it now, beside the receipt as it was.
RetryInspect ==
    LET job == jobs[retry.op].state IN
    /\ retry.at = "inspect"
    /\ retry' =
         CASE job = "none" /\ retry.status = "queued" ->
                [retry EXCEPT !.at = "restore"]
           [] job = "failed" /\ retry.status \in Open ->
                [retry EXCEPT !.at = "validate", !.job = job]
           [] \/ job \in {"waiting", "failed"}
              \/ job = "completed" /\ Restarts(retry.status) ->
                [retry EXCEPT !.at = "reopen", !.job = job]
           [] OTHER -> NoRetry
    /\ UNCHANGED <<source, receipts, request, run, fresh, Rest>>

\* restoreQueuedSourceJob: the job was never saved.
RetryRestore ==
    /\ retry.at = "restore"
    /\ retry' = NoRetry
    /\ IF Live /\ Retried \in fresh THEN Enqueue(retry.op) ELSE UNCHANGED jobs
    /\ UNCHANGED <<source, receipts, claims, request, run, fresh, overlap>>

\* validateSourceProcessingRetry: the receipt must still be what was read.
RetryValidate ==
    /\ retry.at = "validate"
    /\ IF Live /\ Retried \in fresh /\ retry.same /\ ~Newer(retry.op)
       THEN retry' = [retry EXCEPT !.at = "requeue"]
       ELSE retry' = NoRetry
    /\ UNCHANGED <<source, receipts, request, run, fresh, Rest>>

\* Slip: a completed receipt is reopened like a failed one.
ReopensAnyOutcome(i) ==
    /\ receipts[i].status \in {"failed", "completed"}
    /\ ~receipts[i].superseded /\ ~Newer(i) /\ Live

Reopenable(i) ==
    /\ receipts[i].status = "failed"
    /\ ~receipts[i].superseded /\ ~Newer(i) /\ Live

\* retrySourceIngestionOperation: a failed receipt that still speaks for the
\* source is reopened, an open one is left, any other is a conflict.
RetryReopen ==
    LET i == retry.op
        onward == [retry EXCEPT !.same = FALSE, !.at =
                     IF retry.job = "waiting" THEN "idle" ELSE "requeue"]
    IN /\ retry.at = "reopen"
       /\ \/ /\ receipts[i].status \in Open
             /\ retry' = onward
             /\ UNCHANGED <<source, receipts, fresh>>
          \/ /\ Reopenable(i)
             /\ SetStatus("pending", {Kept(i)})
             /\ receipts' = [receipts EXCEPT ![i].status = "queued"]
             /\ retry' = onward
          \/ /\ receipts[i].status \in Closed /\ ~Reopenable(i)
             /\ retry' = NoRetry
             /\ UNCHANGED <<source, receipts, fresh>>
       /\ UNCHANGED <<request, run, Rest>>

\* job.retry(state) throws unless the job is still in that state.
RetryRequeue ==
    /\ retry.at = "requeue"
    /\ jobs' = [jobs EXCEPT ![retry.op].state =
                  IF @ = retry.job THEN "waiting" ELSE @]
    /\ retry' = NoRetry
    /\ UNCHANGED <<source, receipts, claims, request, run, fresh, overlap>>

\* The server dies, or Redis refuses, between two calls.
RetryFails ==
    /\ retry.at # "idle"
    /\ retry' = NoRetry
    /\ UNCHANGED <<source, receipts, request, run, fresh, Rest>>

-----------------------------------------------------------------------------
(* Source lifecycle, as far as processing sees it.                         *)

\* Content and derived memory go with the tombstone, in one transaction.
Tombstone ==
    /\ Live
    /\ source' = [source EXCEPT !.row = "deleted", !.revision = Blank]
    /\ claims' = NoClaims
    /\ fresh' = {}
    /\ UNCHANGED <<receipts, jobs, request, run, retry, overlap>>

\* The row goes; its receipts stay for status reads, without their keys.
Purge ==
    /\ source.row = "deleted"
    /\ source' = [source EXCEPT !.row = "gone"]
    /\ receipts' = [i \in Receipts |-> [receipts[i] EXCEPT
                      !.status = "purged", !.owns = FALSE]]
    /\ Touch(Receipts)
    /\ UNCHANGED <<claims, jobs, request, run, fresh, overlap>>

-----------------------------------------------------------------------------
RequestStep(q) ==
    \/ \E r \in Revisions : InsertIngestionSource(q, r) \/ FindExisting(q, r)
    \/ \E changed \in BOOLEAN : UpdateIngestionMetadata(q, changed)
    \/ ReadCreated(q) \/ FindUpdated(q) \/ ReplaceInlineContent(q)
    \/ CreateSourceIngestionOperation(q)
    \/ AddJob(q)

\* What a run does next, unless its process dies.
RunStep(w, i) ==
    \/ Mark(w, i) \/ ReadContent(w, i)
    \/ Convert(w, i) \/ NothingToConvert(w, i) \/ Unreadable(w, i)
    \/ ExtractionStarted(w, i)
    \/ NothingToExtract(w, i) \/ ExtractChunk(w, i) \/ ChunkFails(w, i)
    \/ Complete(w, i) \/ RunThrows(w, i) \/ RecordFailure(w, i)
    \/ JobReturns(w, i) \/ JobThrows(w, i)

RetryStep ==
    \/ RetryInspect \/ RetryRestore \/ RetryValidate
    \/ RetryReopen \/ RetryRequeue

Next ==
    \/ \E q \in Requests : RequestStep(q) \/ RequestFails(q)
    \/ \E w \in Workers :
         \/ \E i \in Receipts : PickUp(w, i) \/ RunStep(w, i)
         \/ Die(w)
    \/ \E i \in Receipts : Stall(i) \/ DelayEnds(i) \/ RetryRead(i)
    \/ RetryStep \/ RetryFails
    \/ Tombstone \/ Purge

Spec == Init /\ [][Next]_vars

\* What BullMQ promises: a waiting job finds a worker, a delay ends, a run that is
\* not killed goes on, and the job of a dead worker is noticed.  What the client is asked
\* for: it keeps retrying every receipt that is not settled.
Ids == 1 .. Cardinality(Requests)
Started(i) == i \in Receipts
Dead(i) == \A w \in Workers : ~(run[w].op = i /\ run[w].locked)

Fairness ==
    /\ \A i \in Ids :
         /\ SF_vars(Started(i) /\ \E w \in Workers : PickUp(w, i))
         /\ WF_vars(Started(i) /\ Dead(i) /\ Stall(i))
         /\ WF_vars(Started(i) /\ DelayEnds(i))
         /\ SF_vars(Started(i) /\ receipts[i].status \in Open /\ RetryRead(i))
    /\ \A w \in Workers : WF_vars(\E i \in Receipts : RunStep(w, i))
    /\ WF_vars(RetryStep)

FairSpec == Spec /\ Fairness

-----------------------------------------------------------------------------
(* Properties.                                                             *)

\* What the source has in the graph was extracted from the content it has now,
\* and a removed source has nothing there, however late a run writes: the
\* version fence of the graph write (withSourceWriteFence in extractGraph).
DerivedIsCurrent ==
    \A x \in DOMAIN claims :
        claims[x] > 0 => Live /\ x[1] = source.revision

\* The receipt that owns the live source's content still speaks for it, also when
\* a job runs twice at once: it was never superseded, its version is the row's
\* while it is open, and the row's status is the receipt's
\* (advanceSourceIngestionOperationVersion, updateIngestionMetadata).
Speaks(i) ==
    /\ ~receipts[i].superseded
    /\ receipts[i].status \in Open => Kept(i) \in fresh
    /\ source.status = IF receipts[i].status = "queued" THEN "pending"
                       ELSE receipts[i].status

CurrentReceiptSpeaks ==
    Live => \A i \in Owners(source.revision) : Speaks(i)

\* A completed receipt of the live source's content has its claims in the graph:
\* one chunk that counted suffices, and only content that splits into no chunk
\* is completed with nothing extracted (runChunkedExtraction).
CompletedWasExtracted ==
    Live /\ source.revision \notin Empty => \A i \in Owners(source.revision) :
        receipts[i].status = "completed" =>
            \E c \in Chunks : claims[<<source.revision, c>>] > 0

\* Reprocessing replaces: unless a job ran twice at once, no chunk is in the
\* graph twice, however often a revision is extracted.
ReprocessingReplaces ==
    ~overlap => \A x \in DOMAIN claims : claims[x] <= 1

\* A settled outcome of the live source's content is final until a retry reopens
\* a failure: no late run changes a completed receipt, and a failed one only
\* goes back to the queue.
OutcomesLast ==
    [][\A i \in Receipts :
         /\ receipts[i].status = "completed" =>
              receipts'[i].status \in {"completed", "purged"}
         /\ receipts[i].status = "failed" =>
              \/ receipts'[i].status \in {"failed", "purged"}
              \/ /\ receipts'[i].status = "queued"
                 /\ ~receipts[i].superseded /\ ~Newer(i)]_vars

\* If calls stop failing, an open receipt of the current content is settled: by
\* its job, or by a client that keeps retrying, which finds every lost, failed
\* or stranded job again (retrySourceProcessing).
Pending(i) == Started(i) /\ receipts[i].status \in Open
Settled(i) ==
    /\ Started(i)
    /\ ~Live \/ overlap \/ receipts[i].status \in Closed \/ Overtaken(i)

RetryRecovers ==
    \/ []<><<\E i \in Receipts :
                \/ Stall(i)
                \/ \E w \in Workers : /\ run[w].at \in {"mark", "caught"}
                                      /\ RunThrows(w, i)
                \/ RetryFails /\ ~RetryStep>>_vars
    \/ \A i \in Ids : Pending(i) ~> Settled(i)

\* docs/sdk/ingestion.md: "A retry request returns a conflict while the retained
\* queue job is still active, because reopening its receipt before that job
\* finishes could leave the new work unscheduled."
ActiveJobIsNotReopened ==
    [][\A i \in Receipts :
         receipts[i].status = "failed" /\ receipts'[i].status = "queued" =>
             jobs[i].state # "active"]_vars

=============================================================================
