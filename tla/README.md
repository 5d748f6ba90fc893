# Verification of assistant-memory

TLA+ models of the parts of assistant-memory in which several processes, three
stores (PostgreSQL, Redis/BullMQ and MinIO) and failures meet, TLC
configurations that check small instances, and TLAPS proofs for every instance.
Every definition of a module is translated from the source lines that
`PROJECT.json` names for it under `map`.

## 1. The system

assistant-memory is a TypeScript service. Tools send it documents, files,
conversations, transcripts and e-mail; it stores them as *sources*, extracts a
graph of *nodes* and *claims* with a language model, and answers queries. The
server accepts requests and writes PostgreSQL; BullMQ workers take jobs from
Redis; large bytes are objects in MinIO.

| Component | State it keeps | Operations | Hard behaviour |
|---|---|---|---|
| Sources (`lib/sources.ts`) | `sources`: content, status, version, deleted_at | insert, replace inline or file content, update metadata | version moved by a trigger on every real change; writers that took the version earlier are fenced |
| Blob uploads (`lib/sources.ts`, `lib/source-blob-put.ts`) | `source_blob_uploads`, one object per source key | reserve, begin, put, undo, record failure | a PUT outlives its sender; row locks end with the session; timeouts prove nothing |
| Source lifecycle (`lib/source-lifecycle.ts`) | `source_tombstones`, `source_lifecycle_commands` | tombstone, restore, purge, cleanup, sweeps | physical deletion after the transaction, retried; descendant trees; replayed commands |
| Processing receipts (`lib/ingestion/source-processing.ts`) | `source_ingestion_operations` | create, find, mark, advance, finish, retry, purge | PostgreSQL and Redis are written in turn; late workers |
| Queue and workers (`lib/queues.ts`, `lib/jobs/*`) | BullMQ jobs | one handler per job name | attempts, backoff, stalled jobs run twice |
| Extraction (`lib/extract-graph.ts`) | nodes, claims, aliases, source links | extract one chunk, write its graph | minutes long, outside transactions, fenced by version |
| Claim lifecycle (`lib/claims/lifecycle.ts`) | claim status, valid_to | recompute single-valued claims | concurrent insertions for one subject |
| Claims, commitments (`lib/claim.ts`, `lib/commitments.ts`) | claims | create, update, re-attribute, set status, due, owner | read-modify-write over the claim lifecycle |
| Nodes (`lib/node.ts`, `lib/node-redirects.ts`) | nodes, redirects | merge, delete, dedup, cleanup | merges of merged nodes, stale ids |
| Partitions (`lib/partition-*.ts`) | partition and migration state | migrate, reclassify, recover | writers racing a migration |
| Change feed (`drizzle/0029`, `lib/query/change-feed.ts`) | heads, events | append by trigger, page by cursor | a gap seen by a reader is data lost to it |
| Atlas, profiles, context (`lib/jobs/atlas-*.ts`, `lib/context`) | derived texts, Redis cache | refresh on supersession, cache, invalidate | refresh lost to deduplication, stale cache |
| Search, metrics, rollups, MCP, SDK | mostly none of their own | read, aggregate, translate | little |

How they meet: a request inserts or revises a *source*, uploads its bytes under
the source's row lock, creates a *receipt* with the source's version and adds a
*job* whose id is the receipt's. A worker takes the job, marks the receipt,
converts and extracts, and writes each chunk's graph in a transaction that
refuses if the source's version moved (`withSourceWriteFence`). The lifecycle
erases the source and everything derived from it in one transaction and owes the
store a deletion. Derived memory reacts to claims that changed.

What makes each component correct is in section 4; what is left out, and why, in
section 7. The hazards, each at its line, are listed in `PROJECT.json`.

## 2. Modules

| Module | What it is |
|---|---|
| `SourceBlobUpload` | the upload and erasure protocol of one source's bytes |
| `ErasureReceipt` | the abstract promise of a storage cleanup |
| `SourceBlobUpload_proofs` | theorems about `SourceBlobUpload` |
| `SourceProcessing` | one source's receipts, jobs, workers, retries and claims |
| `SourceProcessing_proofs` | theorems about `SourceProcessing` |
| `SerialTree` | the tables of source trees, what changes them, and the abstract promise: one transaction after the other |
| `SourceTree` | trees of sources under overlapping lifecycle commands, inserts, revisions, moves and name retirement |
| `ClaimLifecycle` | the claims about a task's status and date and the overlapping passes over them |
| `NodeMerge` | nodes, their claims and redirects under overlapping merges, sweeps and deletions |
| `PartitionMoves` | the user's migration into partitions, writes beside it, and the moves and splits of nodes |
| `GraphPruning` | the sweeps that delete nodes of little worth and sources whose bytes are lost |
| `Rollup` | the summaries of days, weeks, months and years, and the sweep that keeps them |
| `ChangeFeed` | the feed from its triggers to a consumer that resumes with a cursor |
| `AtlasRefresh` | the user atlas, the jobs that write it, and the cached bundle that shows it |
| `SourceTree_proofs`, `ChangeFeed_proofs` | theorems about the modules they are named after |
| `Evidence_proofs` | theorems about `ClaimLifecycle` and about `MCEvidence` |
| `Graph_proofs` | theorems about `NodeMerge` and about `MCGraph` |
| `GraphUpkeep_proofs` | theorems about `PartitionMoves` and about `GraphPruning` |
| `ReadModels_proofs` | theorems about `Rollup`, about `AtlasRefresh` and about `MCReadModels` |
| `MCSourceBlobUpload`, `MCSourceProcessing` | symmetry and view for TLC |
| `MCEvidence` | `SourceTree` and `ClaimLifecycle`, one of them at work in each behaviour |
| `MCGraph` | `NodeMerge`, `PartitionMoves` and `GraphPruning`, likewise |
| `MCReadModels` | `Rollup`, `ChangeFeed` and `AtlasRefresh`, likewise |

Operators marked *Slip* in the modules are not part of the system: each is a
variant of the definition that follows it with a plausible mistake in it, and a
property must fail when the variant takes the definition's place.

### SourceBlobUpload

State and code: `source` is the `sources` row (presence, `status = failed`, the
content that `contentHash`/`contentLength` describe); `upload` is the
`source_blob_uploads` row with its stamp (`updatedAt`) represented by the request
that wrote it; `tombstone` is the `source_tombstones` row; `object` is what the
store holds at the key, `puts` the requests under way. `pc` and `job` are the
local state of a request in `insertSources` or `replaceFileContent`; `sweep` and
`erase` that of the two cleanup routines. `fence` is the set of requests whose
remembered source version is still the row's: versions only grow and are only
compared for equality, so nothing else about them matters.

One transaction is one step, except `putSourceBlobWithFence`, which keeps its
source and upload rows locked while it waits for the store. It is three steps
(`PutSourceBlobWithFence`, the store's, `PutAcknowledged` or one of the failures),
and every other transaction that locks one of the rows waits (`Unlocked`).

What the store may do: apply, refuse or lose a PUT, at any time after it was
sent, also after its sender timed out or died. What may fail besides: a crash of
a request anywhere, the end of the database session under a PUT, a refused
transaction, a caller of the cleanup that dies, a failed deletion.

Two events are recorded in `faults` because the protocol has no answer to them,
and some properties are about executions without them:

- `unrecorded_put`: the transaction around a PUT ended without a word about it
  (crash, lost session). The PUT may then land whenever it likes.
- `adopted_reservation`: a request began on a reservation another one had made
  since (`beginSourceBlobUpload` compares the state and not the stamp).

The runs that expect a violation show what the first of these does to a
tombstone; the properties say which promises do not depend on either
(`TombstoneClosesUpload`, `ErasureSettles`, `ReservationSettles`).

A deletion ends within its step: one that is still under way when the session that
holds the sweep's locks ends (`source-lifecycle.ts:1377`) is not modelled.

### SourceProcessing

State and code: `source` is the row; `receipts` the rows of
`source_ingestion_operations` in creation order, with `owns` for the
`contentHash` that `replaceInlineContent` takes away from older receipts; `jobs`
the BullMQ job of each receipt, `none` until it was added; `claims` counts how
often each chunk of a revision is in the graph. `request`, `run` and `retry` are
the local states of `saveMemory`, of `ingestDocument`/`ingestFile`, and of
`retrySourceProcessing`. `fresh` is the set of those who remember the row's
current version: requests, runs, receipts (`sourceVersion`) and the retry.
`overlap` says whether a job was ever run twice at the same time.

A PostgreSQL transaction is one step and a Redis call another, so a crash or
another process may come between any two. `WithReceipt` is how every receipt
transaction of a run begins: a closed receipt is left alone, an overtaken one is
closed as superseded, otherwise the transaction proceeds.

Merged or left out, and why it does not matter:

- The two unlocked reads at the start of a repeated request are one step
  (`FindExisting`): everything decided from them is checked again in a later
  transaction.
- How long the backoff between two attempts lasts is left open (`DelayEnds`); a
  retry answers a conflict while the job is delayed (`RetryInspect`).
- Content that splits into no chunk (`Empty`) is completed without a look at the
  source and with nothing extracted (`NothingToExtract`, `chunked-extract.ts:110`):
  nothing between the receipt and the graph stops it, so `CompletedWasExtracted`
  speaks of the other revisions only.
- A chunk's graph commits before the calls that follow it in `extractGraph` (the
  lifecycle pass, embeddings, notices), so a chunk that fails there is in the graph
  and does not count: the next one replaces the claims again, and if none counts the
  run fails with claims in the graph (`ExtractChunk`). A chunk that is split after
  a length limit is not told from several chunks.
- Jobs are never removed: the ingestion jobs are added without removal options.
- `replaceFileContent`'s own upload is `SourceBlobUpload`'s; here a file whose
  bytes are stored behaves like a document that needs conversion.
- Left out: requests without source context, and e-mail sources, whose claims
  are appended.

### SerialTree and SourceTree

State and code: the `sources` rows with parent, name (`externalId`), partition,
version and `deletedAt`; the tombstones of sources and of names; the record of
lifecycle commands; the advisory gates of names and of parents; and for each
transaction under way where it is. A lifecycle command answers a replay, walks the
tree downwards and takes the parent gates in rounds until the walk finds nothing
new, looks for a record once more, and then erases, restores or purges the whole
tree. An insert or a revision takes the gates of its names and of its parent and
then looks whether they are open (`assertSourceIdentitiesActive`,
`assertLiveSourceParents`, the trigger of migration 0034). `Retire` and `Reopen`
are one transaction each under the gate of the name. A move walks the tree from
its topmost ancestor, takes names and gates, walks again and gives up if
anything changed. A revision has the gate of its name while it waits for that of
its parent (`LockOwnName`).

`SerialTree` holds the tables, the trees in them and the changes, each under its
condition (`Apply`, `Attach`, `Amend`, `Relocate`), and a specification in which a
transaction is one step that finds the tree as it is. `SourceTree` adds the
transactions, their gates and their looks; its steps make the same changes, with the
tree that was found for the tree that is there. That it implements `SerialTree` is
what the gates and the second look are for.

Notes. A second delivery of a restore or a purge whose source is gone is answered
SOURCE_NOT_FOUND and not with the recorded answer (`source-lifecycle.ts:86`), which
is why `RetryReplaysWhileTheSourceIsThere` says so. A child that leaves a tree
while it is walked is still erased or moved with it, since a revision takes the gate
of the new parent and not that of the old one (`sources.ts:608`): `SerialSpec` asks
for the tree as it is only as long as no source has changed its parent (`moved`), and
otherwise that no live source below is left out. The same goes for `NoGateCycle`, which is about
the identity and containment gates of all transactions: with another parent a source
can come under one that is younger, and the order is lost. Deadlocks over row
locks are left to PostgreSQL, the record of a move's command is left out.

A move takes the retirement of a name along (`Retirements`,
`partition-reclassification.ts:486`): if the old name of a source that moves is
retired, its new one is retired too and the old one stays so, since late requests
still use it (`docs/sdk/ingestion.md:251`). Only names with a partition in them are
modelled. A raw name stays the same in a move, and its retirement only changes the
partition it is filed under (lines 506-513), which no gate looks at.

### ClaimLifecycle

State and code: `claim` is the rows about tasks, in creation order, whose predicate
is HAS_TASK_STATUS or DUE_ON; a task with one of the two is a *topic*, and a pass
is over one topic. `call` says what each operation still has to do: the pass that
follows its own committed change, with the plan it has worked out and not yet
written, and after one over a status another over the date (`lifecycle.ts:115`).
`calm` is a history variable: the topics whose last pass nothing disturbed. The
pass reads in one query and writes row by row on the id alone, so what it writes
may be stale.

What a claim says is a record (`Statements`): who stated it, and, if it is from
mail, the rank of the message, whether it is explicit progress, and whether that
progress takes the date away. On these depend the three rules a pass follows:

- the order (`Earlier`): by time, then, between two of mail, by the rank of the
  mail, then by creation (`lifecycle.ts:126-144`). Two of mail with another created
  between them can be in a circle, and then the order the sort ends with is any of
  several (`Orders`);
- trust (`Demoted`): an inferred claim after a user's own is left out of the chain,
  unless it is explicit progress from mail (`lifecycle.ts:146-181`). So mail that
  says a task is done does supersede what the user stated, in spite of
  `docs/sdk/commitments.md:11` ("a `user`/`user_confirmed` claim is **never** silently
  overwritten by a later `assistant_inferred` one") and as
  `email-request-matching.integration.test.ts:680` expects. `UserNeverOverwritten`
  states what remains: nothing else does;
- removal (`Removals`): a date from mail that later mail of the same thread took
  away is superseded by that status claim and leaves no active date
  (`lifecycle.ts:280-295`, `email-deadline-lifecycle.ts`), also if the status claim
  has been retracted since, as the query asks for no status.

`updateClaim`, and `reattributeClaim` for the subject that loses the claim, run no
pass. A dismissal is an `updateClaim` for each row. A caller that dies in the middle
of its pass is `Crash`.

Abstracted: of the evidence and the object values that a pass carries forward from
mail to mail (`lifecycle.ts:224-258`) only that it may write the rows of mail once
more (`Carrying`). A claim's number stands for its creation time, trust and id. All
mail about a task is one thread, and its sources are there. `validTo` is left out.
The pass over a date reads its claims and the removals in two queries, here one
step. An extraction from mail inserts claims and runs its passes in one transaction,
with the gate of the thread (`extract-graph.ts:835`); here its passes overlap with
others like everybody's, so that it can do more than the code. Left out: the
system's own claims, the deletion of the claims of a source that is revised, and
other single-valued predicates, which know none of the rules for mail.

### NodeMerge

State and code: nodes, `node_redirects`, the claims (`fact`) with their two ends,
and transactions under way with the rows and nodes they lock. `mergeNodes` and the
dedup sweep rewire, drop loops and duplicates, and delete the consumed nodes, whose
cascade takes along whatever refers to them by then. `into`, `torn`, `first` and
`raced` are history: who took over an identity, and where two merges, or a merge
and an insert, met. Every node is assumed to have a source link, so that a merge
shares its survivor with others and does not let it be deleted under it.

What the properties exclude is what the code loses: a claim inserted after a merge
has rewired and before it deletes (`raced`), and a merge into a node that another
open merge consumes (`torn`). The dedup sweep writes no redirects, and deleting its
node cascades those that led to it, in spite of `docs/citations-sdk.md:17`. Of two
equal claims a merge keeps the older one whatever its status (`node.ts:1033`,
`cleanup-graph.ts:832`) and no lifecycle pass follows, so that a task may lose its
active status claim. The dedup sweep, which merges all its groups in one transaction
(`dedup-sweep.ts:275`), is here one transaction for each pair. `Path(n)`, the nodes that took over an identity one after the
other, is only used by the properties.

### PartitionMoves

State and code: `migration` is `partition_migration_state` and `known` the row of
`users`; `origin` the sources (each stands for a tree that is locked and moves as
one) with their partition and the node their evidence is about; `place` the nodes
with their partition and whose presentation they show; `mapping` the rows of
`partition_node_mappings`; `open` the transactions under way. A write or a move is
three steps: it reads and writes (`OpenWrite`, `OpenMove`), its deferred constraint
triggers look at what is committed (`Check`), it commits (`Commit`). Everything
else is one step. A move takes a node along that nobody else needs, splits one
that is shared, and reuses the node an earlier split made; one that a move beside it
has made (`partition-artifact-recovery.ts:237`, which leaves the presentation alone)
is reused like an earlier one.

`blind` is history: the sources about whose node two transactions were both checked
before either was committed. The triggers cannot see what is not committed, so
that these are what the code loses; the properties are about everything else.

Notes. A quarantined mapping lets later moves of the node into its partition fail
(`MAPPING_QUARANTINED`). `resumePartitionNodeRecovery` has no caller outside the
tests. A replayed command is answered under the lock of its source and is a stutter.
Nodes of other users are not modelled.

### GraphPruning

State and code: `thing` is the nodes (task, age, the mark of the user's own node, an
alias), `note` the claims (kind, ends, who states it, age, active), `named` the
nodes with an alias among the user's own names, `upload` one leaf of the sources
with its version and whether its bytes are in the store. `sweep` is the sweep under
way: it selects, locks the nodes, locks the rows that speak for them, looks again,
and deletes (`pruneOrphanNodesInScope`, `pruneStaleNodesInScope`), each a step;
the orphan sweep first scans the store for lost bytes, lists the sources that miss
them, and gives up what is still missing. Everybody else's transactions are one
step each and wait for the locks they need (`HoldsNode`, `HoldsNote`, `HoldsSelf`,
`HoldsUpload`).

Notes. `queues.ts:391` and `recover-statusless-commitments.ts` say that dismissed
tasks fall through to the pruning. A dismissed task keeps its retracted status
claim, and `orphanEvidenceFreeCondition` counts claims of any status: the orphan
sweep does not take it. Claims between a pruned node and one that stays are
cascaded without a lifecycle pass. The rounding of scores, the scope of workspaces
and dry runs are left out; a sweep's limit is any subset of the candidates.

### Rollup

State and code: `entry` is the claims that say something happened on a day, with
`createdAt` given at insertion and visible at commit; `summary` the texts on period
nodes, represented by the input they were written from (the fingerprint);
`rollupState` the watermark and the pending periods; `job` the BullMQ job of the
user; `sweep` the local variables of `runRollup`. Weeks may lie in two months.
`unannounced` remembers the days of which no sweep can hear (a late commit, a
retraction): `rollup.ts:86` documents the first. A dated node whose label or description
changes alters the input of its day as well (`collect.ts:75-81`, `213-237`) and no
sweep hears of it either; such changes are left out, and `StaleIsRemembered` says
nothing about them. The beginning of the sweep's range and its budget, which a
request may choose, are constants.

### ChangeFeed

State and code: `row` is sources and claims with partition and version; `log` and
`head` the feed's tables; `tx` transactions with their uncommitted rows and events.
Each statement's trigger emits, locks the heads of the partitions it touches and
numbers its events; the numbers become visible at commit. `queryChangeFeed` is
three reads, each a step; the consumer keeps a projection and drops it when its
cursor is refused (`docs/sdk-consumer-migration.md:156`). `Redact` is migration
0036.

Notes. Removing one claim of a task emits a tombstone of the `commitment` although
the task is alive. Transactions of several statements over two partitions may
deadlock on the heads. The redaction of review artifacts is left out, and so are the
restoring of an erased source and the branches of the trigger for redirects, source
links, ingestion and freshness (`drizzle/0037:207-250`, `261-302`): they number their
events under the same head.

### AtlasRefresh

State and code: `facts` is what the trusted claims and the pinned text say; `notice`
what the last noticed change has left to do, one Redis call after the other;
`refresh` the BullMQ job whose id is the user's; `run` what each worker is at in
`processAtlasJob` (look for the row, make it, compare the hash, write what the model
answered); `atlas` the rows of nodes of type Atlas; `bundle` the cached context and
`asking` what each reader has gathered for one. What an atlas was written from
stands for its text and for its hash.

Notes. `ensureAtlasNode` looks for the row and makes one later without a lock, in
spite of `atlas.ts:157` ("Ensures a single Atlas node"); with two rows a reader may
see either, which is why the two properties are about states with one at most
(`Portrayable`). One noticed change at a time is under way, and the three queries of a
run (`atlas-user.ts:364`) read one state. A supersession's job that failed is kept under its id and swallows
later ones. Deletions, re-attributions and extractions under a partition are not
noticed at all, and an atlas that is written does not drop the bundle; the nightly
dream and the six hours make up for all of these. Without any input the old text
stays.

## 3. Bounds

No module caps a counter of the system except these: `claims` counts to 2
(twice is already wrong), `tries` to `MaxAttempts` and `stalls` to `MaxStalls`
(BullMQ's own limits; further attempts of a retried job change nothing that
anybody reads), and each request runs once. The code has 3 attempts and 1 stall;
the runs have 1 or 2 attempts, enough to tell the last attempt from an earlier
one.

- Uploads: three requests are needed for the interleaving of an insert or
  replacement, an overtaking replacement and a late PUT; two contents tell the
  right bytes from the wrong ones. Requests and contents are interchangeable.
- Processing: two requests with two revisions give a newer revision, an older
  receipt, a return to known content and a duplicate; two workers give a stalled
  job that runs twice and a late worker of an older receipt. Two chunks give a
  run that has written part of the graph; one of the two revisions has none. The retrying client is left to a second
  instance, with one request and one worker, two attempts and a stall, because
  the product of both is out of reach. In that instance no two workers run at
  once.
- `View` of `MCSourceProcessing` merges states that differ in what nobody reads
  any more: a run that only has to report, a retry past its comparisons,
  versions remembered by what no longer uses them, jobs of a removed source.

- `MCEvidence`: two sources, one of which may be inserted while the other's tree is
  walked, three transactions, two at once, and one command that may be delivered
  twice are the smallest tree that grows under a lifecycle command; two callers with
  three claims give passes that overlap and a claim in between. Each behaviour is
  about one of the two modules (`focus`), which do not share state; the same holds
  below. What the claims say is one of nine stories of three statements (`Stories`):
  with all statements in any order the state space is out of reach, and each story
  has one of the cases the rules tell apart: inference after and before the user, a
  completion after the user, ties of time within and without mail, a circle, and a
  date set by mail and taken away before, after, or with the user's own beside it.
  Reattribution stays within the one task, as a claim that replaces another of it.
  `claim_two_active` needs two claims and no mail.
- `MCGraph`: three nodes, two claims and two transactions at once of three give
  chains of merges. Two sources, three nodes and two partitions, three commands or
  presentations, give a node that is shared, split and reused; the runs start from
  the empty database and from one in which sources about one node were written
  before (`PartitionUnderway`, which `PartitionNext` reaches with more steps). Two
  nodes, two claims, ages of 0 and 3 days with a horizon of 3 and a threshold of 60
  hundredths put a node on either side of the threshold; one sweep runs and one
  transaction beside it, at any of its steps. Sources and claims that are
  interchangeable are counted rather than named (`View`), and a behaviour of the
  pruning ends with its sweep.
- `MCReadModels`: weeks of two days and months of three give a week in two months;
  two entries, one period that always fails and a budget of two calls give every
  way to be deferred. In the feed, a source with its claim, two partitions and pages
  of two events; four transactions, two at once, and one lost answer. The atlas is
  looked at with two workers, two changes and a fault, and the bundle with one worker
  and one reader, since the product is out of reach; at the start there is nothing
  an atlas could be written from.

`CHECK_DEADLOCK FALSE` is set for `SourceProcessing`, `MCEvidence`, `MCGraph` and
`MCReadModels`: requests and transactions begin a bounded number of times, so the
system stops when all are done.

## 4. Runs

| Run | Shows |
|---|---|
| `blob_safety` | `SinglePut`: two PUTs never race for the key. `UploadedBytesAreDescribed`: while a live source's upload is `uploaded`, the object is exactly what the row describes. `ErasureIsFinal`: a completed cleanup means no bytes, now or later. `TombstoneClosesUpload`: no reservation survives the tombstone. |
| `blob_liveness` | `ErasureSettles`, `ReservationSettles`: nothing stays pending for ever, whoever died, unless the outcome of a PUT is unknown. `ImplementsErasureReceipt`: the protocol refines `ErasureReceipt`. |
| `processing_safety` | `DerivedIsCurrent`: no claim of an older revision or a removed source is ever in the graph. `CurrentReceiptSpeaks`: the receipt of the current content, the row's version and the row's status agree. `CompletedWasExtracted`: completed means there are claims, unless the content has no chunk. `ReprocessingReplaces`: no chunk is in the graph twice. |
| `processing_retry` | `CurrentReceiptSpeaks` where retries and attempts matter; `OutcomesLast`: a settled outcome changes only by a retry of a failure; and `RetryRecovers`: an open receipt whose job was never added, has failed or was stranded is settled if its client keeps retrying. |
| `evidence` | `NoLiveUnderErased`: no live source under an erased one. `NoGateCycle`: nobody waits for a gate in a circle. `SerialSpec`: overlapping transactions change the tables as one after the other would (282,000 states). `RetiredStaysClosed`: a retired name opens only by an explicit reopening, and a source that moves takes the retirement of its name along. `RetryReplaysWhileTheSourceIsThere`: a command is applied once. `CalmIsSettled`: after a pass that nothing disturbed a topic has one active claim, the right one, unless mail took away the date. `UserNeverOverwritten`: an inferred claim never supersedes a user's, unless it is explicit progress from mail. `OnlyStalePassesRevive`: only a pass that had read before revives a retracted claim. |
| `graph` | `CitationsFollow`: a merged node leads in one hop to the node that took its identity. `FactsSurvive`: what was stated of a node is stated of that one. `PartitionsHold`: evidence is in the partition of what it is about, and nothing is left outside when the migration ends. `SplitsLeadHome`: a split node's mapping leads to a node of its partition. `OnlyDisposableIsPruned`: what a sweep deletes is worth nothing at the moment it is deleted, and no bytes that came back are given up. |
| `read_models` | `StaleIsRemembered`: a summary that is not up to date is pending, or its change is ahead of the watermark. `EveryPeriodCatchesUp`: a finished period's summary comes to agree with its input. `NothingMissed`: a consumer has every event up to its cursor. `CaughtUpIsCurrent`: a consumer that is told it is complete holds what the database showed. `RetractedBodiesAreDropped`: no consumer that is up to date keeps what a retraction carried. `ConsumerCatchesUp`: it gets there again and again. `AtlasCatchesUp`, `BundleCatchesUp`: once the claims rest, the one atlas row, and what is cached, come to say what they say. |
| `blob_tombstone_waits`, `blob_definite_failures`, `blob_unknown_cleanup`, `processing_active_reopened`, `claim_two_active` | expected violations, section 6 |

Each run also checks the type invariant of its modules (`TypeOK`, `EvidenceTypeOK`,
`GraphTypeOK`, `ReadTypeOK`), which say besides types which rows refer to which.

`ReprocessingReplaces` excludes executions in which a job ran twice at the same
time (`overlap`). It does not hold there: marking a source that is already in
processing does not move its version, so both runs pass the fence, and each one's
first chunk removes what the other has written or adds to it. This is a limit of
the code, in spite of `docs/2026-04-24-claims-implementation-plan.md:71`;
`DerivedIsCurrent`, `CurrentReceiptSpeaks`, `CompletedWasExtracted` and
`OutcomesLast` hold with overlaps too.

### Fairness

`SourceBlobUpload`: a PUT ends within `SOURCE_BLOB_UPLOAD_TIMEOUT_MS`, so the
transaction around it finishes (weak fairness of its three ends); the sweep is
called periodically (weak fairness of starting one, strong fairness of one that
finds the reservation older than an hour); a deletion does not fail for ever
(strong fairness of `CompletePendingCleanup`, which fails in between as often as
it likes). Requests, the store and the direct cleanup are not assumed to make
progress.

`SourceProcessing`: BullMQ hands a waiting job to a worker (strong, since the
worker may be busy), notices the job of a dead worker (weak), a run that is not
killed goes on (weak), the retry's steps go on (weak) and a client keeps retrying
an open receipt (strong, since one retry runs at a time). `RetryRecovers` is
about executions in which stalls, failing calls outside the handlers' `try` and
failing retries are finitely many; crashes of workers need no such assumption
since each costs a stall.

`Rollup`: the worker goes on with a sweep it has begun, and the callers of the
route trigger sweeps again and again (weak fairness of `SweepStep` and `Trigger`);
failures are finitely many but for the period that always fails.

`ChangeFeed`: the consumer keeps asking, and the server answers what it was asked
(weak fairness of the three reads and of starting again). Writers are not assumed
to make progress.

`AtlasRefresh`: the host asks for a dream night after night, a worker goes on with
the run it has begun, and a cached key expires (weak fairness of `Dream`, `Work` and
`Expire`). Neither the two calls that follow a noticed change nor the job they ask
for are assumed to happen.

## 5. Proofs

All proofs are for any sets of requests, contents and workers and any bounds.
The only assumptions are the modules' `ASSUME`s: `Nothing`, `Nobody` and `Blank`
are not among the values they stand beside, the bounds are numbers, and in
`ChangeFeed` the rows are finitely many and a claim's source is a source.

`SourceBlobUpload_proofs`:

- `TypeCorrect`: `Spec => []TypeOK`.
- `PutsAreSerialized`, `ErasureHolds`, `TombstoneCloses`: `SinglePut`,
  `ErasureIsFinal`, `TombstoneClosesUpload`. None is inductive. The inductive
  invariant `ErasureInv` adds: rows held across a PUT are those of a live source
  with a begun upload and have one holder (`LockHolder`); an unacknowledged state
  has no `uploadedAt` (`Acknowledgement`), which is how the direct cleanup knows
  an upload it may report; what requests remember is a state they may restore,
  and a request records an unknown outcome only where the PUT's transaction did
  (`Memory`); tombstone and row agree (`TombstoneShape`); and a direct cleanup
  that is about to report has deleted (`EraseProgress`). The argument: while no
  PUT went unrecorded, a PUT under way is either under the row locks or the
  upload is `upload_unknown`, and no transaction but those two leave that state.
- `AcknowledgedBytesStand`: `UploadedBytesAreDescribed`, from `BytesInv` beside
  `ErasureInv`. While no PUT went unrecorded and no reservation was taken over: a PUT
  under way carries what its holder read from the row (`Carrying`); what a reservation will put back if its
  PUT is refused was true of the object when it was taken, and still is, since
  only the PUT itself changes it (`TakenBack`); and a source that was never there has no
  upload (`NothingYet`).
- `ReceiptRefinement`: the initial state maps to an initial state of
  `ErasureReceipt` and every step to a step of it or a stutter.

`SourceProcessing_proofs`:

- `TypeCorrect`: `TypeOK`, from `TypeInv`, which adds what remembered references
  need: a request under way has a revision, one that adds a job and a retry under
  way have their receipt. Receipts are only appended, so references stay valid.
- `SettledOutcomesLast`: `OutcomesLast`, an action property, by the same
  invariant: a run's receipt transactions write only receipts that are not
  settled (`WriteLasts`), a retry reopens only what `Reopenable` allows, and
  every other writer keeps the status or purges it.
- `GraphIsCurrent`: `DerivedIsCurrent`. Alone it is not inductive: a run in the
  middle of a document writes claims of the content it read earlier. `RunKnows`
  closes it: a run that has read its content and still holds the row's version
  has the row's content. It survives because a version is handed on only by
  steps that leave the content alone (`SetStatus`, `Convert`), while a change of
  content drops every holder; the graph write then takes its content from the
  invariant through the fence. Most steps are `Harmless`: they touch neither
  content nor graph and tell no reading run the version.
- `CurrentReceiptsSpeak`: `CurrentReceiptSpeaks`, from `SpeakInv`. A receipt keeps
  its key only as the newest one and for the row's content (`OwnerIsLast`), and a
  run that holds the row's version finds the source in processing and, past its
  mark, works for the newest receipt (`RunHolds`). So whoever passes the fence
  to settle a receipt settles the one that speaks for the row, in the transaction
  that writes the row's status, and each of the other writers moves row and
  receipt together or takes the key away.
- `CompletedHasClaims`: `CompletedWasExtracted`, from `ExtractInv`. A run finishes
  only after a chunk that counted or with content that has none (`WroteAt`). One that has
  written and still holds the version finds its content in the graph (`WroteHas`),
  though another run of the same job may have emptied the graph since: the other
  one's first chunk writes in the same transaction in which it removes. It rests
  on `SpeakInv` (who completes a receipt works for the current one) and on
  `GraphIsCurrent`.
- `ReprocessedOnce`: `ReprocessingReplaces`, from `ReplaceInv`. Without an overlap no
  two runs work for one receipt (`Alone`), so by `RunHolds` at most one run past its
  mark holds the version; the chunks it is still to write are not in the graph
  (`Ahead`), since its first write removed them.

`SourceTree_proofs`, from `TreeInv`. Two transactions never hold the same gate
(`GatesApart`); a command has, or waits for, the gates of all sources it has found,
and once it locks rows what it found is a whole tree of rows that are there
(`Whole`); an insertion holds the gate of its name, which is not retired.

- `NoLiveChildUnderErased`: erasing happens over a whole tree whose gates are held,
  and what attaches a child holds the gate of the parent and looks whether it is live,
  so neither can come between the other's look and its write.
- `NothingRetiredIsOpened`: `RetiredStaysClosed`, an action property, from the gate of
  the name. A move has the gates of the old and of the new names, so that what it
  retires is decided by the names as they are when it commits.
- `RetriesAreReplayed`: a recorded command was about a source that was there
  (`Addressed`), so that the second look of a repeated delivery finds the record.
- `TreeIsTyped`: `TreeTypeOK`.
- `GatesNeverWaitInACircle`: `NoGateCycle`, from `OrderInv` beside `TreeInv`. Sources
  are numbered in the order in which they were created (`Numbered`), so that a step
  that changes no parent adds to a tree only what is younger than all that was there
  (`TreesOfStep`). Hence what a transaction wants is younger than what it has, and
  what a command has yet to find is younger than both (`Ascending`), round after round.
  Whoever waits for a name has nothing yet, and who attaches a child has only a name.
  To be deadlocked is to be in every set that has one's blockers and is closed under
  blockers: the transactions that want only gates younger than the one waited for are
  such a set, and who waits is not in it. No chain is followed and nothing is counted.
- `TreesAreSerial`: `TreeSpec` implements `SerialSpec`. What a command or a move goes
  on with is the tree as it is at that moment, and stays so until it commits
  (`ScopeInv`). A step of another transaction neither removes nor moves what one has
  the gates of, nor attaches anything to it (`StepBeside`); a tree, or a whole tree
  with what is above it, is what it was as long as that is so (`TreeKept`,
  `WholeTreeKept`). Trees are least sets closed under children or parents, so that these
  lemmas compare such sets and need no induction.

`Evidence_proofs`, about `ClaimLifecycle`, from `ClaimInv`. A pointer leads to a claim
that is there, of the same topic or from a date to the mail that took it away, and
from a user's claim to nothing inferred but explicit progress of its topic (`Linked`);
what a pass is about to write, however stale, is such a pointer (`PlanIsSound`).

- `UserClaimsStand`: `UserNeverOverwritten` follows from these two.
- `CalmSubjectsAreSettled`: `CalmIsSettled`. A pass that nothing has disturbed since it
  read has left to write what still differs from one of the settlements of its topic
  (`CleanPlanIsComplete`: the plan lies between what differs and that with the rows of
  mail), so that nothing differs when it has written all. A pass over a status
  disturbs that over the date, whose removals it could change. That a settled topic has one
  active claim and the right one is arithmetic of orders: a finite nonempty set of
  claims has a last one in any order, and an order in which each is earlier than the
  next keeps the times (`OrdersKeepTime`), so that claims in a circle are of one time.
- `RetractedStaysSilent`: `OnlyStalePassesRevive`, an action property: a clean plan has
  no entry for a claim that is out of the way.
- `ClaimsAreTyped`: `ClaimTypeOK`.

`Graph_proofs`, about `NodeMerge`, has two invariants. `NodeInv`: a node that was consumed has been
taken in by another, and the nodes that share an identity are a chain that ends
(`Chained`); what a transaction has read and locked stays what it was (`StillStands`,
`Apart`); a merge that has locked the redirects it must write has locked all that have
to follow (`LinksAll`). From it `CitationsAreFollowed` and `NodesAreTyped`.

`SurvivalInv` adds what is needed for `WhatWasStatedSurvives` (`FactsSurvive`): a
stored claim is about the nodes that carry now what it was about first, and about two
(`AtCarriers`); a merge that has rewired holds of what it consumes all that is stated,
drops what has become a loop, and drops a duplicate only if an older equal claim, its
`Twin`, is stored and moves along (`Rewired`). The difficulty is that another merge may
drop that twin: but it does so for a twin of its own, older still, and claims are
numbered, so that the oldest equal claim is kept. `Path` is the least set closed under
`into`, so that chains need no induction over data.

`GraphUpkeep_proofs`, the part about `PartitionMoves`, from `PartitionInv`. What a transaction is about stays what it
read (`Standing`), and what its triggers have seen still holds unless another committed
blindly (`StillSeen`); a finished mapping leads to a node that was there (`Mapped`);
after the migration what is outside the partitions is one source committed blindly
with a node of its own (`Leftover`), since nobody can reach such a node any more.
From it `PartitionsAlwaysHold`, `SplitsAlwaysLeadHome` and `PartitionIsTyped`.

`GraphUpkeep_proofs`, the part about `GraphPruning`, from `PruneInv`. What was disposable when the sweep looked under
its locks still is when it deletes (`StillDisposable`): every way to become worth
keeping is an insertion that refers to the node, an update of a locked row, or a
change of the user's names, and waits. A source listed as missing its bytes still
misses them as long as its version is the one that was scanned (`StillMissing`). From
it `PruningIsSafe` (`OnlyDisposableIsPruned`, an action property) and `PruningIsTyped`.

`ChangeFeed_proofs`, from `FeedInv`, in three parts.

- What each open transaction is about (`Working`): the rows it has locked are what it
  found (`Standing`); it has changed exactly what its statements so far say
  (`Changing`); and its events in a partition are those of these rows, one for each,
  numbered from the head's next number, the head being its own until it ends
  (`Telling`). That two open transactions share no row and no head (`Disjoint`) makes
  each step of one leave all of this true of the others.
- The database (`Database`): numbers without gap or duplicate (`Numbered`); a claim is
  where its source is (`Beside`), which needs that a claim's insertion locks the
  source; the last event of a row says what the row is (`Mirrored`); and, since 0036,
  no bodies of what is gone (`Blanked`). A commit adds events behind all others: those
  of rows it changed become the last, the others stay so.
- The consumer (`Consumer`): a page that was read is a beginning of what was asked for,
  and all of it if it is not full (`Asking`); of each row the consumer has what the
  last event it has read says, or nothing and a later event (`Told`). The last case
  is that of a masked event: its source is not to be seen, hence neither is the row
  (`Beside`), hence the event is not the last of the row (`Mirrored`).

From it `NothingIsMissed`, `CaughtUpConsumersAreCurrent`, `RetractedBodiesGo` and
`FeedIsTyped`. Counting is left to one lemma (`CountOf`: as many events as numbers) and
to the theorems about finite sets; a page is told from its rest by its first missing
event (`FirstOf`).

`ReadModels_proofs`, about `Rollup`. Of the calendar the proof uses only `Ancestry`:
what changes with a period is of a higher level, contains what changes with that, and is
what is written from it. The division that computes weeks, months and years is settled
in the lemmas before it (`DivisionTwice`, `AllDaysAre`). `StaleIsRemembered` by itself is
not inductive. `MemoryInv` is, and says of every period, complete or not: the row
remembers what is out of date (`RowRemembers`), and so does the running sweep, for the
row it will write (`SweepRemembers`); what the sweep visits is known to the row, which
stands if the sweep fails (`WorkIsKnown`); what changes with a period it visits is
visited later or put off (`UpwardsIsAhead`, since `First` takes the lowest level); and
the input it has collected changes only by what it will hear of (`InputIsCurrent`).
From it `StaleIsAlwaysRemembered`, and `RollupIsTyped` with a count of the claims.

`ReadModels_proofs`, about `AtlasRefresh`: `AtlasIsTyped`. That a new row finds a place
among as many rows as there are workers is a count (`RowsAreCounted`): only workers that
saw no row make one, so that rows and workers about to make one never outnumber the
workers. That the job is at work if and only if a worker has it needs that no two have it.

The compositions. `EvidenceIsBoth`, `GraphIsEach` and `ReadModelsAreEach`: a behaviour
of `MCEvidence`, `MCGraph` or `MCReadModels` is one of each of its parts, whatever is in
focus, so that what is proved of a part holds of what the runs check. The partitions of
`MCGraph` also begin in the middle of a migration; such a state satisfies `PartitionInv`
(`UnderwayIsSafe`), whence `PartitionsHoldFromAnywhere`. `EvidenceIsTyped`,
`GraphIsTyped` and `ReadModelsAreTyped` are the composed type invariants.

Before each was proved TLC checked these invariants by themselves on small instances:
`ClaimInv` with the stories of `evidence` (387,000 states), `PruneInv`
with one node, two claims and three writes (927,000 states), `NodeInv` with three nodes,
two claims and three transactions (131,765), `SurvivalInv` with three nodes, three
claims and four transactions, two at once (2,324,272), `FeedInv` with two rows and four
transactions (139,785) and with a source, two claims and a node read by pages of one
event (430,023), `MemoryInv` with two claims on four days (548,527), the parts of
`SpeakInv`, `ExtractInv` and `ReplaceInv` with the constants of `processing_safety`
(956,000) and with those of `processing_retry` and two workers (2.7 million), `BytesInv`
with those of `blob_safety` (391,000), `TreeInv` and `ScopeInv` with those of `evidence` (282,000).

Only model-checked: liveness (`ErasureSettles`, `ReservationSettles`, `RetryRecovers`,
`EveryPeriodCatchesUp`, `ConsumerCatchesUp`, `AtlasCatchesUp`, `BundleCatchesUp`), since
fairness is out of the proof system's reach. Every safety invariant, action property and
refinement that the passing runs check is a theorem.

## 6. Where code and text disagree

1. `blob_unknown_cleanup`. `README.md` of the repository, line 95: "An
   unknown-outcome receipt stays open until cleanup observes and deletes the
   object." The sweep (`source-lifecycle.ts:1434`) does neither: it moves the
   receipt to the back of its list for ever. The comment in the code gives the
   reason, a delayed PUT; the README was not changed with it.
2. `blob_definite_failures`. `sources.ts:1357`: "only definite failures may enter
   physical cleanup". The catch of `insertSources` records a failure whatever it
   caught and however late: an insert whose reservation was refused, overtaken by
   a replacement that succeeds, sends the replacement's acknowledged bytes to
   cleanup while the source is live.
3. `blob_tombstone_waits`. `sources.ts:1070`: "A tombstone therefore waits for
   this put's acknowledgement or durable unknown receipt." Not if the database
   session or the process that holds the locks ends first.
4. `processing_active_reopened`. `docs/sdk/ingestion.md:257`: "A retry request
   returns a conflict while the retained queue job is still active, because
   reopening its receipt before that job finishes could leave the new work
   unscheduled." The state of the job is read before the receipt is reopened
   (`retry-source-processing.ts:53` and `:112`); a waiting job may start and
   record its failure in between. A later retry recovers it.
5. `claim_two_active`. `docs/sdk/commitments.md:5`: "Exactly one active status
   claim exists per task at any time; creating a new one automatically supersedes
   the prior." Passes write what they read before (`claims/lifecycle.ts:189`): two
   claims stay active when all is done, until something else touches the subject.

Noted, without a run: an explicit completion from mail supersedes the user's own
status (`lifecycle.ts:171-177`), where `docs/sdk/commitments.md:11` says never, and a
test expects the former; a reservation made by a replacement and abandoned is handed
to cleanup after an hour with the previously accepted bytes, because both use one
key (`docs/sdk/ingestion.md:257`: "A failed replacement upload preserves the last
committed blob until a replacement has committed"); a request without source
context that dies between insert and receipt leaves a source that every later
request reports as ingested (`save-document.ts:280`); a worker that lost its job
to a second one and marks the receipt after the second one gave up leaves a
receipt in `processing` whose job is completed, which a retry refuses.

## 7. Not modelled, and the plan

Next: more of what a component promises as an abstract specification, as
`ErasureReceipt` and `SerialTree` are (a feed that loses nothing, a graph that was merged
at once); the mode without source context and e-mail sources in `SourceProcessing`;
identity resolution and the writes of `lib/extract-graph.ts` beyond one chunk's fence,
`deleteNode`'s callers and the remaining operations of `lib/jobs/cleanup-graph.ts`.

Not planned: prompts, embeddings, ranking and identity scores (their values come
from external models), read-only queries, request translation (MCP, SDK, HTTP),
data migrations and the evaluation harness.
