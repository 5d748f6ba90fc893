------------------------ MODULE SourceProcessing_proofs ------------------------
(* Proofs about SourceProcessing, for any requests, revisions and workers, any *)
(* number of chunks, attempts and stalls.                                      *)
EXTENDS SourceProcessing, SequenceTheorems, TLAPS

USE BlankAssumption, BoundAssumption

-----------------------------------------------------------------------------
(* Type correctness.                                                       *)

\* The parts of the type invariant, with what requests and retries remember.
SourceType == [row : {"none", "live", "deleted", "gone"},
               revision : Revisions \union {Blank},
               status : {"pending", "processing", "completed", "failed"}]

Holders == {Asked(q) : q \in Requests} \union {Ran(w) : w \in Workers} \union
           {Kept(i) : i \in Receipts} \union {Retried}

\* A request under way has a revision, one that adds a job has its receipt.
RequestType ==
    {e \in [at : {"idle", "read", "update", "found", "replace", "create",
                  "add", "done"},
            revision : Revisions \union {Blank}, expects : BOOLEAN,
            op : Receipts \union {0}] :
        /\ e.at \notin {"idle", "done"} => e.revision \in Revisions
        /\ e.at = "add" => e.op \in Receipts}

RunAts == {"idle", "mark", "content", "convert", "start", "extract", "finish",
           "caught", "thrown", "returned"}

RunType == [at : RunAts,
            op : Receipts \union {0}, content : Revisions \union {Blank},
            chunk : Chunks, wrote : BOOLEAN, final : BOOLEAN, locked : BOOLEAN]

\* A retry under way has its receipt.
RetryType ==
    {e \in [at : {"idle", "inspect", "restore", "validate", "reopen",
                  "requeue"},
            op : Receipts \union {0}, status : Open \union Closed,
            job : JobStates, same : BOOLEAN] :
        e.at # "idle" => e.op \in Receipts}

JobsOK == jobs \in Seq(Job) /\ Len(jobs) = Len(receipts)
ClaimsOK == claims \in [Revisions \X Chunks -> 0 .. 2]
RequestOK == request \in [Requests -> RequestType]
RunOK == run \in [Workers -> RunType]
RetryOK == retry \in RetryType
FreshOK == fresh \subseteq Holders

TypeInv ==
    /\ source \in SourceType /\ receipts \in Seq(Receipt)
    /\ JobsOK /\ ClaimsOK /\ RequestOK /\ RunOK /\ RetryOK
    /\ FreshOK /\ overlap \in BOOLEAN

USE DEF TypeInv

\* What a step may do to the receipts: nothing, or change one in place.
SameReceipts == /\ receipts' \in Seq(Receipt)
                /\ Len(receipts') = Len(receipts)
                /\ Receipts' = Receipts

\* Receipts that are not written stay as they are.
LEMMA Unchanged == TypeInv /\ UNCHANGED receipts => SameReceipts
BY DEF SameReceipts, Receipts

\* One receipt is rewritten.
LEMMA ReceiptWrite ==
    ASSUME TypeInv, NEW i \in Receipts, NEW e \in Receipt,
           receipts' = [receipts EXCEPT ![i] = e]
    PROVE  /\ SameReceipts
           /\ receipts'[i] = e
           /\ \A j \in Receipts : j # i => receipts'[j] = receipts[j]
BY ExceptSeq DEF SameReceipts, Receipts

\* Every receipt is one.
LEMMA ReceiptFields ==
    ASSUME TypeInv, NEW i \in Receipts
    PROVE  receipts[i] \in Receipt
BY ElementOfSeq DEF Receipts

\* One receipt's outcome is written: its other fields and the other receipts stay.
LEMMA WriteReceipt ==
    ASSUME TypeInv, NEW i \in Receipts, NEW status \in Open \union Closed,
           NEW superseded \in BOOLEAN, Write(i, status, superseded)
    PROVE  /\ SameReceipts
           /\ \A j \in Receipts : j # i => receipts'[j] = receipts[j]
           /\ receipts'[i].status = status
           /\ receipts'[i].superseded = superseded
           /\ receipts'[i].owns = receipts[i].owns
           /\ receipts'[i].revision = receipts[i].revision
<1> DEFINE e == [receipts[i] EXCEPT !.status = status,
                                    !.superseded = superseded]
<1>1. e \in Receipt
  BY ReceiptFields DEF Receipt
<1>2. receipts' = [receipts EXCEPT ![i] = e]
  BY ReceiptFields DEF Write, Receipt
<1>3. /\ SameReceipts /\ receipts'[i] = e
      /\ \A j \in Receipts : j # i => receipts'[j] = receipts[j]
  BY <1>1, <1>2, ReceiptWrite
<1>4. /\ e.status = status /\ e.superseded = superseded
      /\ e.owns = receipts[i].owns /\ e.revision = receipts[i].revision
  BY ReceiptFields DEF Receipt
<1>. QED BY <1>3, <1>4

\* One job is rewritten.
LEMMA JobWrite ==
    ASSUME TypeInv, NEW i \in Receipts, NEW e \in Job,
           jobs' = [jobs EXCEPT ![i] = e]
    PROVE  jobs' \in Seq(Job) /\ Len(jobs') = Len(jobs)
BY ExceptSeq DEF JobsOK, Receipts

\* Every receipt has a job.
LEMMA JobFields ==
    ASSUME TypeInv, NEW i \in Receipts
    PROVE  jobs[i] \in Job
BY ElementOfSeq DEF JobsOK, Receipts

\* A job that is added keeps its type, also when the queue ignores the add.
LEMMA EnqueueType ==
    ASSUME TypeInv, NEW i \in Receipts, Enqueue(i)
    PROVE  jobs' \in Seq(Job) /\ Len(jobs') = Len(jobs)
<1> DEFINE e == [jobs[i] EXCEPT !.state = IF @ = "none" THEN "waiting" ELSE @]
<1>1. e \in Job
  BY JobFields DEF Job, JobStates
<1>2. jobs' = [jobs EXCEPT ![i] = e]
  BY JobFields DEF Enqueue, Job
<1>. QED BY <1>1, <1>2, JobWrite

\* The conjuncts used here say what the type invariant of the module says.
LEMMA Typed == TypeInv => TypeOK
BY DEF TypeOK, SourceType, JobsOK, ClaimsOK, RequestOK, RequestType,
       RunOK, RunType, RunAts, RetryOK, RetryType, FreshOK, Holders

\* A step that leaves the receipts their number leaves these types alone.
LEMMA SameTypes ==
    SameReceipts => /\ Holders' = Holders /\ RequestType' = RequestType
                    /\ RunType' = RunType /\ RetryType' = RetryType
BY DEF SameReceipts, Holders, RequestType, RunType, RetryType

\* Unchanged parts keep their types when the receipts keep their number.
LEMMA OthersTyped ==
    ASSUME TypeInv, SameReceipts
    PROVE  /\ UNCHANGED jobs => JobsOK'
           /\ UNCHANGED claims => ClaimsOK'
           /\ UNCHANGED request => RequestOK'
           /\ UNCHANGED run => RunOK'
           /\ UNCHANGED retry => RetryOK'
           /\ UNCHANGED fresh => FreshOK'
<1> USE SameTypes
<1>1. UNCHANGED jobs => JobsOK'
  BY DEF JobsOK, SameReceipts
<1>2. UNCHANGED claims => ClaimsOK'
  BY DEF ClaimsOK
<1>3. UNCHANGED request => RequestOK'
  BY DEF RequestOK
<1>4. UNCHANGED run => RunOK'
  BY DEF RunOK
<1>5. UNCHANGED retry => RetryOK'
  BY DEF RetryOK
<1>6. UNCHANGED fresh => FreshOK'
  BY DEF FreshOK
<1>. QED BY <1>1, <1>2, <1>3, <1>4, <1>5, <1>6

\* A status write leaves a typed row, and versions with holders only.
LEMMA SetStatusType ==
    ASSUME TypeInv, SameReceipts, NEW holders \in SUBSET Holders,
           NEW s \in {"pending", "processing", "completed", "failed"},
           SetStatus(s, holders)
    PROVE  source' \in SourceType /\ FreshOK'
BY SameTypes DEF SetStatus, SourceType, FreshOK

\* A receipt write leaves a typed snapshot with the retrying client.
LEMMA TouchType ==
    ASSUME TypeInv, SameReceipts, NEW rows, Touch(rows)
    PROVE  RetryOK'
<1>1. retry \in RetryType /\ RetryType' = RetryType
  BY SameTypes DEF RetryOK
<1>. QED BY <1>1 DEF Touch, RetryOK, RetryType

\* A run that goes to a place of runs keeps its type.
LEMMA RunMoves ==
    ASSUME TypeInv, SameReceipts, NEW w \in Workers, NEW l \in RunAts, Go(w, l)
    PROVE  RunOK'
<1>1. run \in [Workers -> RunType] /\ RunType' = RunType
  BY SameTypes DEF RunOK
<1>2. [run[w] EXCEPT !.at = l] \in RunType
  BY <1>1 DEF RunType
<1>. QED BY <1>1, <1>2 DEF Go, RunOK

\* A request is replaced while receipts may be appended.
LEMMA RequestMoves ==
    ASSUME TypeInv, NEW q \in Requests, NEW e \in RequestType', RequestOK,
           request' = [request EXCEPT ![q] = e],
           RequestType \subseteq RequestType'
    PROVE  RequestOK'
BY DEF RequestOK

\* A request moves and nothing else that is typed by the receipts changes.
LEMMA RequestGoes ==
    ASSUME TypeInv, SameReceipts, NEW q \in Requests, NEW e \in RequestType,
           request' = [request EXCEPT ![q] = e]
    PROVE  RequestOK'
BY SameTypes, RequestMoves

\* A request that is over keeps its type.
LEMMA LeaveType ==
    ASSUME TypeInv, SameReceipts, NEW q \in Requests, Leave(q)
    PROVE  RequestOK'
<1>1. Done \in RequestType
  BY DEF Done, RequestType
<1>. QED BY <1>1, RequestGoes DEF Leave

\* Every request is typed.
LEMMA RequestFields ==
    ASSUME TypeInv, NEW q \in Requests
    PROVE  request[q] \in RequestType
BY DEF RequestOK

\* Functions over 1 .. n are sequences of that length.
LEMMA FunctionIsSeq ==
    ASSUME NEW S, NEW n \in Nat, NEW f \in [1 .. n -> S]
    PROVE  f \in Seq(S) /\ Len(f) = n
<1>1. f \in Seq(S)
  BY SeqDef
<1>2. 1 .. Len(f) = 1 .. n /\ Len(f) \in Nat
  BY <1>1, LenProperties
<1>3. Len(f) = n
  <2>1. CASE Len(f) < n
    BY <1>2, <2>1, n \in 1 .. n
  <2>2. CASE Len(f) > n
    BY <1>2, <2>2, Len(f) \in 1 .. Len(f)
  <2>. QED BY <1>2, <2>1, <2>2
<1>. QED BY <1>1, <1>3

\* All receipts are rewritten at once.
LEMMA AllWritten ==
    ASSUME TypeInv, receipts' \in [Receipts -> Receipt]
    PROVE  SameReceipts
BY FunctionIsSeq, LenProperties DEF Receipts, SameReceipts

\* A receipt is appended: what was well typed before stays so.
LEMMA ReceiptAppended ==
    ASSUME TypeInv, NEW e \in Receipt, receipts' = Append(receipts, e)
    PROVE  /\ receipts' \in Seq(Receipt) /\ Len(receipts') = Len(receipts) + 1
           /\ Len(receipts') \in Receipts' /\ Receipts \subseteq Receipts'
           /\ Holders \subseteq Holders' /\ RequestType \subseteq RequestType'
           /\ UNCHANGED run => RunOK'
           /\ UNCHANGED retry => RetryOK'
<1>1. /\ receipts' \in Seq(Receipt) /\ Len(receipts') = Len(receipts) + 1
      /\ Len(receipts') \in Receipts' /\ Receipts \subseteq Receipts'
  BY LenProperties DEF Receipts
<1>2. Holders \subseteq Holders'
  BY <1>1 DEF Holders
<1>3. RequestType \subseteq RequestType'
  BY <1>1 DEF RequestType
<1>4. RunType \subseteq RunType' /\ RetryType \subseteq RetryType'
  BY <1>1 DEF RunType, RetryType
<1>5. UNCHANGED run => RunOK'
  BY <1>4 DEF RunOK
<1>6. UNCHANGED retry => RetryOK'
  BY <1>4 DEF RetryOK
<1>. QED BY <1>1, <1>2, <1>3, <1>5, <1>6

\* No step of a request leaves a type: a new receipt comes with its job.
LEMMA RequestTypes ==
    ASSUME TypeInv, NEW q \in Requests, RequestStep(q) \/ RequestFails(q)
    PROVE  TypeInv'
<1> USE DEF Rest
<1>p. /\ source \in SourceType /\ receipts \in Seq(Receipt)
      /\ JobsOK /\ ClaimsOK /\ RequestOK /\ RunOK /\ RetryOK
      /\ FreshOK /\ overlap \in BOOLEAN /\ request[q] \in RequestType
  BY RequestFields
<1>s. UNCHANGED receipts => SameReceipts
  BY Unchanged
<1>f. Asked(q) \in Holders
  BY DEF Holders
<1>1. ASSUME NEW r \in Revisions, InsertIngestionSource(q, r) PROVE TypeInv'
  <2>. DEFINE e == [at |-> "read", revision |-> r, expects |-> TRUE, op |-> 0]
  <2>1. SameReceipts
    BY <1>1, <1>s DEF InsertIngestionSource
  <2>2. e \in RequestType
    BY DEF RequestType
  <2>3. RequestOK'
    BY <1>1, <2>1, <2>2, RequestGoes DEF InsertIngestionSource
  <2>4. source' \in SourceType /\ FreshOK'
    BY <1>1 DEF InsertIngestionSource, SourceType, FreshOK
  <2>. QED BY <1>1, <1>p, <2>1, <2>3, <2>4, OthersTyped
           DEF InsertIngestionSource, SameReceipts
<1>2. ASSUME NEW r \in Revisions, FindExisting(q, r) PROVE TypeInv'
  <2>. DEFINE e == [at |-> IF Owners(r) # {} THEN "update"
                           ELSE IF source.revision = r THEN "create"
                           ELSE "replace",
                    revision |-> r, expects |-> FALSE, op |-> 0]
  <2>1. SameReceipts
    BY <1>2, <1>s DEF FindExisting
  <2>2. e \in RequestType
    BY DEF RequestType
  <2>3. RequestOK'
    BY <1>2, <2>1, <2>2, RequestGoes DEF FindExisting
  <2>. QED BY <1>2, <1>p, <2>1, <2>3, OthersTyped
           DEF FindExisting, SameReceipts
<1>3. ASSUME NEW changed \in BOOLEAN, UpdateIngestionMetadata(q, changed)
      PROVE  TypeInv'
  <2>1. SameReceipts
    BY <1>3, <1>s DEF UpdateIngestionMetadata
  <2>2. RequestOK'
    <3>1. [request[q] EXCEPT !.at = "found"] \in RequestType
      BY <1>3, <1>p DEF RequestType, UpdateIngestionMetadata
    <3>2. request' = [request EXCEPT ![q] = [request[q] EXCEPT !.at = "found"]]
             \/ Leave(q)
      BY <1>3, <1>p DEF UpdateIngestionMetadata, RequestOK
    <3>. QED BY <2>1, <3>1, <3>2, RequestGoes, LeaveType
  <2>3. RetryOK'
    BY <1>3, <1>p, <2>1, TouchType, OthersTyped DEF UpdateIngestionMetadata
  <2>4. FreshOK'
    <3>1. {Kept(i) : i \in Followers} \subseteq Holders
      BY DEF Followers, Holders
    <3>. QED BY <1>3, <1>p, <2>1, <3>1, SameTypes
             DEF UpdateIngestionMetadata, FreshOK
  <2>. QED BY <1>3, <1>p, <2>1, <2>2, <2>3, <2>4, OthersTyped
           DEF UpdateIngestionMetadata, SameReceipts
<1>4. CASE ReadCreated(q)
  <2>1. SameReceipts
    BY <1>4, <1>s DEF ReadCreated
  <2>2. RequestOK'
    <3>1. [request[q] EXCEPT !.at = "create"] \in RequestType
      BY <1>4, <1>p DEF RequestType, ReadCreated
    <3>. QED BY <1>4, <2>1, <3>1, RequestGoes, LeaveType DEF ReadCreated
  <2>3. FreshOK'
    BY <1>4, <1>p, <1>f, <2>1, SameTypes DEF ReadCreated, FreshOK
  <2>. QED BY <1>4, <1>p, <2>1, <2>2, <2>3, OthersTyped
           DEF ReadCreated, SameReceipts
<1>5. CASE FindUpdated(q)
  <2>. DEFINE owners == Owners(request[q].revision)
              queued == {i \in owners : receipts[i].status = "queued"}
  <2>1. SameReceipts
    BY <1>5, <1>s DEF FindUpdated
  <2>2. PICK e \in RequestType : request' = [request EXCEPT ![q] = e]
    <3>1. CASE owners = {}
      <4>1. [request[q] EXCEPT !.at = "create"] \in RequestType
        BY <1>5, <1>p DEF RequestType, FindUpdated
      <4>2. request' = [request EXCEPT ![q] =
                          [request[q] EXCEPT !.at = "create"]]
        BY <1>5, <1>p, <3>1 DEF FindUpdated, RequestOK
      <4>. QED BY <4>1, <4>2
    <3>2. CASE owners # {} /\ queued # {}
      <4>. DEFINE c == CHOOSE i \in queued : TRUE
                  e == [request[q] EXCEPT !.at = "add", !.op = c]
      <4>1. c \in Receipts
        <5>1. c \in queued
          BY <3>2
        <5>. QED BY <5>1 DEF Owners
      <4>2. e \in RequestType
        <5>1. request[q].at = "found"
          BY <1>5 DEF FindUpdated
        <5>. HIDE DEF c
        <5>. QED BY <1>p, <4>1, <5>1 DEF RequestType
      <4>3. request' = [request EXCEPT ![q] = e]
        <5>1. request' = [request EXCEPT ![q] =
                CASE owners = {} -> [@ EXCEPT !.at = "create"]
                  [] queued # {} -> [@ EXCEPT !.at = "add", !.op = c]
                  [] OTHER -> Done]
          BY <1>5 DEF FindUpdated
        <5>. HIDE DEF c, queued, owners
        <5>. QED BY <5>1, <1>p, <3>2 DEF RequestOK
      <4>. QED BY <4>2, <4>3
    <3>3. CASE owners # {} /\ queued = {}
      <4>1. Leave(q)
        <5>1. request' = [request EXCEPT ![q] =
                CASE owners = {} -> [@ EXCEPT !.at = "create"]
                  [] queued # {} -> [@ EXCEPT !.at = "add",
                                              !.op = CHOOSE i \in queued : TRUE]
                  [] OTHER -> Done]
          BY <1>5 DEF FindUpdated
        <5>. HIDE DEF queued, owners
        <5>. QED BY <5>1, <3>3 DEF Leave
      <4>2. Done \in RequestType
        BY DEF Done, RequestType
      <4>. QED BY <4>1, <4>2 DEF Leave
    <3>. QED BY <3>1, <3>2, <3>3
  <2>3. RequestOK'
    BY <2>1, <2>2, RequestGoes
  <2>. QED BY <1>5, <1>p, <2>1, <2>3, OthersTyped
           DEF FindUpdated, SameReceipts
<1>6. CASE ReplaceInlineContent(q)
  <2>. DEFINE r == request[q].revision
  <2>1. CASE Live /\ Owners(r) = {}
    <3>1. SameReceipts
      <4>1. receipts' = [i \in Receipts |-> [receipts[i] EXCEPT !.owns = FALSE]]
        BY <1>6, <2>1 DEF ReplaceInlineContent
      <4>2. \A i \in Receipts : [receipts[i] EXCEPT !.owns = FALSE] \in Receipt
        BY ReceiptFields DEF Receipt
      <4>. QED BY <4>1, <4>2, AllWritten
    <3>2. RequestOK'
      <4>1. [request[q] EXCEPT !.at = "create", !.expects = TRUE] \in RequestType
        BY <1>6, <1>p DEF RequestType, ReplaceInlineContent
      <4>2. request' = [request EXCEPT ![q] =
              [request[q] EXCEPT !.at = "create", !.expects = TRUE]]
        BY <1>6, <1>p, <2>1 DEF ReplaceInlineContent, RequestOK
      <4>. QED BY <3>1, <4>1, <4>2, RequestGoes
    <3>3. source' \in SourceType
      <4>1. r \in Revisions
        BY <1>6, <1>p DEF RequestType, ReplaceInlineContent
      <4>. QED BY <1>6, <1>p, <2>1, <4>1 DEF ReplaceInlineContent, SourceType
    <3>4. FreshOK'
      BY <1>6, <1>p, <1>f, <2>1, <3>1, SameTypes DEF ReplaceInlineContent, FreshOK
    <3>5. ClaimsOK'
      BY <1>6, <2>1 DEF ReplaceInlineContent, ClaimsOK, NoClaims
    <3>. QED BY <1>6, <1>p, <3>1, <3>2, <3>3, <3>4, <3>5, OthersTyped
             DEF ReplaceInlineContent, SameReceipts
  <2>2. CASE ~(Live /\ Owners(r) = {})
    BY <1>6, <1>p, <1>s, <2>2, LeaveType, OthersTyped
       DEF ReplaceInlineContent, SameReceipts
  <2>. QED BY <2>1, <2>2
<1>7. CASE CreateSourceIngestionOperation(q)
  <2>. DEFINE r == request[q].revision
              c == CHOOSE i \in Owners(r) : TRUE
  <2>1. CASE Owners(r) # {} /\ request' = [request EXCEPT ![q].at = "add",
                                                        ![q].op = c]
             /\ UNCHANGED <<source, receipts, jobs, fresh>>
    <3>1. c \in Receipts
      BY <2>1 DEF Owners
    <3>2. [request[q] EXCEPT !.at = "add", !.op = c] \in RequestType
      <4>1. request[q].at = "create"
        BY <1>7 DEF CreateSourceIngestionOperation
      <4>. HIDE DEF c
      <4>. QED BY <1>p, <3>1, <4>1 DEF RequestType
    <3>3. request' = [request EXCEPT ![q] =
                        [request[q] EXCEPT !.at = "add", !.op = c]]
      <4>. HIDE DEF c
      <4>. QED BY <1>p, <2>1 DEF RequestOK
    <3>4. RequestOK'
      BY <1>s, <2>1, <3>2, <3>3, RequestGoes
    <3>. QED BY <1>7, <1>p, <1>s, <2>1, <3>4, OthersTyped
             DEF CreateSourceIngestionOperation, SameReceipts
  <2>2. CASE /\ Live /\ source.revision = r
             /\ SetStatus("pending", {Kept(Len(receipts) + 1)})
             /\ receipts' = Append(receipts, [revision |-> r, owns |-> TRUE,
                               status |-> "queued", superseded |-> FALSE])
             /\ jobs' = Append(jobs, [state |-> "none", tries |-> 0,
                                      stalls |-> 0])
             /\ request' = [request EXCEPT ![q].at = "add",
                                           ![q].op = Len(receipts) + 1]
    <3>. DEFINE e == [revision |-> r, owns |-> TRUE, status |-> "queued",
                      superseded |-> FALSE]
                j == [state |-> "none", tries |-> 0, stalls |-> 0]
    <3>1. r \in Revisions
      BY <1>7, <1>p DEF RequestType, CreateSourceIngestionOperation
    <3>2. e \in Receipt
      BY <3>1 DEF Receipt, Open
    <3>3. /\ receipts' \in Seq(Receipt) /\ Len(receipts') = Len(receipts) + 1
          /\ Len(receipts') \in Receipts' /\ RequestType \subseteq RequestType'
          /\ Holders \subseteq Holders' /\ RunOK' /\ RetryOK'
      BY <1>7, <2>2, <3>2, ReceiptAppended DEF CreateSourceIngestionOperation
    <3>4. JobsOK'
      <4>1. j \in Job
        BY DEF Job, JobStates
      <4>. QED BY <1>p, <2>2, <3>3, <4>1 DEF JobsOK
    <3>5. RequestOK'
      <4>1. [request[q] EXCEPT !.at = "add", !.op = Len(receipts)']
              \in RequestType'
        BY <1>7, <1>p, <3>3 DEF RequestType, CreateSourceIngestionOperation
      <4>2. request' = [request EXCEPT ![q] =
                [request[q] EXCEPT !.at = "add", !.op = Len(receipts)']]
        BY <1>p, <2>2, <3>3 DEF RequestOK
      <4>. QED BY <1>p, <3>3, <4>1, <4>2, RequestMoves
    <3>6. source' \in SourceType /\ FreshOK'
      <4>1. Kept(Len(receipts) + 1) \in Holders'
        BY <3>3 DEF Holders
      <4>. QED BY <1>p, <2>2, <3>3, <4>1 DEF SetStatus, SourceType, FreshOK
    <3>. QED BY <1>7, <1>p, <3>3, <3>4, <3>5, <3>6
             DEF CreateSourceIngestionOperation, ClaimsOK
  <2>3. CASE Leave(q) /\ UNCHANGED <<source, receipts, jobs, fresh>>
    BY <1>7, <1>p, <1>s, <2>3, LeaveType, OthersTyped
       DEF CreateSourceIngestionOperation, SameReceipts
  <2>. QED BY <1>7, <2>1, <2>2, <2>3 DEF CreateSourceIngestionOperation
<1>8. CASE AddJob(q)
  <2>1. request[q].op \in Receipts
    BY <1>8, <1>p DEF AddJob, RequestType
  <2>2. JobsOK'
    BY <1>8, <1>p, <2>1, EnqueueType DEF AddJob, JobsOK
  <2>. QED BY <1>8, <1>p, <1>s, <2>2, LeaveType, OthersTyped DEF AddJob, SameReceipts
<1>9. CASE RequestFails(q)
  BY <1>9, <1>p, <1>s, LeaveType, OthersTyped
     DEF RequestFails, SameReceipts
<1>. QED BY <1>1, <1>2, <1>3, <1>4, <1>5, <1>6, <1>7, <1>8, <1>9
         DEF RequestStep

\* Every run is typed, and a throw leads to a place of runs.
LEMMA RunFields ==
    ASSUME TypeInv, NEW w \in Workers
    PROVE  run[w] \in RunType /\ Catch(w) \in RunAts
BY DEF RunOK, Catch, RunAts

\* The places of runs, for the leaves that name one.
LEMMA RunAtsMembers ==
    {"idle", "mark", "content", "convert", "start", "extract", "finish",
     "caught", "thrown", "returned"} \subseteq RunAts
BY DEF RunAts

\* A worker's memory is replaced.
LEMMA RunIs ==
    ASSUME TypeInv, SameReceipts, NEW w \in Workers, NEW e \in RunType,
           run' = [run EXCEPT ![w] = e]
    PROVE  RunOK'
BY SameTypes DEF RunOK

\* An idle worker's memory is typed.
LEMMA IdleType == Idle \in RunType
BY RunAtsMembers DEF Idle, RunType, Chunks

\* A run that only moves on.
LEMMA OnlyType ==
    ASSUME TypeInv, NEW w \in Workers, NEW l \in RunAts, Only(w, l),
           UNCHANGED <<request, Rest>>
    PROVE  TypeInv'
<1>1. SameReceipts
  BY Unchanged DEF Only
<1>. QED BY <1>1, RunMoves, OthersTyped DEF Only, Rest, SameReceipts

\* A run that rewrites its receipt and hands out versions.
LEMMA WriteType ==
    ASSUME TypeInv, NEW w \in Workers, NEW i \in Receipts,
           NEW status \in Open \union Closed, NEW superseded \in BOOLEAN,
           NEW l \in RunAts, Write(i, status, superseded), Go(w, l),
           UNCHANGED <<request, Rest>>,
           \/ UNCHANGED <<source, fresh>>
           \/ \E s \in {"pending", "processing", "completed", "failed"} :
                \E holders \in SUBSET Holders : SetStatus(s, holders)
    PROVE  TypeInv'
<1>1. SameReceipts
  BY WriteReceipt
<1>2. RetryOK'
  BY <1>1, TouchType DEF Write
<1>3. source' \in SourceType /\ FreshOK'
  BY <1>1, SetStatusType, OthersTyped
<1>. QED BY <1>1, <1>2, <1>3, RunMoves, OthersTyped DEF Rest, SameReceipts

\* What WithReceipt does without its continuation.
LEMMA NotProceeding ==
    ASSUME TypeInv, NEW w \in Workers, NEW i \in Receipts,
           WithReceipt(w, i, FALSE), UNCHANGED <<request, Rest>>
    PROVE  TypeInv'
<1>1. "returned" \in RunAts
  BY DEF RunAts
<1>2. CASE Only(w, "returned")
  BY <1>1, <1>2, OnlyType
<1>3. CASE Write(i, "failed", TRUE) /\ Go(w, "returned")
           /\ UNCHANGED <<source, fresh>>
  BY <1>1, <1>3, WriteType DEF Closed
<1>. QED BY <1>2, <1>3 DEF WithReceipt

\* A finish closes the receipt, leaves it alone or throws: all typed.
LEMMA FinishType ==
    ASSUME TypeInv, NEW w \in Workers, NEW i \in Receipts,
           NEW status \in {"completed", "failed"}, Finish(w, i, status),
           UNCHANGED <<request, Rest>>
    PROVE  TypeInv'
<1>1. Catch(w) \in RunAts /\ "returned" \in RunAts
  BY RunFields, RunAtsMembers
<1>2. CASE Only(w, Catch(w))
  BY <1>1, <1>2, OnlyType
<1>3. CASE WithReceipt(w, i, FALSE)
  BY <1>3, NotProceeding
<1>4. CASE SetStatus(status, {Kept(i)}) /\ Write(i, status, FALSE)
           /\ Go(w, "returned")
  <2>1. {Kept(i)} \in SUBSET Holders
    BY DEF Holders
  <2>. QED BY <1>1, <1>4, <2>1, WriteType DEF Closed
<1>. QED BY <1>2, <1>3, <1>4 DEF Finish, WithReceipt

\* The next chunk is a chunk of the document.
LEMMA NextChunkType ==
    ASSUME TypeInv, SameReceipts, NEW w \in Workers, NEW wrote \in BOOLEAN,
           NextChunk(w, wrote)
    PROVE  RunOK'
<1> DEFINE e == [run[w] EXCEPT !.wrote = wrote,
                   !.chunk = IF @ < LastChunk THEN @ + 1 ELSE @,
                   !.at = IF run[w].chunk < LastChunk THEN "extract"
                          ELSE IF wrote THEN "finish" ELSE Catch(w)]
<1>1. run[w] \in RunType /\ Catch(w) \in RunAts
  BY RunFields
<1>2. (IF run[w].chunk < LastChunk THEN "extract"
       ELSE IF wrote THEN "finish" ELSE Catch(w)) \in RunAts
  BY <1>1, RunAtsMembers
<1>3. (IF run[w].chunk < LastChunk THEN run[w].chunk + 1 ELSE run[w].chunk)
        \in Chunks
  BY <1>1 DEF RunType, Chunks
<1>4. e \in RunType
  BY <1>1, <1>2, <1>3 DEF RunType
<1>5. run' = [run EXCEPT ![w] = e]
  BY <1>1 DEF NextChunk, RunType, RunOK
<1>. QED BY <1>4, <1>5, RunIs

\* An outcome reaches the queue and the worker is free.
LEMMA ReportType ==
    ASSUME TypeInv, NEW w \in Workers, NEW i \in Receipts,
           NEW state \in JobStates, Report(w, i, state)
    PROVE  TypeInv'
<1>1. SameReceipts
  BY Unchanged DEF Report
<1>2. RunOK'
  BY <1>1, IdleType, RunIs DEF Report
<1>3. JobsOK'
  <2>. DEFINE e == [jobs[i] EXCEPT !.state = state,
                      !.tries = IF @ < MaxAttempts THEN @ + 1 ELSE @]
  <2>1. e \in Job
    <3>. DEFINE n == IF jobs[i].tries < MaxAttempts THEN jobs[i].tries + 1
                     ELSE jobs[i].tries
    <3>1. jobs[i] \in Job
      BY JobFields
    <3>2. n \in 0 .. MaxAttempts
      BY <3>1 DEF Job
    <3>. HIDE DEF n
    <3>3. [jobs[i] EXCEPT !.state = state, !.tries = n] \in Job
      BY <3>1, <3>2 DEF Job
    <3>. QED BY <3>3 DEF n
  <2>2. run[w].locked => jobs' = [jobs EXCEPT ![i] = e]
    BY JobFields DEF Report, Job
  <2>. QED BY <1>1, <2>1, <2>2, JobWrite DEF Report, JobsOK, SameReceipts
<1>. QED BY <1>1, <1>2, <1>3, OthersTyped DEF Report, SameReceipts

\* No step of a run leaves a type.
LEMMA RunTypes ==
    ASSUME TypeInv, NEW w \in Workers, NEW i \in Receipts, RunStep(w, i)
    PROVE  TypeInv'
<1> USE RunAtsMembers
<1>c. Catch(w) \in RunAts /\ run[w] \in RunType
  BY RunFields
<1>h. {Ran(w), Kept(i)} \in SUBSET Holders
  BY DEF Holders
<1>1. CASE Mark(w, i)
  <2>1. CASE Only(w, "thrown")
    BY <1>1, <2>1, OnlyType DEF Mark
  <2>2. CASE WithReceipt(w, i, FALSE)
    BY <1>1, <2>2, NotProceeding DEF Mark
  <2>3. CASE /\ SetStatus("processing", {Ran(w), Kept(i)})
             /\ Write(i, "processing", FALSE) /\ Go(w, "content")
    <3>1. UNCHANGED <<request, Rest>>
      BY <1>1 DEF Mark
    <3>. QED BY <1>h, <2>3, <3>1, WriteType DEF Open
  <2>. QED BY <1>1, <2>1, <2>2, <2>3 DEF Mark, WithReceipt
<1>2. CASE ReadContent(w, i)
  <2>1. SameReceipts
    BY <1>2, Unchanged DEF ReadContent
  <2>2. RunOK'
    <3>1. CASE Go(w, Catch(w))
      BY <1>c, <2>1, <3>1, RunMoves
    <3>2. CASE Go(w, "returned")
      BY <2>1, <3>2, RunMoves
    <3>3. CASE run' = [run EXCEPT ![w].at = "convert",
                                  ![w].content = source.revision]
      <4>. DEFINE e == [run[w] EXCEPT !.at = "convert",
                                      !.content = source.revision]
      <4>1. e \in RunType
        BY <1>c DEF RunType, SourceType
      <4>2. run' = [run EXCEPT ![w] = e]
        BY <1>c, <3>3 DEF RunType, RunOK
      <4>. QED BY <2>1, <4>1, <4>2, RunIs
    <3>. QED BY <1>2, <3>1, <3>2, <3>3 DEF ReadContent
  <2>. QED BY <1>2, <2>1, <2>2, OthersTyped DEF ReadContent, Rest, SameReceipts
<1>3. CASE Convert(w, i)
  <2>1. CASE Fence(w)
    <3>1. SameReceipts
      BY <1>3, <2>1, Unchanged DEF Convert
    <3>2. RunOK'
      BY <1>3, <2>1, <3>1, RunMoves DEF Convert
    <3>3. FreshOK' /\ RetryOK'
      BY <1>3, <1>h, <2>1, <3>1, SameTypes, TouchType, OthersTyped
         DEF Convert, FreshOK
    <3>. QED BY <1>3, <2>1, <3>1, <3>2, <3>3, OthersTyped
             DEF Convert, Rest, SameReceipts
  <2>2. CASE Only(w, Catch(w))
    BY <1>3, <1>c, <2>2, OnlyType DEF Convert
  <2>. QED BY <1>3, <2>1, <2>2 DEF Convert
<1>4. CASE NothingToConvert(w, i)
  <2>1. SameReceipts
    BY <1>4, Unchanged DEF NothingToConvert
  <2>. QED BY <1>4, <2>1, RunMoves, OthersTyped DEF NothingToConvert, Rest, SameReceipts
<1>5. CASE Unreadable(w, i)
  BY <1>5, FinishType DEF Unreadable
<1>6. CASE ExtractionStarted(w, i)
  <2>1. CASE Only(w, Catch(w))
    BY <1>6, <1>c, <2>1, OnlyType DEF ExtractionStarted
  <2>2. CASE WithReceipt(w, i, FALSE)
    BY <1>6, <2>2, NotProceeding DEF ExtractionStarted
  <2>3. CASE /\ Touch({i} \ {j \in Receipts : receipts[j].status = "queued"})
             /\ Go(w, "extract") /\ UNCHANGED <<source, receipts, fresh>>
    <3>1. SameReceipts
      BY <2>3, Unchanged
    <3>2. RunOK' /\ RetryOK'
      BY <2>3, <3>1, RunMoves, TouchType
    <3>. QED BY <1>6, <2>3, <3>1, <3>2, OthersTyped
             DEF ExtractionStarted, Rest, SameReceipts
  <2>. QED BY <1>6, <2>1, <2>2, <2>3 DEF ExtractionStarted, WithReceipt
<1>7. CASE ExtractChunk(w, i)
  <2>1. SameReceipts
    BY <1>7, Unchanged DEF ExtractChunk
  <2>2. RunOK'
    <3>1. PICK counts \in {TRUE, run[w].wrote} : NextChunk(w, counts)
      BY <1>7 DEF ExtractChunk
    <3>2. counts \in BOOLEAN
      BY <1>c DEF RunType
    <3>. QED BY <2>1, <3>1, <3>2, NextChunkType
  <2>3. ClaimsOK'
    <3>. DEFINE x == <<run[w].content, run[w].chunk>>
                old == Retained(w)
                n == IF old[x] < 2 THEN old[x] + 1 ELSE old[x]
    <3>1. old \in [Revisions \X Chunks -> 0 .. 2]
      BY DEF Retained, NoClaims, ClaimsOK
    <3>2. x \in Revisions \X Chunks => n \in 0 .. 2
      <4>. HIDE DEF old, x
      <4>. QED BY <3>1
    <3>3. claims' = [old EXCEPT ![x] = n]
      BY <1>7 DEF ExtractChunk
    <3>. HIDE DEF old, x, n
    <3>. QED BY <3>1, <3>2, <3>3 DEF ClaimsOK
  <2>. QED BY <1>7, <2>1, <2>2, <2>3, OthersTyped DEF ExtractChunk, SameReceipts
<1>8. CASE ChunkFails(w, i)
  <2>1. SameReceipts
    BY <1>8, Unchanged DEF ChunkFails
  <2>2. run[w].wrote \in BOOLEAN
    BY <1>c DEF RunType
  <2>3. RunOK'
    BY <1>8, <2>1, <2>2, NextChunkType DEF ChunkFails
  <2>. QED BY <1>8, <2>1, <2>3, OthersTyped DEF ChunkFails, Rest, SameReceipts
<1>9. CASE Complete(w, i)
  BY <1>9, FinishType DEF Complete
<1>10. CASE RunThrows(w, i)
  <2>1. (IF run[w].at \in {"mark", "caught", "returned"}
         THEN "thrown" ELSE Catch(w)) \in RunAts
    BY <1>c
  <2>. QED BY <1>10, <2>1, OnlyType DEF RunThrows
<1>11. CASE RecordFailure(w, i)
  <2>1. UNCHANGED <<request, Rest>> /\ Go(w, "thrown")
    BY <1>11 DEF RecordFailure
  <2>2. CASE UNCHANGED <<source, receipts, retry, fresh>>
    BY <2>1, <2>2, OnlyType DEF Only
  <2>3. CASE Write(i, "failed", TRUE) /\ UNCHANGED <<source, fresh>>
    BY <2>1, <2>3, WriteType DEF Closed
  <2>4. CASE SetStatus("failed", {Kept(i)}) /\ Write(i, "failed", FALSE)
    <3>1. {Kept(i)} \in SUBSET Holders
      BY DEF Holders
    <3>. QED BY <2>1, <2>4, <3>1, WriteType DEF Closed
  <2>. QED BY <1>11, <2>2, <2>3, <2>4 DEF RecordFailure
<1>12. CASE JobReturns(w, i)
  BY <1>12, ReportType DEF JobReturns, JobStates
<1>13. CASE JobThrows(w, i)
  <2>1. (IF jobs[i].tries + 1 < MaxAttempts THEN "delayed" ELSE "failed")
          \in JobStates
    BY DEF JobStates
  <2>. QED BY <1>13, <2>1, ReportType DEF JobThrows
<1>14. CASE NothingToExtract(w, i)
  BY <1>14, OnlyType DEF NothingToExtract
<1>. QED BY <1>1, <1>2, <1>3, <1>4, <1>5, <1>6, <1>7, <1>8, <1>9, <1>10,
            <1>11, <1>12, <1>13, <1>14 DEF RunStep

\* Nor does the queue, which hands out jobs and takes them back.
LEMMA QueueTypes ==
    ASSUME TypeInv,
           \/ \E w \in Workers : (\E i \in Receipts : PickUp(w, i)) \/ Die(w)
           \/ \E i \in Receipts : Stall(i) \/ DelayEnds(i)
    PROVE  TypeInv'
<1>1. ASSUME NEW w \in Workers, NEW i \in Receipts, PickUp(w, i)
      PROVE  TypeInv'
  <2>. DEFINE e == [jobs[i] EXCEPT !.state = "active"]
              d == [Idle EXCEPT !.at = "mark", !.op = i, !.locked = TRUE,
                      !.final = jobs[i].tries + 1 >= MaxAttempts]
  <2>1. SameReceipts
    BY <1>1, Unchanged DEF PickUp
  <2>2. JobsOK'
    <3>1. e \in Job
      BY JobFields DEF Job, JobStates
    <3>2. jobs' = [jobs EXCEPT ![i] = e]
      BY <1>1 DEF PickUp
    <3>. QED BY <2>1, <3>1, <3>2, JobWrite DEF JobsOK, SameReceipts
  <2>3. RunOK'
    <3>1. d \in RunType
      <4>1. (jobs[i].tries + 1 >= MaxAttempts) \in BOOLEAN
        OBVIOUS
      <4>. DEFINE last == jobs[i].tries + 1 >= MaxAttempts
      <4>. HIDE DEF last
      <4>2. last \in BOOLEAN
        BY <4>1 DEF last
      <4>3. [Idle EXCEPT !.at = "mark", !.op = i, !.locked = TRUE,
                         !.final = last] \in RunType
        BY <4>2, IdleType, RunAtsMembers DEF RunType
      <4>. QED BY <4>3 DEF last
    <3>. QED BY <1>1, <2>1, <3>1, RunIs DEF PickUp
  <2>4. overlap' \in BOOLEAN
    BY <1>1 DEF PickUp
  <2>. QED BY <1>1, <2>1, <2>2, <2>3, <2>4, OthersTyped DEF PickUp, SameReceipts
<1>2. ASSUME NEW w \in Workers, Die(w) PROVE TypeInv'
  <2>1. SameReceipts
    BY <1>2, Unchanged DEF Die
  <2>2. RunOK'
    BY <1>2, <2>1, IdleType, RunIs DEF Die
  <2>. QED BY <1>2, <2>1, <2>2, OthersTyped DEF Die, Rest, SameReceipts
<1>3. ASSUME NEW i \in Receipts, Stall(i) PROVE TypeInv'
  <2>. DEFINE e == [jobs[i] EXCEPT
                !.state = IF @ = "active" /\ jobs[i].stalls < MaxStalls
                          THEN "waiting" ELSE "failed",
                !.stalls = IF @ < MaxStalls THEN @ + 1 ELSE @]
  <2>1. SameReceipts
    BY <1>3, Unchanged DEF Stall
  <2>2. JobsOK'
    <3>1. e \in Job
      <4>. DEFINE n == IF jobs[i].stalls < MaxStalls THEN jobs[i].stalls + 1
                       ELSE jobs[i].stalls
                  st == IF jobs[i].state = "active" /\ jobs[i].stalls < MaxStalls
                        THEN "waiting" ELSE "failed"
      <4>1. jobs[i] \in Job
        BY JobFields
      <4>2. n \in 0 .. MaxStalls
        BY <4>1 DEF Job
      <4>3. st \in JobStates
        BY DEF JobStates
      <4>. HIDE DEF n, st
      <4>4. [jobs[i] EXCEPT !.state = st, !.stalls = n] \in Job
        BY <4>1, <4>2, <4>3 DEF Job
      <4>. QED BY <4>4 DEF n, st
    <3>2. jobs' = [jobs EXCEPT ![i] = e]
      BY <1>3, JobFields DEF Stall, Job
    <3>. QED BY <2>1, <3>1, <3>2, JobWrite DEF JobsOK, SameReceipts
  <2>3. RunOK'
    <3>1. \A w \in Workers :
            [run[w] EXCEPT !.locked = @ /\ run[w].op # i] \in RunType
      BY RunFields DEF RunType
    <3>. QED BY <1>3, <2>1, <3>1, SameTypes DEF Stall, RunOK
  <2>. QED BY <1>3, <2>1, <2>2, <2>3, OthersTyped DEF Stall, SameReceipts
<1>4. ASSUME NEW i \in Receipts, DelayEnds(i) PROVE TypeInv'
  <2>. DEFINE e == [jobs[i] EXCEPT !.state = "waiting"]
  <2>1. SameReceipts
    BY <1>4, Unchanged DEF DelayEnds
  <2>2. JobsOK'
    <3>1. e \in Job
      BY JobFields DEF Job, JobStates
    <3>2. jobs' = [jobs EXCEPT ![i] = e]
      BY <1>4 DEF DelayEnds
    <3>. QED BY <2>1, <3>1, <3>2, JobWrite DEF JobsOK, SameReceipts
  <2>. QED BY <1>4, <2>1, <2>2, OthersTyped DEF DelayEnds, SameReceipts
<1>. QED BY <1>1, <1>2, <1>3, <1>4

\* What the retry remembers is replaced, and nothing else but Retried's version.
LEMMA RetryMoves ==
    ASSUME TypeInv, NEW e \in RetryType, retry' = e,
           fresh' \subseteq fresh \union {Retried},
           UNCHANGED <<source, receipts, request, run, Rest>>
    PROVE  TypeInv'
<1>1. SameReceipts
  BY Unchanged
<1>2. FreshOK'
  BY <1>1, SameTypes DEF FreshOK, Holders
<1>3. RetryOK'
  BY <1>1, SameTypes DEF RetryOK
<1>. QED BY <1>1, <1>2, <1>3, OthersTyped DEF Rest, SameReceipts

\* A client without a retry remembers nothing.
LEMMA NoRetryType == NoRetry \in RetryType
BY DEF NoRetry, RetryType, Open, JobStates

\* Nor does the retrying client, which names existing receipts only.
LEMMA RetryTypes ==
    ASSUME TypeInv,
           (\E i \in Receipts : RetryRead(i)) \/ RetryStep \/ RetryFails
    PROVE  TypeInv'
<1>r. retry \in RetryType
  BY DEF RetryOK
<1>1. ASSUME NEW i \in Receipts, RetryRead(i) PROVE TypeInv'
  <2>. DEFINE e == [at |-> "inspect", op |-> i, status |-> receipts[i].status,
                    job |-> "none", same |-> TRUE]
  <2>1. e \in RetryType
    BY ReceiptFields DEF RetryType, Receipt, JobStates
  <2>. QED BY <1>1, <2>1, RetryMoves DEF RetryRead
<1>2. CASE RetryInspect
  <2>. DEFINE j == jobs[retry.op].state
  <2>1. retry.op \in Receipts /\ j \in JobStates
    BY <1>2, <1>r, JobFields DEF RetryInspect, RetryType, Job
  <2>2. /\ [retry EXCEPT !.at = "restore"] \in RetryType
        /\ [retry EXCEPT !.at = "validate", !.job = j] \in RetryType
        /\ [retry EXCEPT !.at = "reopen", !.job = j] \in RetryType
    <3>. HIDE DEF j
    <3>. QED BY <1>r, <2>1 DEF RetryType
  <2>3. PICK e \in RetryType : retry' = e
    <3>1. retry' =
         CASE j = "none" /\ retry.status = "queued" ->
                [retry EXCEPT !.at = "restore"]
           [] j = "failed" /\ retry.status \in Open ->
                [retry EXCEPT !.at = "validate", !.job = j]
           [] \/ j \in {"waiting", "failed"}
              \/ j = "completed" /\ Restarts(retry.status) ->
                [retry EXCEPT !.at = "reopen", !.job = j]
           [] OTHER -> NoRetry
      BY <1>2 DEF RetryInspect
    <3>. HIDE DEF j
    <3>. QED BY <2>2, <3>1, NoRetryType
  <2>. QED BY <1>2, <2>3, RetryMoves DEF RetryInspect
<1>3. CASE RetryRestore
  <2>1. SameReceipts
    BY <1>3, Unchanged DEF RetryRestore
  <2>2. retry.op \in Receipts
    BY <1>3, <1>r DEF RetryRestore, RetryType
  <2>3. JobsOK'
    BY <1>3, <2>1, <2>2, EnqueueType DEF RetryRestore, JobsOK, SameReceipts
  <2>4. RetryOK'
    BY <1>3, <2>1, SameTypes, NoRetryType DEF RetryRestore, RetryOK
  <2>. QED BY <1>3, <2>1, <2>3, <2>4, OthersTyped DEF RetryRestore, SameReceipts
<1>4. CASE RetryValidate
  <2>1. [retry EXCEPT !.at = "requeue"] \in RetryType
    BY <1>4, <1>r DEF RetryType, RetryValidate
  <2>. QED BY <1>4, <2>1, RetryMoves, NoRetryType DEF RetryValidate
<1>5. CASE RetryReopen
  <2>. DEFINE i == retry.op
              onward == [retry EXCEPT !.same = FALSE, !.at =
                           IF retry.job = "waiting" THEN "idle" ELSE "requeue"]
  <2>1. i \in Receipts
    BY <1>5, <1>r DEF RetryReopen, RetryType
  <2>2. onward \in RetryType
    BY <1>r, <2>1 DEF RetryType
  <2>3. CASE retry' = onward /\ UNCHANGED <<source, receipts, fresh>>
    <3>1. UNCHANGED <<request, run, Rest>>
      BY <1>5 DEF RetryReopen
    <3>. HIDE DEF onward
    <3>. QED BY <2>2, <2>3, <3>1, RetryMoves
  <2>4. CASE retry' = NoRetry /\ UNCHANGED <<source, receipts, fresh>>
    <3>1. UNCHANGED <<request, run, Rest>>
      BY <1>5 DEF RetryReopen
    <3>. QED BY <2>4, <3>1, NoRetryType, RetryMoves
  <2>5. CASE /\ SetStatus("pending", {Kept(i)})
             /\ receipts' = [receipts EXCEPT ![i].status = "queued"]
             /\ retry' = onward
    <3>1. SameReceipts
      <4>. DEFINE e == [receipts[i] EXCEPT !.status = "queued"]
      <4>1. e \in Receipt
        BY <2>1, ReceiptFields DEF Receipt, Open
      <4>2. receipts' = [receipts EXCEPT ![i] = e]
        BY <2>5
      <4>. QED BY <2>1, <4>1, <4>2, ReceiptWrite
    <3>2. source' \in SourceType /\ FreshOK'
      <4>1. {Kept(i)} \in SUBSET Holders
        BY <2>1 DEF Holders
      <4>. QED BY <2>5, <3>1, <4>1, SetStatusType
    <3>3. RetryOK'
      <4>. HIDE DEF onward
      <4>. QED BY <2>2, <2>5, <3>1, SameTypes DEF RetryOK
    <3>. QED BY <1>5, <3>1, <3>2, <3>3, OthersTyped DEF RetryReopen, Rest, SameReceipts
  <2>. QED BY <1>5, <2>3, <2>4, <2>5 DEF RetryReopen
<1>6. CASE RetryRequeue
  <2>. DEFINE i == retry.op
              e == [jobs[i] EXCEPT !.state = IF @ = retry.job THEN "waiting"
                                             ELSE @]
  <2>1. SameReceipts
    BY <1>6, Unchanged DEF RetryRequeue
  <2>2. i \in Receipts
    BY <1>6, <1>r DEF RetryRequeue, RetryType
  <2>3. JobsOK'
    <3>1. e \in Job
      BY <2>2, JobFields DEF Job, JobStates
    <3>2. jobs' = [jobs EXCEPT ![i] = e]
      BY <1>6, <2>2, JobFields DEF RetryRequeue, Job
    <3>. QED BY <2>1, <2>2, <3>1, <3>2, JobWrite DEF JobsOK, SameReceipts
  <2>4. RetryOK'
    BY <1>6, <2>1, SameTypes, NoRetryType DEF RetryRequeue, RetryOK
  <2>. QED BY <1>6, <2>1, <2>3, <2>4, OthersTyped DEF RetryRequeue, SameReceipts
<1>7. CASE RetryFails
  BY <1>7, RetryMoves, NoRetryType DEF RetryFails
<1>. QED BY <1>1, <1>2, <1>3, <1>4, <1>5, <1>6, <1>7 DEF RetryStep

\* Nor does the source's removal.
LEMMA LifecycleTypes ==
    ASSUME TypeInv, Tombstone \/ Purge
    PROVE  TypeInv'
<1>1. CASE Tombstone
  <2>1. SameReceipts
    BY <1>1, Unchanged DEF Tombstone
  <2>2. source' \in SourceType
    BY <1>1 DEF Tombstone, SourceType
  <2>3. FreshOK'
    BY <1>1 DEF Tombstone, FreshOK
  <2>4. ClaimsOK'
    BY <1>1 DEF Tombstone, ClaimsOK, NoClaims
  <2>. QED BY <1>1, <2>1, <2>2, <2>3, <2>4, OthersTyped DEF Tombstone, SameReceipts
<1>2. CASE Purge
  <2>1. SameReceipts
    <3>1. \A i \in Receipts : [receipts[i] EXCEPT !.status = "purged",
                                                 !.owns = FALSE] \in Receipt
      BY ReceiptFields DEF Receipt, Closed
    <3>. QED BY <1>2, <3>1, AllWritten DEF Purge
  <2>2. source' \in SourceType
    BY <1>2 DEF Purge, SourceType
  <2>3. RetryOK'
    BY <1>2, <2>1, TouchType DEF Purge
  <2>. QED BY <1>2, <2>1, <2>2, <2>3, OthersTyped DEF Purge, SameReceipts
<1>. QED BY <1>1, <1>2

\* The conjuncts hold in every reachable state.
LEMMA TypeInvariant == Spec => []TypeInv
<1>1. Init => TypeInv
  <2>. SUFFICES ASSUME Init PROVE TypeInv
    OBVIOUS
  <2>1. source \in SourceType
    BY DEF Init, SourceType
  <2>2. receipts \in Seq(Receipt) /\ jobs \in Seq(Job)
    BY EmptySeq DEF Init
  <2>3. Len(jobs) = Len(receipts)
    BY DEF Init
  <2>4. ClaimsOK
    BY DEF Init, ClaimsOK, NoClaims
  <2>5. RequestOK
    BY DEF Init, RequestOK, RequestType
  <2>6. RunOK
    BY IdleType DEF Init, RunOK
  <2>7. RetryOK
    BY NoRetryType DEF Init, RetryOK
  <2>8. FreshOK /\ overlap \in BOOLEAN
    BY DEF Init, FreshOK
  <2>. QED BY <2>1, <2>2, <2>3, <2>4, <2>5, <2>6, <2>7, <2>8 DEF JobsOK
<1>2. TypeInv /\ [Next]_vars => TypeInv'
  <2>1. TypeInv /\ UNCHANGED vars => TypeInv'
    BY Unchanged, OthersTyped DEF vars, SameReceipts
  <2>. QED BY <2>1, RequestTypes, RunTypes, QueueTypes, RetryTypes,
              LifecycleTypes DEF Next
<1>. QED BY <1>1, <1>2, PTL DEF Spec

\* Every variable keeps its type, whatever requests, workers, retries and
\* lifecycle commands interleave: in particular a receipt's status is always one
\* its table allows, and every job, run and retry refers to an existing receipt.
THEOREM TypeCorrect == Spec => []TypeOK
BY TypeInvariant, Typed, PTL

-----------------------------------------------------------------------------
(* Settled outcomes.                                                       *)

\* What a step leaves of every settled receipt.
Lasting ==
    \A i \in Receipts :
         /\ receipts[i].status = "completed" =>
              receipts'[i].status \in {"completed", "purged"}
         /\ receipts[i].status = "failed" =>
              \/ receipts'[i].status \in {"failed", "purged"}
              \/ /\ receipts'[i].status = "queued"
                 /\ ~receipts[i].superseded /\ ~Newer(i)

\* Receipts that are not written last.
LEMMA UnchangedLasts == UNCHANGED receipts => Lasting
BY DEF Lasting

\* A run writes no receipt that is settled.
LEMMA WriteLasts ==
    ASSUME TypeInv, NEW i \in Receipts, NEW status \in Open \union Closed,
           NEW superseded \in BOOLEAN, Write(i, status, superseded),
           ~IsSettled(i)
    PROVE  Lasting
<1>1. \A j \in Receipts : j # i => receipts'[j] = receipts[j]
  BY WriteReceipt
<1>2. receipts[i].status \notin {"completed", "failed"}
  BY DEF IsSettled, Closed
<1>. QED BY <1>1, <1>2 DEF Lasting

\* A receipt transaction that does not proceed writes no settled receipt.
LEMMA NotProceedingLasts ==
    ASSUME TypeInv, NEW w, NEW i \in Receipts, WithReceipt(w, i, FALSE)
    PROVE  Lasting
<1>1. "failed" \in Open \union Closed
  BY DEF Closed
<1>. QED BY <1>1, WriteLasts, UnchangedLasts DEF WithReceipt, Only

\* Nor does a finish.
LEMMA FinishLasts ==
    ASSUME TypeInv, NEW w, NEW i \in Receipts,
           NEW status \in {"completed", "failed"}, Finish(w, i, status)
    PROVE  Lasting
<1>1. CASE UNCHANGED receipts
  BY <1>1, UnchangedLasts
<1>2. CASE WithReceipt(w, i, FALSE)
  BY <1>2, NotProceedingLasts
<1>3. CASE ~IsSettled(i) /\ Write(i, status, FALSE)
  BY <1>3, WriteLasts DEF Closed
<1>. QED BY <1>1, <1>2, <1>3 DEF Finish, WithReceipt, Only

\* Nor does any step of a run, however late it comes.
LEMMA RunLasts ==
    ASSUME TypeInv, NEW w, NEW i \in Receipts, RunStep(w, i)
    PROVE  Lasting
<1>1. CASE UNCHANGED receipts
  BY <1>1, UnchangedLasts
<1>2. CASE Mark(w, i)
  <2>1. CASE ~IsSettled(i) /\ Write(i, "processing", FALSE)
    BY <2>1, WriteLasts DEF Open
  <2>. QED BY <1>1, <1>2, <2>1, NotProceedingLasts DEF Mark, WithReceipt, Only
<1>3. CASE Unreadable(w, i)
  BY <1>3, FinishLasts DEF Unreadable
<1>4. CASE ExtractionStarted(w, i)
  BY <1>1, <1>4, NotProceedingLasts DEF ExtractionStarted, WithReceipt, Only
<1>5. CASE Complete(w, i)
  BY <1>5, FinishLasts DEF Complete
<1>6. CASE RecordFailure(w, i)
  <2>1. CASE \E b \in BOOLEAN : ~IsSettled(i) /\ Write(i, "failed", b)
    BY <2>1, WriteLasts DEF Closed
  <2>. QED BY <1>1, <1>6, <2>1 DEF RecordFailure
<1>7. CASE \/ ReadContent(w, i) \/ Convert(w, i) \/ NothingToConvert(w, i)
           \/ NothingToExtract(w, i) \/ ExtractChunk(w, i)
           \/ ChunkFails(w, i) \/ RunThrows(w, i)
           \/ JobReturns(w, i) \/ JobThrows(w, i)
  BY <1>1, <1>7
     DEF ReadContent, Convert, NothingToConvert, NothingToExtract,
         ExtractChunk, ChunkFails,
         RunThrows, JobReturns, JobThrows, Only, Report
<1>. QED BY <1>2, <1>3, <1>4, <1>5, <1>6, <1>7 DEF RunStep

\* A request appends a receipt or takes keys away: outcomes stay.
LEMMA RequestLasts ==
    ASSUME TypeInv, NEW q \in Requests, RequestStep(q) \/ RequestFails(q)
    PROVE  Lasting
<1>1. CASE UNCHANGED receipts
  BY <1>1, UnchangedLasts
<1>2. CASE ReplaceInlineContent(q)
  <2>1. CASE receipts' = [i \in Receipts |->
                            [receipts[i] EXCEPT !.owns = FALSE]]
    <3>1. \A i \in Receipts : receipts'[i].status = receipts[i].status
      BY <2>1, ReceiptFields DEF Receipt
    <3>. QED BY <3>1 DEF Lasting
  <2>. QED BY <1>1, <1>2, <2>1 DEF ReplaceInlineContent
<1>3. CASE CreateSourceIngestionOperation(q)
  <2>1. ASSUME NEW e, receipts' = Append(receipts, e) PROVE Lasting
    <3>1. \A i \in Receipts : receipts'[i] = receipts[i]
      BY <2>1, AppendProperties DEF Receipts
    <3>. QED BY <3>1 DEF Lasting
  <2>. QED BY <1>1, <1>3, <2>1 DEF CreateSourceIngestionOperation
<1>4. CASE AddJob(q) \/ RequestFails(q) \/ ReadCreated(q) \/ FindUpdated(q)
  BY <1>1, <1>4 DEF AddJob, RequestFails, ReadCreated, FindUpdated
<1>5. CASE \/ \E r \in Revisions :
                InsertIngestionSource(q, r) \/ FindExisting(q, r)
           \/ \E changed \in BOOLEAN : UpdateIngestionMetadata(q, changed)
  BY <1>1, <1>5
     DEF InsertIngestionSource, FindExisting, UpdateIngestionMetadata
<1>. QED BY <1>2, <1>3, <1>4, <1>5 DEF RequestStep

\* A retry reopens a failure that nothing has superseded, and no other outcome.
LEMMA RetryLasts ==
    ASSUME TypeInv, RetryStep \/ RetryFails
    PROVE  Lasting
<1>1. CASE UNCHANGED receipts
  BY <1>1, UnchangedLasts
<1>2. CASE RetryReopen
  <2>. DEFINE i == retry.op
              e == [receipts[i] EXCEPT !.status = "queued"]
  <2>1. i \in Receipts
    BY <1>2 DEF RetryReopen, RetryOK, RetryType
  <2>2. CASE /\ Reopenable(i)
             /\ receipts' = [receipts EXCEPT ![i].status = "queued"]
    <3>1. e \in Receipt
      BY <2>1, ReceiptFields DEF Receipt, Open
    <3>2. receipts' = [receipts EXCEPT ![i] = e]
      BY <2>2
    <3>3. /\ receipts'[i] = e
          /\ \A j \in Receipts : j # i => receipts'[j] = receipts[j]
      BY <2>1, <3>1, <3>2, ReceiptWrite
    <3>4. receipts'[i].status = "queued"
      BY <2>1, <3>3, ReceiptFields DEF Receipt
    <3>. QED BY <2>2, <3>3, <3>4 DEF Lasting, Reopenable
  <2>. QED BY <1>1, <1>2, <2>2 DEF RetryReopen
<1>3. CASE RetryInspect \/ RetryRestore \/ RetryValidate \/ RetryRequeue
           \/ RetryFails
  BY <1>1, <1>3
     DEF RetryInspect, RetryRestore, RetryValidate, RetryRequeue, RetryFails
<1>. QED BY <1>2, <1>3 DEF RetryStep

\* A purge makes every receipt purged, which is the one end left open.
LEMMA PurgeLasts ==
    ASSUME TypeInv, Purge
    PROVE  Lasting
<1>1. \A i \in Receipts : receipts'[i].status = "purged"
  BY ReceiptFields DEF Purge, Receipt
<1>. QED BY <1>1 DEF Lasting

\* A receipt that is completed stays so until the source is purged, and a failed
\* one goes back to the queue only while nothing has superseded it: no run that
\* outlives its job, however late, rewrites a settled outcome
\* (every receipt transaction of a run returns a settled receipt as it is).
THEOREM SettledOutcomesLast == Spec => OutcomesLast
<1>1. TypeInv /\ [Next]_vars => [Lasting]_vars
  <2>. SUFFICES ASSUME TypeInv, [Next]_vars PROVE Lasting
    OBVIOUS
  <2>1. CASE UNCHANGED vars
    BY <2>1, UnchangedLasts DEF vars
  <2>2. CASE \E q \in Requests : RequestStep(q) \/ RequestFails(q)
    BY <2>2, RequestLasts
  <2>3. CASE \E w \in Workers :
               \/ \E i \in Receipts : PickUp(w, i) \/ RunStep(w, i)
               \/ Die(w)
    BY <2>3, RunLasts, UnchangedLasts DEF PickUp, Die
  <2>4. CASE \E i \in Receipts : Stall(i) \/ DelayEnds(i) \/ RetryRead(i)
    BY <2>4, UnchangedLasts DEF Stall, DelayEnds, RetryRead
  <2>5. CASE RetryStep \/ RetryFails
    BY <2>5, RetryLasts
  <2>6. CASE Tombstone \/ Purge
    BY <2>6, UnchangedLasts, PurgeLasts DEF Tombstone
  <2>. QED BY <2>1, <2>2, <2>3, <2>4, <2>5, <2>6 DEF Next
<1>2. [Lasting]_vars =>
        [\A i \in Receipts :
         /\ receipts[i].status = "completed" =>
              receipts'[i].status \in {"completed", "purged"}
         /\ receipts[i].status = "failed" =>
              \/ receipts'[i].status \in {"failed", "purged"}
              \/ /\ receipts'[i].status = "queued"
                 /\ ~receipts[i].superseded /\ ~Newer(i)]_vars
  BY DEF Lasting
<1>. QED BY <1>1, <1>2, TypeInvariant, PTL DEF Spec, OutcomesLast

-----------------------------------------------------------------------------
(* The graph belongs to the current content.                               *)

\* A run that has read its content and is yet to write from it, or to finish.
Reads == {"convert", "start", "extract", "finish"}

\* What makes DerivedIsCurrent inductive: such a run, while it holds the row's
\* version, has the row's content.
RunKnows ==
    \A w \in Workers : run[w].at \in Reads /\ Ran(w) \in fresh =>
        Live /\ run[w].content = source.revision

DerivedInv == DerivedIsCurrent /\ RunKnows

\* A run's version is nobody else's.
LEMMA DistinctHolders ==
    ASSUME NEW w
    PROVE  /\ \A q : Ran(w) # Asked(q)
           /\ \A i : Ran(w) # Kept(i)
           /\ \A v : Ran(w) = Ran(v) => w = v
           /\ Ran(w) # Retried
BY DEF Ran, Asked, Kept, Retried

\* A step that neither touches the content nor the graph, tells no such run the
\* version, and gives no run other content.
SameContent == source'.row = source.row /\ source'.revision = source.revision

NoneTold ==
    \A w \in Workers : run'[w].at \in Reads /\ Ran(w) \in fresh' =>
                           Ran(w) \in fresh

ContentKept ==
    \A w \in Workers : run'[w].at \in Reads =>
        /\ run[w].at \in Reads
        /\ run'[w].content = run[w].content

\* Such a step keeps the graph current.
LEMMA Harmless ==
    ASSUME DerivedInv, SameContent, UNCHANGED claims, NoneTold, ContentKept
    PROVE  DerivedInv'
<1>1. DerivedIsCurrent'
  BY DEF DerivedInv, DerivedIsCurrent, SameContent, Live
<1>2. RunKnows'
  BY DEF DerivedInv, RunKnows, SameContent, Live, NoneTold, ContentKept
<1>. QED BY <1>1, <1>2 DEF DerivedInv

\* Runs that do nothing keep their content.
LEMMA RunUnchanged == UNCHANGED run => ContentKept
BY DEF ContentKept

\* A run moves on without new content.
LEMMA GoKeeps ==
    ASSUME TypeInv, NEW w \in Workers, NEW l, Go(w, l),
           l \in Reads => run[w].at \in Reads
    PROVE  /\ ContentKept
           /\ run'[w].at = l
           /\ \A v \in Workers : v # w => run'[v] = run[v]
BY RunFields DEF RunOK, RunType, Go, ContentKept

\* A worker is idle or starts its job.
LEMMA StartKeeps ==
    ASSUME TypeInv, NEW w \in Workers, NEW e, run' = [run EXCEPT ![w] = e],
           e.at \notin Reads
    PROVE  ContentKept
BY DEF RunOK, ContentKept

\* A status write keeps the content and hands the version to its holders only.
LEMMA SetStatusKeeps ==
    ASSUME TypeInv, NEW s, NEW holders, SetStatus(s, holders)
    PROVE  SameContent /\ fresh' \subseteq fresh \union holders
BY DEF SetStatus, SameContent, SourceType

\* Requests that replace content remove its claims in the same transaction.
LEMMA RequestDerives ==
    ASSUME TypeInv, DerivedInv, NEW q \in Requests,
           RequestStep(q) \/ RequestFails(q)
    PROVE  DerivedInv'
<1> USE DistinctHolders
<1>0. ASSUME SameContent, UNCHANGED <<claims, run>>,
             fresh' \subseteq fresh \union {Asked(q)} \union {Kept(i) : i \in Nat}
      PROVE  DerivedInv'
  BY <1>0, Harmless, RunUnchanged DEF NoneTold
<1>k. \A i \in Receipts : i \in Nat
  BY LenProperties DEF Receipts
<1>1. ASSUME NEW r \in Revisions, InsertIngestionSource(q, r)
      PROVE  DerivedInv'
  <2>1. DerivedIsCurrent'
    BY <1>1 DEF InsertIngestionSource, DerivedInv, DerivedIsCurrent, Live, Rest
  <2>2. RunKnows'
    BY <1>1 DEF InsertIngestionSource, RunKnows
  <2>. QED BY <2>1, <2>2 DEF DerivedInv
<1>2. CASE ReadCreated(q)
  BY <1>0, <1>2 DEF ReadCreated, SameContent, Rest
<1>3. ASSUME NEW r \in Revisions, FindExisting(q, r) PROVE DerivedInv'
  BY <1>0, <1>3 DEF FindExisting, SameContent, Rest
<1>4. ASSUME NEW changed \in BOOLEAN, UpdateIngestionMetadata(q, changed)
      PROVE  DerivedInv'
  <2>1. {Kept(i) : i \in Followers} \subseteq {Kept(i) : i \in Nat}
    BY <1>k DEF Followers
  <2>2. fresh' \subseteq fresh \union {Kept(i) : i \in Nat}
    BY <1>4, <2>1 DEF UpdateIngestionMetadata
  <2>. QED BY <1>0, <1>4, <2>2 DEF UpdateIngestionMetadata, SameContent, Rest
<1>5. CASE FindUpdated(q)
  BY <1>0, <1>5 DEF FindUpdated, SameContent, Rest
<1>6. CASE ReplaceInlineContent(q)
  <2>. DEFINE r == request[q].revision
  <2>1. CASE Live /\ Owners(r) = {}
    <3>1. /\ claims' = NoClaims /\ UNCHANGED run
          /\ source'.row = source.row /\ source'.revision = r
          /\ \/ fresh' = {Asked(q)}
             \/ source.revision = r /\ fresh' = fresh \union {Asked(q)}
      BY <1>6, <2>1 DEF ReplaceInlineContent, SourceType
    <3>2. DerivedIsCurrent'
      BY <3>1 DEF DerivedIsCurrent, NoClaims
    <3>3. RunKnows'
      BY <3>1, <2>1 DEF DerivedInv, RunKnows, Live
    <3>. QED BY <3>2, <3>3 DEF DerivedInv
  <2>2. CASE ~(Live /\ Owners(r) = {})
    BY <1>0, <1>6, <2>2 DEF ReplaceInlineContent, SameContent
  <2>. QED BY <2>1, <2>2
<1>7. CASE CreateSourceIngestionOperation(q)
  <2>1. CASE UNCHANGED <<source, fresh>>
    BY <1>0, <1>7, <2>1 DEF CreateSourceIngestionOperation, SameContent
  <2>2. CASE SetStatus("pending", {Kept(Len(receipts) + 1)})
    <3>1. Len(receipts) + 1 \in Nat
      BY LenProperties
    <3>2. SameContent /\ fresh' \subseteq fresh \union {Kept(i) : i \in Nat}
      BY <2>2, <3>1, SetStatusKeeps
    <3>. QED BY <1>0, <1>7, <3>2 DEF CreateSourceIngestionOperation
  <2>. QED BY <1>7, <2>1, <2>2 DEF CreateSourceIngestionOperation
<1>8. CASE AddJob(q) \/ RequestFails(q)
  BY <1>0, <1>8 DEF AddJob, RequestFails, SameContent, Rest
<1>. QED BY <1>1, <1>2, <1>3, <1>4, <1>5, <1>6, <1>7, <1>8 DEF RequestStep

\* A worker that becomes idle reads nothing.
LEMMA IdleKeeps ==
    ASSUME TypeInv, NEW w \in Workers, run' = [run EXCEPT ![w] = Idle]
    PROVE  ContentKept
<1>1. Idle.at \notin Reads
  BY DEF Idle, Reads
<1>. QED BY <1>1, StartKeeps

\* The places at which a run writes from no content.
LEMMA NotReading ==
    \A l \in {"idle", "mark", "content", "caught", "thrown",
              "returned"} : l \notin Reads
BY DEF Reads

\* A run leaves its content behind and tells at most itself the version.
LEMMA GoDerives ==
    ASSUME TypeInv, DerivedInv, NEW w \in Workers, NEW l, Go(w, l),
           l \notin Reads, SameContent, UNCHANGED claims,
           fresh' \subseteq fresh \union {Ran(w)} \union {Kept(i) : i \in Nat}
    PROVE  DerivedInv'
<1>1. ContentKept /\ run'[w].at \notin Reads
  BY GoKeeps
<1>2. NoneTold
  BY <1>1, DistinctHolders DEF NoneTold
<1>. QED BY <1>1, <1>2, Harmless

\* A run that only moves on, out of its extraction, changes no claim.
LEMMA OnlyDerives ==
    ASSUME TypeInv, DerivedInv, NEW w \in Workers, NEW l, Only(w, l),
           l \notin Reads, UNCHANGED claims
    PROVE  DerivedInv'
BY GoDerives DEF Only, SameContent

\* Nor does a receipt transaction that does not proceed.
LEMMA NotProceedingDerives ==
    ASSUME TypeInv, DerivedInv, NEW w \in Workers, NEW i \in Receipts,
           WithReceipt(w, i, FALSE), UNCHANGED claims
    PROVE  DerivedInv'
BY GoDerives, NotReading DEF WithReceipt, Only, SameContent

\* Nor does a status write, which tells at most the run itself.
LEMMA StatusDerives ==
    ASSUME TypeInv, DerivedInv, NEW w \in Workers, NEW i \in Receipts, NEW s,
           NEW holders \in SUBSET {Ran(w), Kept(i)}, SetStatus(s, holders),
           NEW l, Go(w, l), l \notin Reads, UNCHANGED claims
    PROVE  DerivedInv'
<1>1. i \in Nat
  BY LenProperties DEF Receipts
<1>2. SameContent /\ fresh' \subseteq fresh \union holders
  BY SetStatusKeeps
<1>3. fresh' \subseteq fresh \union {Ran(w)} \union {Kept(j) : j \in Nat}
  BY <1>1, <1>2
<1>. QED BY <1>2, <1>3, GoDerives

\* Nor does a finish.
LEMMA FinishDerives ==
    ASSUME TypeInv, DerivedInv, NEW w \in Workers, NEW i \in Receipts,
           NEW status, Finish(w, i, status), UNCHANGED claims
    PROVE  DerivedInv'
<1>1. Catch(w) \notin Reads /\ "returned" \notin Reads
  BY DEF Catch, Reads
<1>2. CASE Only(w, Catch(w))
  BY <1>1, <1>2, OnlyDerives
<1>3. CASE WithReceipt(w, i, FALSE)
  BY <1>3, NotProceedingDerives
<1>4. CASE SetStatus(status, {Kept(i)}) /\ Go(w, "returned")
  BY <1>1, <1>4, StatusDerives
<1>. QED BY <1>2, <1>3, <1>4 DEF Finish, WithReceipt

\* The graph write: the fence says that the run has the row's content.
LEMMA ExtractDerives ==
    ASSUME TypeInv, DerivedInv, NEW w \in Workers, NEW i, ExtractChunk(w, i)
    PROVE  DerivedInv'
<1>. DEFINE x == <<run[w].content, run[w].chunk>>
            old == Retained(w)
            n == IF old[x] < 2 THEN old[x] + 1 ELSE old[x]
<1>1. Live /\ run[w].content = source.revision
  BY DEF ExtractChunk, At, Fence, Reads, DerivedInv, RunKnows
<1>2. ContentKept
  BY RunFields DEF ExtractChunk, At, NextChunk, RunOK, RunType, ContentKept,
                   Reads
<1>3. RunKnows'
  BY <1>2 DEF ExtractChunk, ContentKept, DerivedInv, RunKnows, Live
<1>4. DerivedIsCurrent'
  <2>1. old \in [Revisions \X Chunks -> 0 .. 2]
    BY DEF Retained, NoClaims, ClaimsOK
  <2>2. \A y \in Revisions \X Chunks : old[y] > 0 => y[1] = source.revision
    BY DEF Retained, NoClaims, ClaimsOK, DerivedInv, DerivedIsCurrent
  <2>3. claims' = [old EXCEPT ![x] = n] /\ source' = source
    BY DEF ExtractChunk
  <2>4. x[1] = source.revision
    BY <1>1
  <2>. HIDE DEF old, n, x
  <2>5. \A y \in DOMAIN claims' : claims'[y] > 0 => y[1] = source.revision
    BY <2>1, <2>2, <2>3, <2>4
  <2>. QED BY <1>1, <2>3, <2>5 DEF DerivedIsCurrent, Live
<1>. QED BY <1>3, <1>4 DEF DerivedInv

\* A run writes claims under the version it read its content with, or not at
\* all.
LEMMA RunDerives ==
    ASSUME TypeInv, DerivedInv, NEW w \in Workers, NEW i \in Receipts,
           RunStep(w, i)
    PROVE  DerivedInv'
<1> USE NotReading
<1>c. Catch(w) \notin Reads
  BY DEF Catch
<1>n. i \in Nat
  BY LenProperties DEF Receipts
<1>1. CASE Mark(w, i)
  <2>. UNCHANGED claims
    BY <1>1 DEF Mark, Rest
  <2>1. CASE Only(w, "thrown")
    BY <2>1, OnlyDerives
  <2>2. CASE WithReceipt(w, i, FALSE)
    BY <2>2, NotProceedingDerives
  <2>3. CASE SetStatus("processing", {Ran(w), Kept(i)}) /\ Go(w, "content")
    BY <2>3, StatusDerives
  <2>. QED BY <1>1, <2>1, <2>2, <2>3 DEF Mark, WithReceipt
<1>2. CASE ReadContent(w, i)
  <2>. UNCHANGED <<claims, source, fresh>>
    BY <1>2 DEF ReadContent, Rest
  <2>1. CASE Go(w, Catch(w)) \/ Go(w, "returned")
    BY <1>c, <2>1, GoDerives DEF SameContent
  <2>2. CASE Live /\ run' = [run EXCEPT ![w].at = "convert",
                                        ![w].content = source.revision]
    <3>1. /\ run'[w].content = source.revision
          /\ \A v \in Workers : v # w => run'[v] = run[v]
      BY <2>2, RunFields DEF RunOK, RunType
    <3>2. RunKnows'
      BY <2>2, <3>1 DEF DerivedInv, RunKnows, Live
    <3>. QED BY <3>2 DEF DerivedInv, DerivedIsCurrent, Live
  <2>. QED BY <1>2, <2>1, <2>2 DEF ReadContent
<1>3. CASE Convert(w, i)
  <2>. UNCHANGED claims
    BY <1>3 DEF Convert, Rest
  <2>1. CASE Fence(w)
    <3>1. ContentKept
      BY <1>3, <2>1, GoKeeps DEF Convert, At, Reads
    <3>2. NoneTold
      BY <1>3, <2>1, DistinctHolders DEF Convert, Fence, NoneTold
    <3>. QED BY <1>3, <2>1, <3>1, <3>2, Harmless DEF Convert, SameContent
  <2>2. CASE Only(w, Catch(w))
    BY <1>c, <2>2, OnlyDerives
  <2>. QED BY <1>3, <2>1, <2>2 DEF Convert
<1>4. CASE NothingToConvert(w, i)
  <2>1. ContentKept
    BY <1>4, GoKeeps DEF NothingToConvert, At, Reads
  <2>. QED BY <1>4, <2>1, Harmless
           DEF NothingToConvert, SameContent, NoneTold, Rest
<1>5. CASE Unreadable(w, i) \/ Complete(w, i)
  BY <1>5, FinishDerives DEF Unreadable, Complete, Rest
<1>6. CASE ExtractionStarted(w, i)
  <2>. UNCHANGED claims
    BY <1>6 DEF ExtractionStarted, Rest
  <2>1. CASE Only(w, Catch(w))
    BY <1>c, <2>1, OnlyDerives
  <2>2. CASE WithReceipt(w, i, FALSE)
    BY <2>2, NotProceedingDerives
  <2>3. CASE Go(w, "extract") /\ UNCHANGED <<source, fresh>>
    <3>1. ContentKept
      BY <1>6, <2>3, GoKeeps DEF ExtractionStarted, At, Reads
    <3>. QED BY <2>3, <3>1, Harmless DEF SameContent, NoneTold
  <2>. QED BY <1>6, <2>1, <2>2, <2>3 DEF ExtractionStarted, WithReceipt
<1>7. CASE ExtractChunk(w, i)
  BY <1>7, ExtractDerives
<1>8. CASE ChunkFails(w, i)
  <2>1. ContentKept
    BY <1>8, RunFields DEF ChunkFails, At, NextChunk, RunOK, RunType,
                           ContentKept, Reads
  <2>. QED BY <1>8, <2>1, Harmless DEF ChunkFails, SameContent, NoneTold, Rest
<1>9. CASE RunThrows(w, i)
  BY <1>9, <1>c, OnlyDerives DEF RunThrows, Rest
<1>10. CASE RecordFailure(w, i)
  <2>. UNCHANGED claims /\ Go(w, "thrown")
    BY <1>10 DEF RecordFailure, Rest
  <2>1. CASE UNCHANGED <<source, fresh>>
    BY <2>1, GoDerives DEF SameContent
  <2>2. CASE SetStatus("failed", {Kept(i)})
    BY <2>2, StatusDerives
  <2>. QED BY <1>10, <2>1, <2>2 DEF RecordFailure
<1>11. CASE JobReturns(w, i) \/ JobThrows(w, i)
  <2>1. UNCHANGED <<source, claims, fresh>> /\ run' = [run EXCEPT ![w] = Idle]
    BY <1>11 DEF JobReturns, JobThrows, Report
  <2>2. ContentKept
    BY <2>1, IdleKeeps
  <2>. QED BY <2>1, <2>2, Harmless DEF SameContent, NoneTold
<1>12. CASE NothingToExtract(w, i)
  <2>1. ContentKept
    BY <1>12, GoKeeps DEF NothingToExtract, At, Only, Reads
  <2>. QED BY <1>12, <2>1, Harmless
           DEF NothingToExtract, Only, SameContent, NoneTold, Rest
<1>. QED BY <1>1, <1>2, <1>3, <1>4, <1>5, <1>6, <1>7, <1>8, <1>9, <1>10,
            <1>11, <1>12 DEF RunStep

\* The queue moves no content.
LEMMA QueueDerives ==
    ASSUME TypeInv, DerivedInv,
           \/ \E w \in Workers : (\E i \in Receipts : PickUp(w, i)) \/ Die(w)
           \/ \E i \in Receipts : Stall(i) \/ DelayEnds(i)
    PROVE  DerivedInv'
<1>1. ASSUME ContentKept, UNCHANGED <<source, claims, fresh>>
      PROVE  DerivedInv'
  BY <1>1, Harmless DEF SameContent, NoneTold
<1>2. ASSUME NEW w \in Workers, NEW i \in Receipts, PickUp(w, i)
      PROVE  DerivedInv'
  <2>. DEFINE e == [Idle EXCEPT !.at = "mark", !.op = i, !.locked = TRUE,
                                !.final = jobs[i].tries + 1 >= MaxAttempts]
  <2>1. e.at \notin Reads /\ run' = [run EXCEPT ![w] = e]
    BY <1>2 DEF PickUp, Idle, Reads
  <2>. HIDE DEF e
  <2>2. ContentKept
    BY <2>1, StartKeeps
  <2>. QED BY <1>1, <1>2, <2>2 DEF PickUp
<1>3. ASSUME NEW w \in Workers, Die(w) PROVE DerivedInv'
  <2>1. ContentKept
    BY <1>3, IdleKeeps DEF Die
  <2>. QED BY <1>1, <1>3, <2>1 DEF Die, Rest
<1>4. ASSUME NEW i \in Receipts, Stall(i) PROVE DerivedInv'
  <2>1. \A w \in Workers : /\ run'[w].at = run[w].at
                            /\ run'[w].content = run[w].content
    BY <1>4, RunFields DEF Stall, RunType
  <2>2. ContentKept
    BY <2>1 DEF ContentKept
  <2>. QED BY <1>1, <1>4, <2>2 DEF Stall
<1>5. ASSUME NEW i \in Receipts, DelayEnds(i) PROVE DerivedInv'
  BY <1>1, <1>5, RunUnchanged DEF DelayEnds
<1>. QED BY <1>2, <1>3, <1>4, <1>5

\* A retry moves no content, and tells no run the version.
LEMMA RetryDerives ==
    ASSUME TypeInv, DerivedInv,
           (\E i \in Receipts : RetryRead(i)) \/ RetryStep \/ RetryFails
    PROVE  DerivedInv'
<1>1. ASSUME SameContent, UNCHANGED <<claims, run>>,
             fresh' \subseteq fresh \union {Retried} \union {Kept(retry.op)}
      PROVE  DerivedInv'
  BY <1>1, Harmless, RunUnchanged, DistinctHolders DEF NoneTold
<1>2. ASSUME NEW i \in Receipts, RetryRead(i) PROVE DerivedInv'
  BY <1>1, <1>2 DEF RetryRead, SameContent, Rest
<1>3. CASE RetryReopen
  <2>1. CASE UNCHANGED <<source, fresh>>
    BY <1>1, <1>3, <2>1 DEF RetryReopen, SameContent, Rest
  <2>2. CASE SetStatus("pending", {Kept(retry.op)})
    BY <1>1, <1>3, <2>2, SetStatusKeeps DEF RetryReopen, Rest
  <2>. QED BY <1>3, <2>1, <2>2 DEF RetryReopen
<1>4. CASE RetryInspect \/ RetryRestore \/ RetryValidate \/ RetryRequeue
           \/ RetryFails
  BY <1>1, <1>4
     DEF RetryInspect, RetryRestore, RetryValidate, RetryRequeue, RetryFails,
         SameContent, Rest
<1>. QED BY <1>2, <1>3, <1>4 DEF RetryStep

\* A removed source loses its claims with its content.
LEMMA LifecycleDerives ==
    ASSUME TypeInv, DerivedInv, Tombstone \/ Purge
    PROVE  DerivedInv'
<1>1. CASE Tombstone
  BY <1>1 DEF Tombstone, NoClaims, DerivedInv, DerivedIsCurrent, RunKnows
<1>2. CASE Purge
  BY <1>2 DEF Purge, SourceType, DerivedInv, DerivedIsCurrent, RunKnows, Live
<1>. QED BY <1>1, <1>2

\* What the graph holds and what runs know, in every reachable state.
LEMMA DerivedInvariant == Spec => []DerivedInv
<1>1. Init => DerivedInv
  BY DEF Init, NoClaims, DerivedInv, DerivedIsCurrent, RunKnows
<1>2. TypeInv /\ DerivedInv /\ [Next]_vars => DerivedInv'
  <2>1. TypeInv /\ DerivedInv /\ UNCHANGED vars => DerivedInv'
    BY DEF vars, DerivedInv, DerivedIsCurrent, RunKnows, Live
  <2>. QED BY <2>1, RequestDerives, RunDerives, QueueDerives, RetryDerives,
              LifecycleDerives DEF Next
<1>. QED BY <1>1, <1>2, TypeInvariant, PTL DEF Spec

\* Whatever the graph holds of the source was extracted from the content the
\* source has now, and nothing is left of a removed source: a run that outlives
\* a revision, a retry or a removal writes nothing any more
\* (withSourceWriteFence in every graph write).
THEOREM GraphIsCurrent == Spec => []DerivedIsCurrent
<1>1. DerivedInv => DerivedIsCurrent
  BY DEF DerivedInv
<1>. QED BY <1>1, DerivedInvariant, PTL

-----------------------------------------------------------------------------
(* What a step makes of the runs.                                          *)

Starts == {"mark", "content", "convert", "start"}
Proceeds == {"content", "convert", "start", "extract", "finish"}
Writes == {"extract", "finish"}

Busy(w) == run[w].at \notin {"idle", "returned", "thrown"}

\* A run has written nothing before it extracts, and when it finishes something,
\* or its content had nothing to extract.
WroteAt ==
    \A w \in Workers :
        /\ run[w].at \in Starts => ~run[w].wrote
        /\ run[w].at = "finish" => run[w].wrote \/ run[w].content \in Empty

\* A run past its mark was so before, for the same receipt; what it wrote it had
\* written before; and it is no further back in the same content.
WorkKept ==
    \A w \in Workers :
        /\ run'[w].at \in Proceeds =>
             run[w].at \in Proceeds /\ run'[w].op = run[w].op
        /\ run'[w].at \in Writes /\ run'[w].wrote =>
             run[w].at \in Writes /\ run[w].wrote
        /\ run'[w].at = "extract" /\ run'[w].wrote =>
             /\ run[w].at = "extract"
             /\ run'[w].content = run[w].content
             /\ run[w].chunk <= run'[w].chunk

\* No run starts to work.
BusyKept ==
    \A w \in Workers : run'[w].at \notin {"idle", "returned", "thrown"} =>
        Busy(w) /\ run'[w].op = run[w].op

\* A step of others.
LEMMA SameRuns ==
    ASSUME TypeInv, UNCHANGED run
    PROVE  WorkKept /\ BusyKept /\ (WroteAt => WroteAt')
<1>1. \A w \in Workers : run[w].chunk <= run[w].chunk
  BY RunFields DEF RunType, Chunks
<1>. QED BY <1>1 DEF WorkKept, BusyKept, Busy, WroteAt

\* A run that goes on without writing.
LEMMA GoWork ==
    ASSUME TypeInv, WroteAt, NEW w \in Workers, NEW l, Go(w, l),
           l # "finish", l \in Starts => run[w].at \in Starts \ {"mark"},
           l = "extract" => run[w].at = "start",
           l \in {"idle", "returned", "thrown"} \/ Busy(w)
    PROVE  WroteAt' /\ WorkKept /\ BusyKept
<1>1. /\ run'[w] = [run[w] EXCEPT !.at = l]
      /\ \A v \in Workers : v # w => run'[v] = run[v]
  BY DEF Go, RunOK
<1>2. /\ run'[w].at = l /\ run'[w].op = run[w].op
      /\ run'[w].wrote = run[w].wrote /\ run'[w].content = run[w].content
      /\ run'[w].chunk = run[w].chunk
  BY <1>1, RunFields DEF RunType
<1>3. \A v \in Workers : run[v].chunk <= run[v].chunk
  BY RunFields DEF RunType, Chunks
<1>. QED BY <1>1, <1>2, <1>3
         DEF WroteAt, WorkKept, BusyKept, Busy, Starts, Proceeds, Writes

\* A worker forgets what it did.
LEMMA IdleWork ==
    ASSUME TypeInv, WroteAt, NEW w \in Workers,
           run' = [run EXCEPT ![w] = Idle]
    PROVE  WroteAt' /\ WorkKept /\ BusyKept
<1>1. /\ run'[w] = Idle /\ Idle.at = "idle"
      /\ \A v \in Workers : v # w => run'[v] = run[v]
  BY DEF RunOK, Idle
<1>2. \A v \in Workers : run[v].chunk <= run[v].chunk
  BY RunFields DEF RunType, Chunks
<1>. QED BY <1>1, <1>2
         DEF WroteAt, WorkKept, BusyKept, Busy, Starts, Proceeds, Writes

\* One run goes to its next chunk.
LEMMA NextChunkWork ==
    ASSUME TypeInv, NEW w \in Workers, NEW wrote \in BOOLEAN,
           NextChunk(w, wrote)
    PROVE  /\ \A v \in Workers : v # w => run'[v] = run[v]
           /\ run'[w].op = run[w].op /\ run'[w].content = run[w].content
           /\ run'[w].wrote = wrote
           /\ run'[w].at = IF run[w].chunk < LastChunk THEN "extract"
                           ELSE IF wrote THEN "finish" ELSE Catch(w)
           /\ run'[w].chunk = IF run[w].chunk < LastChunk
                              THEN run[w].chunk + 1 ELSE run[w].chunk
<1>1. /\ \A v \in Workers : v # w => run'[v] = run[v]
      /\ run'[w] = [run[w] EXCEPT !.wrote = wrote,
                      !.chunk = IF @ < LastChunk THEN @ + 1 ELSE @,
                      !.at = IF run[w].chunk < LastChunk THEN "extract"
                             ELSE IF wrote THEN "finish" ELSE Catch(w)]
  BY RunFields DEF NextChunk, RunOK, RunType
<1>. QED BY <1>1, RunFields DEF RunType

\* A run's step, but for the two that say how far it got: its mark and a write.
LEMMA RunWork ==
    ASSUME TypeInv, WroteAt, NEW w \in Workers, NEW i \in Receipts,
           RunStep(w, i), ~ExtractChunk(w, i),
           run[w].at = "mark" => ~Go(w, "content")
    PROVE  WroteAt' /\ WorkKept /\ BusyKept
<1> USE DEF At, Busy, Starts
<1>c. Catch(w) \in {"caught", "thrown"}
  BY DEF Catch
<1>1. CASE Mark(w, i)
  <2>1. Go(w, "thrown") \/ Go(w, "returned")
    BY <1>1 DEF Mark, WithReceipt, Only
  <2>. QED BY <1>1, <2>1, GoWork DEF Mark
<1>2. CASE ReadContent(w, i)
  <2>1. CASE run' = [run EXCEPT ![w].at = "convert",
                                ![w].content = source.revision]
    <3>1. /\ run'[w] = [run[w] EXCEPT !.at = "convert",
                                      !.content = source.revision]
          /\ \A v \in Workers : v # w => run'[v] = run[v]
      BY <2>1, RunFields DEF RunOK, RunType
    <3>2. /\ run'[w].at = "convert" /\ run'[w].op = run[w].op
          /\ run'[w].wrote = run[w].wrote
      BY <3>1, RunFields DEF RunType
    <3>3. \A v \in Workers : run[v].chunk <= run[v].chunk
      BY RunFields DEF RunType, Chunks
    <3>4. run[w].at = "content"
      BY <1>2 DEF ReadContent
    <3>. QED BY <3>1, <3>2, <3>3, <3>4
             DEF WroteAt, WorkKept, BusyKept, Proceeds, Writes
  <2>2. CASE Go(w, Catch(w)) \/ Go(w, "returned")
    BY <1>2, <1>c, <2>2, GoWork DEF ReadContent
  <2>. QED BY <1>2, <2>1, <2>2 DEF ReadContent
<1>3. CASE Convert(w, i) \/ NothingToConvert(w, i)
  <2>1. /\ run[w].at = "convert"
        /\ Go(w, "start") \/ Go(w, Catch(w))
    BY <1>3 DEF Convert, NothingToConvert, Only
  <2>. QED BY <1>c, <2>1, GoWork
<1>4. CASE Unreadable(w, i) \/ Complete(w, i)
  <2>1. /\ run[w].at \in {"convert", "finish"}
        /\ Go(w, "returned") \/ Go(w, Catch(w))
    BY <1>4 DEF Unreadable, Complete, Finish, WithReceipt, Only
  <2>. QED BY <1>c, <2>1, GoWork
<1>5. CASE ExtractionStarted(w, i)
  <2>1. /\ run[w].at = "start"
        /\ Go(w, "returned") \/ Go(w, Catch(w)) \/ Go(w, "extract")
    BY <1>5 DEF ExtractionStarted, WithReceipt, Only
  <2>. QED BY <1>c, <2>1, GoWork
<1>6. CASE ChunkFails(w, i)
  <2>1. run[w].at = "extract" /\ NextChunk(w, run[w].wrote)
    BY <1>6 DEF ChunkFails
  <2>2. run[w].wrote \in BOOLEAN /\ run[w].chunk \in Nat
    BY RunFields DEF RunType, Chunks
  <2>3. \A v \in Workers : run[v].chunk <= run[v].chunk
    BY RunFields DEF RunType, Chunks
  <2>4. run[w].chunk <= run'[w].chunk
    BY <2>1, <2>2, NextChunkWork
  <2>. QED BY <1>c, <2>1, <2>2, <2>3, <2>4, NextChunkWork
           DEF WroteAt, WorkKept, BusyKept, Proceeds, Writes
<1>7. CASE RunThrows(w, i)
  <2>1. /\ run[w].at \notin {"idle", "thrown"}
        /\ Go(w, IF run[w].at \in {"mark", "caught", "returned"}
                 THEN "thrown" ELSE Catch(w))
    BY <1>7 DEF RunThrows, Only
  <2>2. CASE Go(w, "thrown")
    BY <2>2, GoWork
  <2>3. CASE run[w].at # "returned" /\ Go(w, Catch(w))
    BY <1>c, <2>1, <2>3, GoWork
  <2>. QED BY <2>1, <2>2, <2>3
<1>8. CASE RecordFailure(w, i)
  BY <1>8, GoWork DEF RecordFailure
<1>9. CASE JobReturns(w, i) \/ JobThrows(w, i)
  BY <1>9, IdleWork DEF JobReturns, JobThrows, Report
<1>10. CASE NothingToExtract(w, i)
  <2>1. /\ run'[w] = [run[w] EXCEPT !.at = "finish"]
        /\ \A v \in Workers : v # w => run'[v] = run[v]
    BY <1>10 DEF NothingToExtract, Only, Go, RunOK
  <2>2. /\ run'[w].at = "finish" /\ run'[w].op = run[w].op
        /\ run'[w].wrote = run[w].wrote /\ run'[w].content = run[w].content
        /\ run[w].at = "extract" /\ run[w].content \in Empty
    BY <1>10, <2>1, RunFields DEF NothingToExtract, RunType
  <2>3. \A v \in Workers : run[v].chunk <= run[v].chunk
    BY RunFields DEF RunType, Chunks
  <2>. QED BY <2>1, <2>2, <2>3
           DEF WroteAt, WorkKept, BusyKept, Proceeds, Writes
<1>. QED BY <1>1, <1>2, <1>3, <1>4, <1>5, <1>6, <1>7, <1>8, <1>9, <1>10
         DEF RunStep

\* The write of a chunk, whether or not it counts.
LEMMA ExtractWork ==
    ASSUME TypeInv, NEW w \in Workers, NEW i, ExtractChunk(w, i)
    PROVE  /\ \A v \in Workers : v # w => run'[v] = run[v]
           /\ run'[w].op = run[w].op /\ run'[w].content = run[w].content
           /\ run'[w].at \in {"extract", "finish", "caught", "thrown"}
           /\ run'[w].at = "finish" => run'[w].wrote
           /\ run'[w].at = "extract" => run'[w].chunk = run[w].chunk + 1
<1>1. PICK counts \in {TRUE, run[w].wrote} : NextChunk(w, counts)
  BY DEF ExtractChunk
<1>2. counts \in BOOLEAN
  BY RunFields DEF RunType
<1>. QED BY <1>1, <1>2, NextChunkWork DEF Catch

\* A run's mark.
LEMMA MarkWork ==
    ASSUME TypeInv, WroteAt, NEW w \in Workers, run[w].at = "mark",
           Go(w, "content")
    PROVE  /\ WroteAt' /\ BusyKept
           /\ run'[w].at = "content" /\ run'[w].op = run[w].op
           /\ \A v \in Workers : v # w => run'[v] = run[v]
<1>1. /\ run'[w] = [run[w] EXCEPT !.at = "content"]
      /\ \A v \in Workers : v # w => run'[v] = run[v]
  BY DEF Go, RunOK
<1>2. /\ run'[w].at = "content" /\ run'[w].op = run[w].op
      /\ run'[w].wrote = run[w].wrote
  BY <1>1, RunFields DEF RunType
<1>. QED BY <1>1, <1>2 DEF WroteAt, BusyKept, Busy, Starts

\* What the queue does to the runs: one starts afresh, one ends, or one loses
\* its lock.
LEMMA PickUpWork ==
    ASSUME TypeInv, WroteAt, NEW w \in Workers, NEW i, PickUp(w, i)
    PROVE  /\ WroteAt' /\ WorkKept
           /\ run'[w].op = i
           /\ \A v \in Workers : v # w => run'[v] = run[v]
<1>. DEFINE e == [Idle EXCEPT !.at = "mark", !.op = i, !.locked = TRUE,
                              !.final = jobs[i].tries + 1 >= MaxAttempts]
<1>1. e.at = "mark" /\ e.op = i /\ e.wrote = FALSE
  BY DEF Idle
<1>2. run' = [run EXCEPT ![w] = e]
  BY DEF PickUp
<1>. HIDE DEF e
<1>3. run'[w] = e /\ \A v \in Workers : v # w => run'[v] = run[v]
  BY <1>2 DEF RunOK
<1>4. \A v \in Workers : run[v].chunk <= run[v].chunk
  BY RunFields DEF RunType, Chunks
<1>. QED BY <1>1, <1>3, <1>4 DEF WroteAt, WorkKept, Starts, Proceeds, Writes

\* A run whose lock expired goes on as it was.
LEMMA StallWork ==
    ASSUME TypeInv, WroteAt, NEW i, Stall(i)
    PROVE  WroteAt' /\ WorkKept /\ BusyKept
<1>1. \A v \in Workers :
        /\ run'[v].at = run[v].at /\ run'[v].op = run[v].op
        /\ run'[v].wrote = run[v].wrote /\ run'[v].content = run[v].content
        /\ run'[v].chunk = run[v].chunk
  BY RunFields DEF Stall, RunType
<1>2. \A v \in Workers : run[v].chunk <= run[v].chunk
  BY RunFields DEF RunType, Chunks
<1>. QED BY <1>1, <1>2
         DEF WroteAt, WorkKept, BusyKept, Busy, Starts, Proceeds, Writes

-----------------------------------------------------------------------------
(* The receipt of the current content speaks for the source.               *)

\* While a run holds the row's version the source is in processing, and a run
\* that holds it past its mark works for the newest receipt.
RunHolds ==
    \A w \in Workers : Ran(w) \in fresh =>
        /\ source.status = "processing"
        /\ run[w].at \in Proceeds => run[w].op = Len(receipts)

\* A receipt keeps its key only as the newest one, for the row's content.
OwnerIsLast ==
    /\ source.row = "none" => receipts = <<>>
    /\ \A i \in Receipts : receipts[i].owns =>
         /\ i = Len(receipts)
         /\ Live => receipts[i].revision = source.revision

OwnerSpeaks == Live => \A i \in Receipts : receipts[i].owns => Speaks(i)

SpeakInv == RunHolds /\ OwnerIsLast /\ OwnerSpeaks

\* A receipt's version is nobody else's.
LEMMA DistinctReceipts ==
    ASSUME NEW i
    PROVE  /\ \A q : Kept(i) # Asked(q)
           /\ \A w : Kept(i) # Ran(w)
           /\ \A j : Kept(i) = Kept(j) => i = j
           /\ Kept(i) # Retried
BY DEF Ran, Asked, Kept, Retried

\* No run is told the version, no receipt that needs it forgets it.
NoRunTold == \A w \in Workers : Ran(w) \in fresh' => Ran(w) \in fresh

OwnersKept ==
    Live => \A i \in Receipts :
        receipts[i].owns /\ receipts[i].status \in Open /\ Kept(i) \in fresh
          => Kept(i) \in fresh'

\* A step that writes neither the row nor a receipt.
LEMMA SpeakFrame ==
    ASSUME TypeInv, SpeakInv, UNCHANGED <<source, receipts>>, WorkKept,
           NoRunTold, OwnersKept
    PROVE  SpeakInv'
<1>1. Receipts' = Receipts
  BY DEF Receipts
<1>2. RunHolds'
  BY DEF SpeakInv, RunHolds, WorkKept, NoRunTold
<1>3. OwnerIsLast'
  BY <1>1 DEF SpeakInv, OwnerIsLast, Live
<1>4. OwnerSpeaks'
  BY <1>1 DEF SpeakInv, OwnerSpeaks, Speaks, OwnersKept, Live
<1>. QED BY <1>2, <1>3, <1>4 DEF SpeakInv

\* The newest receipt and the row's status change together: only those that get
\* the new version keep one.
LEMMA SpeakStatus ==
    ASSUME TypeInv, SpeakInv, Live, NEW i \in Receipts, i = Len(receipts),
           NEW t, NEW holders, SetStatus(t, holders), Kept(i) \in holders,
           SameReceipts,
           \A j \in Receipts : j # i => receipts'[j] = receipts[j],
           receipts'[i].owns = receipts[i].owns,
           receipts'[i].revision = receipts[i].revision,
           ~receipts'[i].superseded,
           t = (IF receipts'[i].status = "queued" THEN "pending"
                ELSE receipts'[i].status),
           \A w \in Workers : Ran(w) \in holders => t = "processing",
           \A w \in Workers : run'[w].at \in Proceeds =>
               \/ Ran(w) \in holders /\ run'[w].op = i
               \/ Ran(w) \notin holders /\ run[w].at \in Proceeds
                    /\ run'[w].op = run[w].op
    PROVE  SpeakInv'
<1>1. /\ source'.row = source.row /\ source'.revision = source.revision
      /\ source'.status = t
      /\ fresh' = holders \union IF source.status = t THEN fresh ELSE {}
  BY DEF SetStatus, SourceType
<1>2. Len(receipts') = Len(receipts) /\ Receipts' = Receipts
  BY DEF SameReceipts
<1>3. RunHolds'
  BY <1>1, <1>2 DEF SpeakInv, RunHolds
<1>4. OwnerIsLast'
  BY <1>1, <1>2 DEF SpeakInv, OwnerIsLast, Live
<1>5. OwnerSpeaks'
  <2>1. \A j \in Receipts : receipts'[j].owns => j = i
    BY <1>4, <1>2 DEF OwnerIsLast
  <2>2. Kept(i) \in fresh'
    BY <1>1
  <2>. QED BY <1>1, <1>2, <2>1, <2>2 DEF OwnerSpeaks, Speaks
<1>. QED BY <1>3, <1>4, <1>5 DEF SpeakInv

\* A receipt that is closed as overtaken is not the one of the row's content.
LEMMA SpeakOvertaken ==
    ASSUME TypeInv, SpeakInv, Live, NEW i \in Receipts, ~IsSettled(i),
           Overtaken(i), Write(i, "failed", TRUE), UNCHANGED <<source, fresh>>,
           WorkKept
    PROVE  SpeakInv'
<1>1. receipts[i].status \in Open
  BY ReceiptFields DEF IsSettled, Receipt
<1>2. ~receipts[i].owns
  BY <1>1 DEF SpeakInv, OwnerIsLast, OwnerSpeaks, Speaks, Overtaken, Newer
<1>3. /\ SameReceipts /\ ~receipts'[i].owns
      /\ \A j \in Receipts : j # i => receipts'[j] = receipts[j]
  BY <1>2, WriteReceipt DEF Closed
<1>4. Len(receipts') = Len(receipts) /\ Receipts' = Receipts
  BY <1>3 DEF SameReceipts
<1>5. RunHolds'
  BY <1>4 DEF SpeakInv, RunHolds, WorkKept
<1>6. OwnerIsLast'
  BY <1>3, <1>4 DEF SpeakInv, OwnerIsLast, Live
<1>7. OwnerSpeaks'
  BY <1>3, <1>4 DEF SpeakInv, OwnerSpeaks, Speaks, Live
<1>. QED BY <1>5, <1>6, <1>7 DEF SpeakInv

\* A run that is told nothing.
LEMMA OnlySpeaks ==
    ASSUME TypeInv, SpeakInv, NEW w, NEW l, Only(w, l), WorkKept
    PROVE  SpeakInv'
BY SpeakFrame DEF Only, NoRunTold, OwnersKept

\* A receipt transaction that does not proceed.
LEMMA NotProceedingSpeaks ==
    ASSUME TypeInv, SpeakInv, NEW w \in Workers, NEW i \in Receipts,
           WithReceipt(w, i, FALSE), WorkKept
    PROVE  SpeakInv'
<1>1. CASE Only(w, "returned")
  BY <1>1, OnlySpeaks
<1>2. CASE /\ ~IsSettled(i) /\ Overtaken(i) /\ Write(i, "failed", TRUE)
           /\ UNCHANGED <<source, fresh>>
  BY <1>2, SpeakOvertaken DEF WithReceipt
<1>. QED BY <1>1, <1>2 DEF WithReceipt

\* An outcome of the newest receipt.
LEMMA OutcomeSpeaks ==
    ASSUME TypeInv, SpeakInv, WorkKept, Live, NEW i \in Receipts, ~Overtaken(i),
           NEW status \in {"completed", "failed"},
           SetStatus(status, {Kept(i)}), Write(i, status, FALSE)
    PROVE  SpeakInv'
<1>1. i = Len(receipts)
  BY LenProperties DEF Overtaken, Newer, Receipts
<1>2. /\ SameReceipts
      /\ \A j \in Receipts : j # i => receipts'[j] = receipts[j]
      /\ receipts'[i].status = status
      /\ ~receipts'[i].superseded
      /\ receipts'[i].owns = receipts[i].owns
      /\ receipts'[i].revision = receipts[i].revision
  BY WriteReceipt DEF Closed
<1>3. \A w \in Workers : Ran(w) \notin {Kept(i)}
  BY DistinctReceipts
<1>4. \A w \in Workers : run'[w].at \in Proceeds =>
        run[w].at \in Proceeds /\ run'[w].op = run[w].op
  BY DEF WorkKept
<1>5. status = (IF receipts'[i].status = "queued" THEN "pending"
                ELSE receipts'[i].status)
  BY <1>2
<1>. QED BY <1>1, <1>2, <1>3, <1>4, <1>5, SpeakStatus

\* A finish of the current receipt changes the row's status with it.
LEMMA FinishSpeaks ==
    ASSUME TypeInv, SpeakInv, NEW w \in Workers, NEW i \in Receipts,
           NEW status \in {"completed", "failed"}, Finish(w, i, status),
           WorkKept
    PROVE  SpeakInv'
<1>1. CASE Only(w, Catch(w))
  BY <1>1, OnlySpeaks
<1>2. CASE WithReceipt(w, i, FALSE)
  BY <1>2, NotProceedingSpeaks
<1>3. CASE /\ Live /\ ~Overtaken(i)
           /\ SetStatus(status, {Kept(i)}) /\ Write(i, status, FALSE)
  BY <1>3, OutcomeSpeaks
<1>. QED BY <1>1, <1>2, <1>3 DEF Finish, WithReceipt

\* The mark hands the version to the run and its receipt.
LEMMA MarkSpeaks ==
    ASSUME TypeInv, SpeakInv, WroteAt, NEW w \in Workers, NEW i \in Receipts,
           At(w, i, "mark"), Live, ~Overtaken(i),
           SetStatus("processing", {Ran(w), Kept(i)}),
           Write(i, "processing", FALSE), Go(w, "content")
    PROVE  SpeakInv'
<1>1. i = Len(receipts)
  BY LenProperties DEF Overtaken, Newer, Receipts
<1>2. /\ SameReceipts
      /\ \A j \in Receipts : j # i => receipts'[j] = receipts[j]
      /\ receipts'[i].status = "processing"
      /\ ~receipts'[i].superseded
      /\ receipts'[i].owns = receipts[i].owns
      /\ receipts'[i].revision = receipts[i].revision
  BY WriteReceipt DEF Open
<1>3. /\ run'[w].op = i
      /\ \A v \in Workers : v # w => run'[v] = run[v]
  BY MarkWork DEF At
<1>4. \A v \in Workers : run'[v].at \in Proceeds =>
        \/ Ran(v) \in {Ran(w), Kept(i)} /\ run'[v].op = i
        \/ /\ Ran(v) \notin {Ran(w), Kept(i)}
           /\ run[v].at \in Proceeds /\ run'[v].op = run[v].op
  BY <1>3, DistinctHolders
<1>. QED BY <1>1, <1>2, <1>4, SpeakStatus

\* Converted content moves the version: the run and the receipt it works for,
\* which is in processing because the source is, both follow.
LEMMA ConvertSpeaks ==
    ASSUME TypeInv, SpeakInv, NEW w \in Workers, NEW i \in Receipts,
           Convert(w, i), Fence(w), WorkKept
    PROVE  SpeakInv'
<1>1. /\ Live /\ Ran(w) \in fresh /\ source.status = "processing"
      /\ i = Len(receipts)
  BY DEF Convert, Fence, At, SpeakInv, RunHolds, Proceeds
<1>2. UNCHANGED <<source, receipts>>
  BY DEF Convert
<1>3. fresh' \in {{Ran(w), Kept(i)}, {Ran(w)}}
      /\ (receipts[i].status = "processing" => Kept(i) \in fresh')
  BY DEF Convert
<1>4. NoRunTold
  BY <1>1, <1>3, DistinctHolders DEF NoRunTold
<1>5. OwnersKept
  <2>. SUFFICES ASSUME NEW j \in Receipts, receipts[j].owns,
                       receipts[j].status \in Open
                PROVE  Kept(j) \in fresh'
    BY DEF OwnersKept
  <2>1. j = i
    BY <1>1 DEF SpeakInv, OwnerIsLast
  <2>2. receipts[i].status = "processing"
    BY <1>1, <2>1 DEF SpeakInv, OwnerSpeaks, Speaks
  <2>. QED BY <1>3, <2>1, <2>2
<1>. QED BY <1>2, <1>4, <1>5, SpeakFrame

\* A run, stale or not, never takes the word from the current receipt.
LEMMA RunSpeaks ==
    ASSUME TypeInv, SpeakInv, WroteAt, NEW w \in Workers, NEW i \in Receipts,
           RunStep(w, i)
    PROVE  SpeakInv'
<1>1. CASE /\ At(w, i, "mark") /\ Live /\ ~Overtaken(i)
           /\ SetStatus("processing", {Ran(w), Kept(i)})
           /\ Write(i, "processing", FALSE) /\ Go(w, "content")
  BY <1>1, MarkSpeaks
<1>2. CASE ExtractChunk(w, i)
  <2>1. WorkKept \/ UNCHANGED <<source, receipts, fresh>>
    BY <1>2 DEF ExtractChunk
  <2>2. /\ run[w].at = "extract" /\ run'[w].op = run[w].op
        /\ \A v \in Workers : v # w => run'[v] = run[v]
    BY <1>2, ExtractWork DEF ExtractChunk, At
  <2>3. UNCHANGED <<source, receipts, fresh>>
    BY <1>2 DEF ExtractChunk
  <2>4. RunHolds'
    BY <2>2, <2>3 DEF SpeakInv, RunHolds, Proceeds
  <2>. QED BY <2>3, <2>4
           DEF SpeakInv, OwnerIsLast, OwnerSpeaks, Speaks, Receipts, Live
<1>3. CASE /\ ~ExtractChunk(w, i)
           /\ run[w].at = "mark" => ~Go(w, "content")
  <2>1. WorkKept
    BY <1>3, RunWork
  <2>2. CASE Mark(w, i)
    <3>1. Only(w, "thrown") \/ WithReceipt(w, i, FALSE)
      BY <1>3, <2>2 DEF Mark, WithReceipt, At
    <3>. QED BY <2>1, <3>1, OnlySpeaks, NotProceedingSpeaks
  <2>3. CASE Convert(w, i)
    BY <2>1, <2>3, ConvertSpeaks, OnlySpeaks DEF Convert
  <2>4. CASE Unreadable(w, i) \/ Complete(w, i)
    BY <2>1, <2>4, FinishSpeaks DEF Unreadable, Complete
  <2>5. CASE ExtractionStarted(w, i)
    <3>1. CASE UNCHANGED <<source, receipts, fresh>>
      BY <2>1, <3>1, SpeakFrame DEF NoRunTold, OwnersKept
    <3>. QED BY <2>1, <2>5, <3>1, NotProceedingSpeaks
             DEF ExtractionStarted, WithReceipt, Only
  <2>6. CASE RecordFailure(w, i)
    <3>1. CASE UNCHANGED <<source, receipts, fresh>>
      BY <2>1, <3>1, SpeakFrame DEF NoRunTold, OwnersKept
    <3>2. CASE /\ Live /\ ~IsSettled(i) /\ Overtaken(i)
               /\ Write(i, "failed", TRUE) /\ UNCHANGED <<source, fresh>>
      BY <2>1, <3>2, SpeakOvertaken
    <3>3. CASE /\ Live /\ ~Overtaken(i)
               /\ SetStatus("failed", {Kept(i)}) /\ Write(i, "failed", FALSE)
      BY <2>1, <3>3, OutcomeSpeaks
    <3>. QED BY <2>6, <3>1, <3>2, <3>3 DEF RecordFailure
  <2>7. CASE \/ ReadContent(w, i) \/ NothingToConvert(w, i)
             \/ NothingToExtract(w, i) \/ ChunkFails(w, i) \/ RunThrows(w, i)
             \/ JobReturns(w, i) \/ JobThrows(w, i)
    <3>1. UNCHANGED <<source, receipts, fresh>>
      BY <2>7 DEF ReadContent, NothingToConvert, NothingToExtract, ChunkFails,
                  RunThrows, JobReturns, JobThrows, Only, Report
    <3>. QED BY <2>1, <3>1, SpeakFrame DEF NoRunTold, OwnersKept
  <2>. QED BY <1>3, <2>2, <2>3, <2>4, <2>5, <2>6, <2>7 DEF RunStep
<1>4. CASE run[w].at = "mark" /\ Go(w, "content") /\ ~ExtractChunk(w, i)
  <2>1. run'[w].at = "content"
    BY <1>4, MarkWork
  <2>2. Mark(w, i)
    <3>1. RunThrows(w, i) => FALSE
      <4>1. RunThrows(w, i) => Go(w, "thrown")
        BY <1>4 DEF RunThrows, Only
      <4>. QED BY <2>1, <4>1, GoKeeps DEF Reads
    <3>. QED BY <1>4, <3>1
         DEF RunStep, ReadContent, Convert, NothingToConvert, Unreadable,
             ExtractionStarted, NothingToExtract, ChunkFails, Complete,
             RecordFailure, JobReturns, JobThrows, At
  <2>3. ~Go(w, "thrown") /\ ~Go(w, "returned")
    BY <2>1, GoKeeps DEF Reads
  <2>4. /\ At(w, i, "mark") /\ Live /\ ~Overtaken(i)
        /\ SetStatus("processing", {Ran(w), Kept(i)})
        /\ Write(i, "processing", FALSE)
    BY <2>2, <2>3 DEF Mark, WithReceipt, Only
  <2>. QED BY <1>1, <1>4, <2>4
<1>. QED BY <1>2, <1>3, <1>4

\* All receipts give up their keys.
LEMMA NoOwners ==
    ASSUME TypeInv, NEW f \in [Receipt -> Receipt],
           \A e \in Receipt : ~f[e].owns,
           receipts' = [i \in Receipts |-> f[receipts[i]]]
    PROVE  SameReceipts /\ \A i \in Receipts : ~receipts'[i].owns
<1>1. receipts' \in [Receipts -> Receipt]
  BY ReceiptFields
<1>. QED BY <1>1, AllWritten, ReceiptFields

\* A request gives a receipt its key only when no other has one, and takes it
\* away with the content.
LEMMA RequestSpeaks ==
    ASSUME TypeInv, SpeakInv, NEW q \in Requests,
           RequestStep(q) \/ RequestFails(q)
    PROVE  SpeakInv'
<1> USE DistinctHolders, DistinctReceipts
<1>0. ASSUME UNCHANGED <<source, receipts, run>>, NoRunTold, OwnersKept
      PROVE  SpeakInv'
  BY <1>0, SameRuns, SpeakFrame
<1>1. ASSUME NEW r \in Revisions, InsertIngestionSource(q, r)
      PROVE  SpeakInv'
  <2>1. receipts = <<>> /\ UNCHANGED receipts /\ fresh' = {}
        /\ source'.row = "live"
    BY <1>1 DEF InsertIngestionSource, SpeakInv, OwnerIsLast
  <2>2. Receipts' = {}
    BY <2>1 DEF Receipts
  <2>. QED BY <2>1, <2>2 DEF SpeakInv, RunHolds, OwnerIsLast, OwnerSpeaks
<1>2. CASE ReadCreated(q)
  BY <1>0, <1>2 DEF ReadCreated, NoRunTold, OwnersKept
<1>3. ASSUME NEW r \in Revisions, FindExisting(q, r) PROVE SpeakInv'
  BY <1>0, <1>3 DEF FindExisting, NoRunTold, OwnersKept
<1>4. ASSUME NEW changed \in BOOLEAN, UpdateIngestionMetadata(q, changed)
      PROVE  SpeakInv'
  <2>1. UNCHANGED <<source, receipts, run>>
        /\ fresh' \in {fresh, {Kept(i) : i \in Followers}}
    BY <1>4 DEF UpdateIngestionMetadata
  <2>2. NoRunTold
    BY <2>1 DEF NoRunTold, Followers
  <2>3. OwnersKept
    BY <2>1 DEF OwnersKept, Followers
  <2>. QED BY <1>0, <2>1, <2>2, <2>3
<1>5. CASE FindUpdated(q)
  BY <1>0, <1>5 DEF FindUpdated, NoRunTold, OwnersKept
<1>6. CASE ReplaceInlineContent(q)
  <2>1. CASE Live /\ Owners(request[q].revision) = {}
    <3>. DEFINE f == [e \in Receipt |-> [e EXCEPT !.owns = FALSE]]
    <3>1. /\ receipts' = [i \in Receipts |->
                            [receipts[i] EXCEPT !.owns = FALSE]]
          /\ UNCHANGED run
          /\ source'.row = source.row
          /\ \/ fresh' = {Asked(q)}
             \/ source.status = "pending" /\ fresh' = fresh \union {Asked(q)}
      BY <1>6, <2>1 DEF ReplaceInlineContent, SourceType
    <3>2. f \in [Receipt -> Receipt] /\ \A e \in Receipt : ~f[e].owns
      BY DEF Receipt
    <3>3. receipts' = [i \in Receipts |-> f[receipts[i]]]
      BY <3>1, ReceiptFields
    <3>. HIDE DEF f
    <3>4. SameReceipts /\ \A i \in Receipts : ~receipts'[i].owns
      BY <3>2, <3>3, NoOwners
    <3>5. RunHolds'
      BY <3>1 DEF SpeakInv, RunHolds
    <3>. QED BY <2>1, <3>1, <3>4, <3>5
             DEF SpeakInv, OwnerIsLast, OwnerSpeaks, SameReceipts, Live
  <2>2. CASE ~(Live /\ Owners(request[q].revision) = {})
    BY <1>0, <1>6, <2>2 DEF ReplaceInlineContent, NoRunTold, OwnersKept
  <2>. QED BY <2>1, <2>2
<1>7. CASE CreateSourceIngestionOperation(q)
  <2>. DEFINE n == Len(receipts) + 1
              e == [revision |-> request[q].revision, owns |-> TRUE,
                    status |-> "queued", superseded |-> FALSE]
  <2>1. CASE UNCHANGED <<source, receipts, fresh>>
    BY <1>0, <1>7, <2>1
       DEF CreateSourceIngestionOperation, NoRunTold, OwnersKept
  <2>2. CASE /\ Live /\ source.revision = request[q].revision
             /\ Owners(request[q].revision) = {}
             /\ SetStatus("pending", {Kept(n)})
             /\ receipts' = Append(receipts, e)
    <3>1. e.owns /\ e.revision = source.revision /\ e.status = "queued"
          /\ ~e.superseded
      BY <2>2
    <3>2. e \in Receipt
      <4>1. request[q].revision \in Revisions
        BY <1>7, RequestFields
           DEF CreateSourceIngestionOperation, RequestType
      <4>. QED BY <4>1 DEF Receipt, Open
    <3>. HIDE DEF e
    <3>3. /\ Len(receipts') = n /\ receipts'[n] = e
          /\ Receipts' = Receipts \union {n}
          /\ \A i \in Receipts : receipts'[i] = receipts[i] /\ i # n
      BY <2>2, <3>2, AppendProperties, LenProperties DEF Receipts
    <3>4. \A i \in Receipts : ~receipts[i].owns
      BY <2>2 DEF SpeakInv, OwnerIsLast, Owners
    <3>5. /\ source'.row = source.row /\ source'.revision = source.revision
          /\ source'.status = "pending" /\ Kept(n) \in fresh'
          /\ \A w \in Workers : Ran(w) \in fresh' =>
               source.status = "pending" /\ Ran(w) \in fresh
      BY <2>2 DEF SetStatus, SourceType
    <3>6. RunHolds'
      BY <3>5 DEF SpeakInv, RunHolds
    <3>7. OwnerIsLast'
      BY <2>2, <3>1, <3>3, <3>4, <3>5 DEF OwnerIsLast, Live
    <3>8. OwnerSpeaks'
      BY <3>1, <3>3, <3>4, <3>5 DEF OwnerSpeaks, Speaks
    <3>. QED BY <3>6, <3>7, <3>8 DEF SpeakInv
  <2>. QED BY <1>7, <2>1, <2>2 DEF CreateSourceIngestionOperation
<1>8. CASE AddJob(q) \/ RequestFails(q)
  BY <1>0, <1>8 DEF AddJob, RequestFails, NoRunTold, OwnersKept
<1>. QED BY <1>1, <1>2, <1>3, <1>4, <1>5, <1>6, <1>7, <1>8 DEF RequestStep

\* The queue writes neither rows nor receipts.
LEMMA QueueSpeaks ==
    ASSUME TypeInv, SpeakInv, WroteAt,
           \/ \E w \in Workers : (\E i \in Receipts : PickUp(w, i)) \/ Die(w)
           \/ \E i \in Receipts : Stall(i) \/ DelayEnds(i)
    PROVE  SpeakInv'
<1>1. WorkKept
  BY PickUpWork, IdleWork, StallWork, SameRuns DEF Die, DelayEnds
<1>2. UNCHANGED <<source, receipts, fresh>>
  BY DEF PickUp, Die, Stall, DelayEnds, Rest
<1>. QED BY <1>1, <1>2, SpeakFrame DEF NoRunTold, OwnersKept

\* A retry reopens the newest receipt only, and sends the source back with it.
LEMMA RetrySpeaks ==
    ASSUME TypeInv, SpeakInv,
           (\E i \in Receipts : RetryRead(i)) \/ RetryStep \/ RetryFails
    PROVE  SpeakInv'
<1> USE DistinctHolders, DistinctReceipts
<1>0. ASSUME UNCHANGED <<source, receipts, run>>, NoRunTold, OwnersKept
      PROVE  SpeakInv'
  BY <1>0, SameRuns, SpeakFrame
<1>1. ASSUME NEW i \in Receipts, RetryRead(i) PROVE SpeakInv'
  BY <1>0, <1>1 DEF RetryRead, NoRunTold, OwnersKept
<1>2. CASE RetryReopen
  <2>. DEFINE i == retry.op
              e == [receipts[i] EXCEPT !.status = "queued"]
  <2>1. CASE UNCHANGED <<source, receipts, fresh>>
    BY <1>0, <1>2, <2>1 DEF RetryReopen, NoRunTold, OwnersKept
  <2>2. CASE /\ Reopenable(i) /\ SetStatus("pending", {Kept(i)})
             /\ receipts' = [receipts EXCEPT ![i].status = "queued"]
    <3>1. i \in Receipts /\ UNCHANGED run
      BY <1>2 DEF RetryReopen, RetryOK, RetryType
    <3>2. e \in Receipt /\ receipts' = [receipts EXCEPT ![i] = e]
      BY <2>2, <3>1, ReceiptFields DEF Receipt, Open
    <3>3. /\ e.status = "queued" /\ e.superseded = receipts[i].superseded
          /\ e.owns = receipts[i].owns /\ e.revision = receipts[i].revision
      BY <3>1, ReceiptFields DEF Receipt
    <3>. HIDE DEF e
    <3>4. /\ SameReceipts /\ receipts'[i] = e
          /\ \A j \in Receipts : j # i => receipts'[j] = receipts[j]
      BY <3>1, <3>2, ReceiptWrite
    <3>5. Live /\ i = Len(receipts) /\ ~receipts[i].superseded
      BY <2>2, <3>1, LenProperties DEF Reopenable, Newer, Receipts
    <3>6. \A w \in Workers : run'[w].at \in Proceeds =>
            \/ Ran(w) \in {Kept(i)} /\ run'[w].op = i
            \/ Ran(w) \notin {Kept(i)} /\ run[w].at \in Proceeds
                 /\ run'[w].op = run[w].op
      BY <3>1
    <3>7. \A w \in Workers : Ran(w) \notin {Kept(i)}
      OBVIOUS
    <3>. HIDE DEF i
    <3>. QED BY <2>2, <3>1, <3>3, <3>4, <3>5, <3>6, <3>7, SpeakStatus
  <2>. QED BY <1>2, <2>1, <2>2 DEF RetryReopen
<1>3. CASE RetryInspect \/ RetryRestore \/ RetryValidate \/ RetryRequeue
           \/ RetryFails
  BY <1>0, <1>3
     DEF RetryInspect, RetryRestore, RetryValidate, RetryRequeue, RetryFails,
         NoRunTold, OwnersKept
<1>. QED BY <1>1, <1>2, <1>3 DEF RetryStep

\* A removed source has no current receipt.
LEMMA LifecycleSpeaks ==
    ASSUME TypeInv, SpeakInv, Tombstone \/ Purge
    PROVE  SpeakInv'
<1>1. CASE Tombstone
  <2>1. UNCHANGED <<receipts, run>> /\ fresh' = {} /\ source'.row = "deleted"
    BY <1>1 DEF Tombstone, SourceType
  <2>. QED BY <2>1 DEF SpeakInv, RunHolds, OwnerIsLast, OwnerSpeaks, Receipts,
                       Live
<1>2. CASE Purge
  <2>. DEFINE f == [e \in Receipt |->
                      [e EXCEPT !.status = "purged", !.owns = FALSE]]
  <2>1. /\ UNCHANGED <<run, fresh>> /\ source'.row = "gone"
        /\ source'.status = source.status
        /\ receipts' = [i \in Receipts |-> [receipts[i] EXCEPT
                          !.status = "purged", !.owns = FALSE]]
    BY <1>2 DEF Purge, SourceType
  <2>2. f \in [Receipt -> Receipt] /\ \A e \in Receipt : ~f[e].owns
    BY DEF Receipt, Closed
  <2>3. receipts' = [i \in Receipts |-> f[receipts[i]]]
    BY <2>1, ReceiptFields
  <2>. HIDE DEF f
  <2>4. SameReceipts /\ \A i \in Receipts : ~receipts'[i].owns
    BY <2>2, <2>3, NoOwners
  <2>. QED BY <2>1, <2>4 DEF SpeakInv, RunHolds, OwnerIsLast, OwnerSpeaks,
                             SameReceipts, Live
<1>. QED BY <1>1, <1>2

\* How far runs got follows from their own steps.
LEMMA NextWork ==
    ASSUME TypeInv, WroteAt, [Next]_vars
    PROVE  WroteAt'
<1>1. CASE UNCHANGED run
  BY <1>1, SameRuns
<1>2. ASSUME NEW w \in Workers, NEW i \in Receipts, RunStep(w, i)
      PROVE  WroteAt'
  <2>1. CASE ExtractChunk(w, i)
    <3>1. /\ run'[w].at = "finish" => run'[w].wrote
          /\ run'[w].at \notin Starts
          /\ \A v \in Workers : v # w => run'[v] = run[v]
      BY <2>1, ExtractWork DEF Starts
    <3>. QED BY <3>1 DEF WroteAt
  <2>2. CASE run[w].at = "mark" /\ Go(w, "content")
    BY <2>2, MarkWork
  <2>. QED BY <1>2, <2>1, <2>2, RunWork
<1>3. ASSUME NEW w \in Workers,
             (\E i \in Receipts : PickUp(w, i)) \/ Die(w)
      PROVE  WroteAt'
  BY <1>3, PickUpWork, IdleWork DEF Die
<1>4. ASSUME NEW i \in Receipts, Stall(i) PROVE WroteAt'
  BY <1>4, StallWork
<1>. QED
  BY <1>1, <1>2, <1>3, <1>4
     DEF Next, vars, RequestStep, RequestFails, RetryStep, RetryFails,
         InsertIngestionSource, FindExisting, UpdateIngestionMetadata,
         ReadCreated, FindUpdated, ReplaceInlineContent,
         CreateSourceIngestionOperation, AddJob, RetryRead, RetryInspect,
         RetryRestore, RetryValidate, RetryReopen, RetryRequeue, DelayEnds,
         Tombstone, Purge

\* The strengthening and the runs' progress, in every reachable state.
LEMMA SpeakInvariant == Spec => [](SpeakInv /\ WroteAt)
<1>1. Init => SpeakInv /\ WroteAt
  BY DEF Init, Idle, SpeakInv, RunHolds, OwnerIsLast, OwnerSpeaks, WroteAt,
         Receipts, Starts, Live
<1>2. TypeInv /\ SpeakInv /\ WroteAt /\ [Next]_vars => SpeakInv' /\ WroteAt'
  <2>1. SpeakInv /\ UNCHANGED vars => SpeakInv'
    BY DEF vars, SpeakInv, RunHolds, OwnerIsLast, OwnerSpeaks, Speaks,
           Receipts, Live
  <2>. QED BY <2>1, NextWork, RequestSpeaks, RunSpeaks, QueueSpeaks,
              RetrySpeaks, LifecycleSpeaks DEF Next
<1>. QED BY <1>1, <1>2, TypeInvariant, PTL DEF Spec

\* The receipt that owns the live source's content speaks for it, also when a
\* stalled job runs twice at once: no step supersedes it, takes the version from
\* it while it is open, or leaves the row's status at another's outcome.
THEOREM CurrentReceiptsSpeak == Spec => []CurrentReceiptSpeaks
<1>1. SpeakInv => CurrentReceiptSpeaks
  BY DEF SpeakInv, OwnerSpeaks, CurrentReceiptSpeaks, Owners
<1>. QED BY <1>1, SpeakInvariant, PTL

-----------------------------------------------------------------------------
(* What was written, and how often.                                        *)

\* A step tells the version to no run but one at its mark or its conversion.
RunsTold ==
    \A w \in Workers : Ran(w) \in fresh' =>
        Ran(w) \in fresh \/ run'[w].at \in {"content", "start"}

\* A status write that hands the version to no run.
LEMMA StatusTells ==
    ASSUME TypeInv, NEW s, NEW holders, SetStatus(s, holders),
           \A w \in Workers : Ran(w) \notin holders
    PROVE  RunsTold
BY SetStatusKeeps DEF RunsTold

\* A run is told the version at its mark and at its conversion only.
LEMMA RunTells ==
    ASSUME TypeInv, NEW w \in Workers, NEW i \in Receipts, RunStep(w, i)
    PROVE  RunsTold
<1> USE DistinctHolders, DistinctReceipts
<1>1. CASE UNCHANGED fresh
  BY <1>1 DEF RunsTold
<1>s. ASSUME NEW s, SetStatus(s, {Kept(i)}) PROVE RunsTold
  <2>1. \A v \in Workers : Ran(v) \notin {Kept(i)}
    OBVIOUS
  <2>. QED BY <1>s, <2>1, StatusTells
<1>2. CASE Mark(w, i)
  <2>1. CASE SetStatus("processing", {Ran(w), Kept(i)}) /\ Go(w, "content")
    <3>1. run'[w].at = "content"
      <4>1. run[w].at = "mark"
        BY <1>2 DEF Mark, At
      <4>. QED BY <2>1, GoKeeps DEF Reads
    <3>2. fresh' \subseteq fresh \union {Ran(w), Kept(i)}
      BY <2>1, SetStatusKeeps
    <3>. QED BY <3>1, <3>2 DEF RunsTold
  <2>. QED BY <1>1, <1>2, <2>1 DEF Mark, WithReceipt, Only
<1>3. CASE Convert(w, i)
  BY <1>1, <1>3 DEF Convert, Fence, Only, RunsTold
<1>4. CASE Unreadable(w, i) \/ Complete(w, i)
  BY <1>1, <1>s, <1>4 DEF Unreadable, Complete, Finish, WithReceipt, Only
<1>5. CASE RecordFailure(w, i)
  BY <1>1, <1>s, <1>5 DEF RecordFailure
<1>6. CASE \/ ReadContent(w, i) \/ NothingToConvert(w, i)
           \/ ExtractionStarted(w, i) \/ NothingToExtract(w, i)
           \/ ExtractChunk(w, i) \/ ChunkFails(w, i)
           \/ RunThrows(w, i) \/ JobReturns(w, i) \/ JobThrows(w, i)
  BY <1>1, <1>6
     DEF ReadContent, NothingToConvert, ExtractionStarted, WithReceipt,
         NothingToExtract, ExtractChunk, ChunkFails, RunThrows, JobReturns,
         JobThrows, Only, Report
<1>. QED BY <1>2, <1>3, <1>4, <1>5, <1>6 DEF RunStep

\* A write that still counts was there before: the run had written, holds the
\* version since, and is no further back in the same content.
WritersKept ==
    \A w \in Workers :
        run'[w].at \in Writes /\ run'[w].wrote /\ Ran(w) \in fresh' =>
            /\ run[w].at \in Writes /\ run[w].wrote /\ Ran(w) \in fresh
            /\ run'[w].at = "extract" =>
                 /\ run[w].at = "extract"
                 /\ run'[w].content = run[w].content
                 /\ run[w].chunk <= run'[w].chunk

\* With what runs keep, that bounds the writes that still count.
LEMMA ToldWriters ==
    ASSUME WorkKept, RunsTold
    PROVE  WritersKept
BY DEF WorkKept, RunsTold, WritersKept, Writes

\* A step of a run that writes no chunk lets no further write count.
LEMMA RunWriters ==
    ASSUME TypeInv, WroteAt, NEW w \in Workers, NEW i \in Receipts,
           RunStep(w, i), ~ExtractChunk(w, i)
    PROVE  WritersKept /\ BusyKept
<1>1. CASE run[w].at = "mark" => ~Go(w, "content")
  BY <1>1, RunWork, RunTells, ToldWriters
<1>2. CASE run[w].at = "mark" /\ Go(w, "content")
  <2>1. /\ BusyKept /\ run'[w].at = "content"
        /\ \A v \in Workers : v # w => run'[v] = run[v]
    BY <1>2, MarkWork
  <2>2. \A v \in Workers : run[v].chunk <= run[v].chunk
    BY RunFields DEF RunType, Chunks
  <2>. QED BY <2>1, <2>2, RunTells DEF RunsTold, WritersKept, Writes
<1>. QED BY <1>1, <1>2

-----------------------------------------------------------------------------
(* A completed receipt has its claims, if its content has a chunk.         *)

Extracted == \E c \in Chunks : claims[<<source.revision, c>>] > 0

\* A run that has written and still holds the version finds its content in the
\* graph: whoever replaced the claims since has written from it too.
WroteHas ==
    \A w \in Workers :
        run[w].at \in Writes /\ run[w].wrote /\ Ran(w) \in fresh => Extracted

CompletedHas ==
    Live /\ source.revision \notin Empty => \A i \in Receipts :
        receipts[i].owns /\ receipts[i].status = "completed" => Extracted

\* A live source has content.
HasContent == Live => source.revision \in Revisions

ExtractInv == WroteHas /\ CompletedHas /\ HasContent

\* No receipt of the row's content is completed by the step.
CompletedKept ==
    \A i \in Receipts' :
        receipts'[i].owns /\ receipts'[i].status = "completed" =>
            /\ i \in Receipts /\ receipts[i].owns
            /\ receipts[i].status = "completed"

\* A step that leaves the content and its claims, and completes nothing.
LEMMA ExtractFrame ==
    ASSUME ExtractInv, UNCHANGED claims, SameContent, WritersKept, CompletedKept
    PROVE  ExtractInv'
<1>1. Extracted' <=> Extracted
  BY DEF Extracted, SameContent
<1>2. WroteHas'
  BY <1>1 DEF ExtractInv, WroteHas, WritersKept
<1>3. CompletedHas'
  BY <1>1 DEF ExtractInv, CompletedHas, CompletedKept, SameContent, Live
<1>4. HasContent'
  BY DEF ExtractInv, HasContent, SameContent, Live
<1>. QED BY <1>2, <1>3, <1>4 DEF ExtractInv

\* Receipts that are not written are not completed.
LEMMA SameCompleted == UNCHANGED receipts => CompletedKept
BY DEF CompletedKept, Receipts

\* A receipt that is written with another status.
LEMMA WriteCompleted ==
    ASSUME TypeInv, NEW i \in Receipts,
           NEW status \in (Open \union Closed) \ {"completed"},
           NEW superseded \in BOOLEAN, Write(i, status, superseded)
    PROVE  CompletedKept
<1>1. /\ SameReceipts /\ receipts'[i].status = status
      /\ \A j \in Receipts : j # i => receipts'[j] = receipts[j]
  BY WriteReceipt
<1>. QED BY <1>1 DEF CompletedKept, SameReceipts

\* A run completes its receipt only after a write that still counts, or for
\* content without a chunk; a write replaces claims by claims of the same content.
LEMMA RunExtracts ==
    ASSUME TypeInv, DerivedInv, WroteAt, ExtractInv,
           NEW w \in Workers, NEW i \in Receipts, RunStep(w, i)
    PROVE  ExtractInv'
<1>w. "processing" \in (Open \union Closed) \ {"completed"}
      /\ "failed" \in (Open \union Closed) \ {"completed"}
  BY DEF Open, Closed
<1>s. ASSUME NEW s, NEW holders, SetStatus(s, holders)
      PROVE  SameContent
  BY <1>s, SetStatusKeeps
<1>1. CASE ExtractChunk(w, i)
  <2>. DEFINE x == <<run[w].content, run[w].chunk>>
              old == Retained(w)
              n == IF old[x] < 2 THEN old[x] + 1 ELSE old[x]
  <2>1. Live /\ run[w].content = source.revision
    BY <1>1 DEF ExtractChunk, At, Fence, Reads, DerivedInv, RunKnows
  <2>2. old \in [Revisions \X Chunks -> 0 .. 2] /\ run[w].chunk \in Chunks
    BY RunFields DEF Retained, NoClaims, ClaimsOK, RunType
  <2>3. claims' = [old EXCEPT ![x] = n] /\ UNCHANGED source
    BY <1>1 DEF ExtractChunk
  <2>4. x \in Revisions \X Chunks
    BY <2>1, <2>2 DEF ExtractInv, HasContent
  <2>5. n > 0
    <3>. HIDE DEF x, old
    <3>. QED BY <2>2, <2>4
  <2>6. claims'[x] > 0
    <3>. HIDE DEF x, old, n
    <3>. QED BY <2>2, <2>3, <2>4, <2>5
  <2>7. Extracted'
    BY <2>1, <2>2, <2>3, <2>6 DEF Extracted
  <2>. QED BY <2>3, <2>7
           DEF ExtractInv, WroteHas, CompletedHas, HasContent, Live
<1>2. CASE ~ExtractChunk(w, i)
  <2>1. WritersKept
    BY <1>2, RunWriters
  <2>2. UNCHANGED claims
    BY <1>2 DEF RunStep, Mark, ReadContent, Convert, NothingToConvert,
       Unreadable, ExtractionStarted, NothingToExtract, ChunkFails, Complete,
       RunThrows, RecordFailure, JobReturns, JobThrows, Report, Rest
  <2>3. CASE SameContent /\ CompletedKept
    BY <2>1, <2>2, <2>3, ExtractFrame
  <2>4. CASE UNCHANGED <<source, receipts>>
    BY <2>3, <2>4, SameCompleted DEF SameContent
  <2>5. CASE \E b \in BOOLEAN : Write(i, "failed", b) /\
                 (UNCHANGED source \/ SetStatus("failed", {Kept(i)}))
    BY <1>w, <1>s, <2>3, <2>5, WriteCompleted DEF SameContent
  <2>6. CASE Mark(w, i)
    <3>1. CASE /\ SetStatus("processing", {Ran(w), Kept(i)})
               /\ Write(i, "processing", FALSE)
      BY <1>w, <1>s, <2>3, <3>1, WriteCompleted
    <3>. QED BY <2>4, <2>5, <2>6, <3>1 DEF Mark, WithReceipt, Only
  <2>7. CASE Unreadable(w, i)
    BY <2>4, <2>5, <2>7 DEF Unreadable, Finish, WithReceipt, Only
  <2>8. CASE Complete(w, i)
    <3>1. CASE /\ SetStatus("completed", {Kept(i)})
               /\ Write(i, "completed", FALSE) /\ Ran(w) \in fresh
      <4>1. Extracted \/ source.revision \in Empty
        <5>1. run[w].content = source.revision
          BY <2>8, <3>1 DEF Complete, At, DerivedInv, RunKnows, Reads
        <5>. QED BY <2>8, <3>1, <5>1
                 DEF Complete, At, WroteAt, ExtractInv, WroteHas, Writes
      <4>2. (Extracted' <=> Extracted) /\ source'.revision = source.revision
        BY <1>s, <2>2, <3>1 DEF Extracted, SameContent
      <4>3. HasContent'
        BY <1>s, <3>1 DEF ExtractInv, HasContent, SameContent, Live
      <4>4. WroteHas'
        BY <2>1, <4>2 DEF ExtractInv, WroteHas, WritersKept
      <4>. QED BY <4>1, <4>2, <4>3, <4>4 DEF ExtractInv, CompletedHas
    <3>. QED BY <2>4, <2>5, <2>8, <3>1 DEF Complete, Finish, WithReceipt, Only
  <2>9. CASE ExtractionStarted(w, i)
    BY <2>4, <2>5, <2>9 DEF ExtractionStarted, WithReceipt, Only
  <2>10. CASE RecordFailure(w, i)
    BY <2>4, <2>5, <2>10 DEF RecordFailure
  <2>11. CASE \/ ReadContent(w, i) \/ Convert(w, i) \/ NothingToConvert(w, i)
              \/ NothingToExtract(w, i) \/ ChunkFails(w, i)
              \/ RunThrows(w, i) \/ JobReturns(w, i) \/ JobThrows(w, i)
    BY <2>4, <2>11
       DEF ReadContent, Convert, NothingToConvert, NothingToExtract,
           ChunkFails, RunThrows, JobReturns, JobThrows, Only, Report
  <2>. QED BY <1>2, <2>6, <2>7, <2>8, <2>9, <2>10, <2>11 DEF RunStep
<1>. QED BY <1>1, <1>2

\* No owner, no run that holds the version: nothing is claimed of the graph.
LEMMA NothingClaimed ==
    ASSUME \A i \in Receipts' : ~receipts'[i].owns,
           \A w \in Workers : Ran(w) \notin fresh', HasContent'
    PROVE  ExtractInv'
BY DEF ExtractInv, WroteHas, CompletedHas

\* A request that removes claims leaves neither owner nor run that counts on
\* them.
LEMMA RequestExtracts ==
    ASSUME TypeInv, SpeakInv, ExtractInv, NEW q \in Requests,
           RequestStep(q) \/ RequestFails(q)
    PROVE  ExtractInv'
<1> USE DistinctHolders, DistinctReceipts
<1>0. ASSUME UNCHANGED <<source, receipts, claims, run>>,
             \A w \in Workers : Ran(w) \in fresh' => Ran(w) \in fresh
      PROVE  ExtractInv'
  <2>1. WritersKept
    BY <1>0, SameRuns, ToldWriters DEF RunsTold
  <2>. QED BY <1>0, <2>1, SameCompleted, ExtractFrame DEF SameContent
<1>1. ASSUME NEW r \in Revisions, InsertIngestionSource(q, r)
      PROVE  ExtractInv'
  <2>1. receipts' = <<>> /\ fresh' = {} /\ source'.revision = r
    BY <1>1 DEF InsertIngestionSource, SpeakInv, OwnerIsLast
  <2>2. Receipts' = {} /\ HasContent'
    BY <2>1 DEF Receipts, HasContent
  <2>. QED BY <2>1, <2>2, NothingClaimed
<1>2. CASE ReadCreated(q)
  BY <1>0, <1>2 DEF ReadCreated, Rest
<1>3. ASSUME NEW r \in Revisions, FindExisting(q, r) PROVE ExtractInv'
  BY <1>0, <1>3 DEF FindExisting, Rest
<1>4. ASSUME NEW changed \in BOOLEAN, UpdateIngestionMetadata(q, changed)
      PROVE  ExtractInv'
  BY <1>0, <1>4 DEF UpdateIngestionMetadata, Followers, Rest
<1>5. CASE FindUpdated(q)
  BY <1>0, <1>5 DEF FindUpdated, Rest
<1>6. CASE ReplaceInlineContent(q)
  <2>1. CASE Live /\ Owners(request[q].revision) = {}
    <3>. DEFINE f == [e \in Receipt |-> [e EXCEPT !.owns = FALSE]]
    <3>1. /\ receipts' = [i \in Receipts |->
                            [receipts[i] EXCEPT !.owns = FALSE]]
          /\ source'.revision = request[q].revision
          /\ \/ fresh' = {Asked(q)}
             \/ source.status = "pending" /\ fresh' = fresh \union {Asked(q)}
      BY <1>6, <2>1 DEF ReplaceInlineContent, SourceType
    <3>2. f \in [Receipt -> Receipt] /\ \A e \in Receipt : ~f[e].owns
      BY DEF Receipt
    <3>3. receipts' = [i \in Receipts |-> f[receipts[i]]]
      BY <3>1, ReceiptFields
    <3>. HIDE DEF f
    <3>4. SameReceipts /\ \A i \in Receipts : ~receipts'[i].owns
      BY <3>2, <3>3, NoOwners
    <3>5. \A w \in Workers : Ran(w) \notin fresh'
      BY <3>1 DEF SpeakInv, RunHolds
    <3>6. HasContent'
      <4>1. request[q].revision \in Revisions
        BY <1>6, RequestFields DEF ReplaceInlineContent, RequestType
      <4>. QED BY <3>1, <4>1 DEF HasContent
    <3>. QED BY <3>4, <3>5, <3>6, NothingClaimed DEF SameReceipts
  <2>2. CASE ~(Live /\ Owners(request[q].revision) = {})
    BY <1>0, <1>6, <2>2 DEF ReplaceInlineContent
  <2>. QED BY <2>1, <2>2
<1>7. CASE CreateSourceIngestionOperation(q)
  <2>. DEFINE n == Len(receipts) + 1
              e == [revision |-> request[q].revision, owns |-> TRUE,
                    status |-> "queued", superseded |-> FALSE]
  <2>0. UNCHANGED <<claims, run>>
    BY <1>7 DEF CreateSourceIngestionOperation
  <2>1. CASE UNCHANGED <<source, receipts, fresh>>
    BY <1>0, <2>0, <2>1
  <2>2. CASE /\ SetStatus("pending", {Kept(n)})
             /\ receipts' = Append(receipts, e)
    <3>1. e \in Receipt /\ e.status = "queued"
      <4>1. request[q].revision \in Revisions
        BY <1>7, RequestFields
           DEF CreateSourceIngestionOperation, RequestType
      <4>. QED BY <4>1 DEF Receipt, Open
    <3>. HIDE DEF e
    <3>2. /\ receipts'[n] = e /\ Receipts' = Receipts \union {n}
          /\ \A i \in Receipts : receipts'[i] = receipts[i]
      BY <2>2, <3>1, AppendProperties, LenProperties DEF Receipts
    <3>3. CompletedKept
      BY <3>1, <3>2 DEF CompletedKept
    <3>4. SameContent /\ \A w \in Workers : Ran(w) \in fresh' => Ran(w) \in fresh
      BY <2>2, SetStatusKeeps
    <3>5. WritersKept
      BY <2>0, <3>4, SameRuns, ToldWriters DEF RunsTold
    <3>. QED BY <2>0, <3>3, <3>4, <3>5, ExtractFrame
  <2>. QED BY <1>7, <2>1, <2>2 DEF CreateSourceIngestionOperation
<1>8. CASE AddJob(q) \/ RequestFails(q)
  BY <1>0, <1>8 DEF AddJob, RequestFails, Rest
<1>. QED BY <1>1, <1>2, <1>3, <1>4, <1>5, <1>6, <1>7, <1>8 DEF RequestStep

\* Queue, retries and removal complete nothing and remove claims only of what
\* is removed.
LEMMA OthersExtract ==
    ASSUME TypeInv, WroteAt, ExtractInv,
           \/ \E w \in Workers : (\E i \in Receipts : PickUp(w, i)) \/ Die(w)
           \/ \E i \in Receipts : Stall(i) \/ DelayEnds(i) \/ RetryRead(i)
           \/ RetryStep \/ RetryFails \/ Tombstone \/ Purge
    PROVE  ExtractInv'
<1> USE DistinctHolders, DistinctReceipts
<1>0. ASSUME UNCHANGED <<source, receipts, claims>>, WorkKept,
             \A w \in Workers : Ran(w) \in fresh' => Ran(w) \in fresh
      PROVE  ExtractInv'
  <2>1. WritersKept
    BY <1>0, ToldWriters DEF RunsTold
  <2>. QED BY <1>0, <2>1, SameCompleted, ExtractFrame DEF SameContent
<1>1. ASSUME NEW w \in Workers,
             (\E i \in Receipts : PickUp(w, i)) \/ Die(w)
      PROVE  ExtractInv'
  BY <1>0, <1>1, PickUpWork, IdleWork DEF PickUp, Die, Rest
<1>2. ASSUME NEW i \in Receipts, Stall(i) \/ DelayEnds(i) PROVE ExtractInv'
  BY <1>0, <1>2, StallWork, SameRuns DEF Stall, DelayEnds
<1>3. ASSUME NEW i \in Receipts, RetryRead(i) PROVE ExtractInv'
  BY <1>0, <1>3, SameRuns DEF RetryRead, Rest
<1>4. CASE RetryReopen
  <2>. DEFINE i == retry.op
              e == [receipts[i] EXCEPT !.status = "queued"]
  <2>0. UNCHANGED <<claims, run>> /\ i \in Receipts
    BY <1>4 DEF RetryReopen, Rest, RetryOK, RetryType
  <2>1. CASE UNCHANGED <<source, receipts, fresh>>
    BY <1>0, <2>0, <2>1, SameRuns
  <2>2. CASE /\ SetStatus("pending", {Kept(i)})
             /\ receipts' = [receipts EXCEPT ![i].status = "queued"]
    <3>1. e \in Receipt /\ receipts' = [receipts EXCEPT ![i] = e]
          /\ e.status = "queued"
      BY <2>0, <2>2, ReceiptFields DEF Receipt, Open
    <3>. HIDE DEF e
    <3>2. /\ SameReceipts /\ receipts'[i] = e
          /\ \A j \in Receipts : j # i => receipts'[j] = receipts[j]
      BY <2>0, <3>1, ReceiptWrite
    <3>3. CompletedKept
      BY <3>1, <3>2 DEF CompletedKept, SameReceipts
    <3>4. SameContent /\ \A w \in Workers : Ran(w) \in fresh' => Ran(w) \in fresh
      BY <2>2, SetStatusKeeps
    <3>5. WritersKept
      BY <2>0, <3>4, SameRuns, ToldWriters DEF RunsTold
    <3>. QED BY <2>0, <3>3, <3>4, <3>5, ExtractFrame
  <2>. QED BY <1>4, <2>1, <2>2 DEF RetryReopen
<1>5. CASE RetryInspect \/ RetryRestore \/ RetryValidate \/ RetryRequeue
           \/ RetryFails
  BY <1>0, <1>5, SameRuns
     DEF RetryInspect, RetryRestore, RetryValidate, RetryRequeue, RetryFails,
         Rest
<1>6. CASE Tombstone
  <2>1. fresh' = {} /\ source'.row = "deleted"
    BY <1>6 DEF Tombstone, SourceType
  <2>. QED BY <2>1 DEF ExtractInv, WroteHas, CompletedHas, HasContent, Live
<1>7. CASE Purge
  <2>1. /\ UNCHANGED <<run, fresh, claims>> /\ source'.row = "gone"
        /\ source'.revision = source.revision
    BY <1>7 DEF Purge, SourceType
  <2>. QED BY <2>1
           DEF ExtractInv, WroteHas, CompletedHas, HasContent, Extracted, Live
<1>. QED BY <1>1, <1>2, <1>3, <1>4, <1>5, <1>6, <1>7 DEF RetryStep

\* A completed receipt of the live source's content has its claims in the graph,
\* unless that content splits into no chunk, also when a chunk is written and
\* fails after its commit and a stalled job runs twice at once: a run that is stale after a chunk
\* cannot complete, and one that replaces the claims of another puts its own.
THEOREM CompletedHasClaims == Spec => []CompletedWasExtracted
<1>1. Init => ExtractInv
  BY DEF Init, ExtractInv, WroteHas, CompletedHas, HasContent, Live
<1>2. TypeInv /\ DerivedInv /\ SpeakInv /\ WroteAt /\ ExtractInv /\ [Next]_vars
        => ExtractInv'
  <2>1. ExtractInv /\ UNCHANGED vars => ExtractInv'
    BY DEF vars, ExtractInv, WroteHas, CompletedHas, HasContent, Extracted,
           Receipts, Live
  <2>. QED BY <2>1, RequestExtracts, RunExtracts, OthersExtract DEF Next
<1>3. ExtractInv => CompletedWasExtracted
  BY DEF ExtractInv, CompletedHas, CompletedWasExtracted, Extracted, Owners
<1>. QED BY <1>1, <1>2, <1>3, TypeInvariant, DerivedInvariant, SpeakInvariant,
            PTL DEF Spec

-----------------------------------------------------------------------------
(* Reprocessing replaces.                                                  *)

\* Without an overlap, no two runs work for one receipt.
Alone ==
    ~overlap => \A v, w \in Workers :
        Busy(v) /\ Busy(w) /\ run[v].op = run[w].op => v = w

\* Nor is a chunk in the graph that the run which holds the version and has
\* replaced the claims is yet to write.
Ahead ==
    ~overlap => \A w \in Workers :
        run[w].at = "extract" /\ run[w].wrote /\ Ran(w) \in fresh =>
            \A x \in Revisions \X Chunks :
                x[1] = run[w].content /\ run[w].chunk <= x[2] => claims[x] = 0

Once == ~overlap => \A x \in Revisions \X Chunks : claims[x] <= 1

ReplaceInv == Alone /\ Ahead /\ Once

\* No step puts claims into the graph but the write of a chunk.
LEMMA ReplaceFrame ==
    ASSUME TypeInv, ReplaceInv, claims' \in {claims, NoClaims}, WritersKept,
           ~overlap' => ~overlap, Alone', RunOK'
    PROVE  ReplaceInv'
<1>1. \A x \in Revisions \X Chunks :
        /\ claims[x] = 0 => claims'[x] = 0
        /\ claims[x] <= 1 => claims'[x] <= 1
  BY DEF NoClaims
<1>2. Ahead'
  <2>. SUFFICES ASSUME ~overlap', NEW w \in Workers, run'[w].at = "extract",
                       run'[w].wrote, Ran(w) \in fresh',
                       NEW x \in Revisions \X Chunks,
                       x[1] = run'[w].content, run'[w].chunk <= x[2]
                PROVE  claims'[x] = 0
    BY DEF Ahead
  <2>1. /\ run[w].at = "extract" /\ run[w].wrote /\ Ran(w) \in fresh
        /\ run'[w].content = run[w].content /\ run[w].chunk <= run'[w].chunk
    BY DEF WritersKept, Writes
  <2>2. run[w].chunk \in Nat /\ run'[w].chunk \in Nat /\ x[2] \in Nat
    <3>1. run[w].chunk \in Nat /\ x[2] \in Nat
      BY RunFields DEF RunType, Chunks
    <3>2. run'[w].chunk \in Nat
      BY DEF RunOK, RunType, Chunks
    <3>. QED BY <3>1, <3>2
  <2>3. run[w].chunk <= x[2]
    BY <2>1, <2>2
  <2>. QED BY <1>1, <2>1, <2>3 DEF ReplaceInv, Ahead
<1>3. Once'
  BY <1>1 DEF ReplaceInv, Once
<1>. QED BY <1>2, <1>3 DEF ReplaceInv

\* Where no run starts to work, runs stay alone.
LEMMA AloneKept ==
    ASSUME ReplaceInv, ~overlap' => ~overlap, BusyKept
    PROVE  Alone'
BY DEF ReplaceInv, Alone, BusyKept, Busy

\* The write of a chunk: only one run holds the version, and the chunk it
\* writes is not there yet.
LEMMA ExtractReplaces ==
    ASSUME TypeInv, DerivedInv, SpeakInv, ReplaceInv, RunOK',
           NEW w \in Workers, NEW i \in Receipts, ExtractChunk(w, i)
    PROVE  ReplaceInv'
<1>. DEFINE x == <<run[w].content, run[w].chunk>>
            old == Retained(w)
            n == IF old[x] < 2 THEN old[x] + 1 ELSE old[x]
<1>1. /\ Live /\ run[w].content = source.revision /\ Ran(w) \in fresh
      /\ run[w].at = "extract"
  BY DEF ExtractChunk, At, Fence, Reads, DerivedInv, RunKnows
<1>2. /\ \A v \in Workers : v # w => run'[v] = run[v]
      /\ run'[w].op = run[w].op /\ run'[w].content = run[w].content
      /\ run'[w].at \in {"extract", "finish", "caught", "thrown"}
      /\ run'[w].at = "extract" => run'[w].chunk = run[w].chunk + 1
      /\ UNCHANGED <<overlap, fresh>>
  BY ExtractWork DEF ExtractChunk
<1>3. run[w].chunk \in Nat
  BY RunFields DEF RunType, Chunks
<1>4. BusyKept
  BY <1>1, <1>2 DEF BusyKept, Busy
<1>5. Alone'
  BY <1>2, <1>4, AloneKept
<1>6. old \in [Revisions \X Chunks -> 0 .. 2]
      /\ claims' = [old EXCEPT ![x] = n]
  BY DEF Retained, NoClaims, ClaimsOK, ExtractChunk
<1>7. ~overlap =>
        /\ \A y \in Revisions \X Chunks : old[y] <= 1
        /\ \A y \in Revisions \X Chunks :
             y[1] = run[w].content /\ run[w].chunk <= y[2] => old[y] = 0
  <2>1. CASE run[w].wrote
    BY <1>1, <2>1 DEF Retained, ReplaceInv, Ahead, Once
  <2>2. CASE ~run[w].wrote
    BY <2>2 DEF Retained, NoClaims
  <2>. QED BY <2>1, <2>2
<1>8. x[1] = run[w].content /\ x[2] = run[w].chunk
  OBVIOUS
<1>9. ~overlap /\ x \in Revisions \X Chunks => n = 1
  <2>. SUFFICES ASSUME ~overlap, x \in Revisions \X Chunks PROVE n = 1
    OBVIOUS
  <2>1. old[x] = 0
    <3>1. run[w].chunk <= run[w].chunk
      BY <1>3
    <3>. HIDE DEF old, x
    <3>. QED BY <1>7, <1>8, <3>1
  <2>. QED BY <2>1
<1>10. Once'
  <2>. SUFFICES ASSUME ~overlap, NEW y \in Revisions \X Chunks
                PROVE  claims'[y] <= 1
    BY <1>2 DEF Once
  <2>1. CASE y = x
    <3>. HIDE DEF old, x, n
    <3>. QED BY <1>6, <1>9, <2>1
  <2>2. CASE y # x
    <3>. HIDE DEF old, x, n
    <3>. QED BY <1>6, <1>7, <2>2
  <2>. QED BY <2>1, <2>2
<1>11. Ahead'
  <2>. SUFFICES ASSUME ~overlap, NEW v \in Workers, run'[v].at = "extract",
                       run'[v].wrote, Ran(v) \in fresh',
                       NEW y \in Revisions \X Chunks,
                       y[1] = run'[v].content, run'[v].chunk <= y[2]
                PROVE  claims'[y] = 0
    BY <1>2 DEF Ahead
  <2>1. v = w
    <3>1. run[v].at = "extract" /\ run[v].op = run[w].op
      BY <1>1, <1>2 DEF SpeakInv, RunHolds, Proceeds
    <3>. QED BY <1>1, <3>1 DEF ReplaceInv, Alone, Busy
  <2>2. y[2] \in Nat
    BY DEF Chunks
  <2>3. /\ y[1] = run[w].content /\ run[w].chunk <= y[2]
        /\ y[2] # run[w].chunk
    BY <1>2, <1>3, <2>1, <2>2
  <2>4. y # x /\ old[y] = 0
    <3>1. old[y] = 0
      BY <1>7, <2>3
    <3>. QED BY <1>8, <2>3, <3>1
  <2>. HIDE DEF old, x, n
  <2>. QED BY <1>6, <2>4
<1>. QED BY <1>5, <1>10, <1>11 DEF ReplaceInv

\* Every other step of a run leaves the claims alone.
LEMMA RunReplaces ==
    ASSUME TypeInv, TypeInv', DerivedInv, SpeakInv, WroteAt, ReplaceInv,
           NEW w \in Workers, NEW i \in Receipts, RunStep(w, i)
    PROVE  ReplaceInv'
<1>1. CASE ExtractChunk(w, i)
  BY <1>1, ExtractReplaces
<1>2. CASE ~ExtractChunk(w, i)
  <2>1. UNCHANGED <<claims, overlap>>
    BY <1>2 DEF RunStep, Mark, ReadContent, Convert, NothingToConvert,
       Unreadable, ExtractionStarted, NothingToExtract, ChunkFails, Complete,
       RunThrows, RecordFailure, JobReturns, JobThrows, Report, Rest
  <2>2. WritersKept /\ BusyKept
    BY <1>2, RunWriters
  <2>. QED BY <2>1, <2>2, AloneKept, ReplaceFrame
<1>. QED BY <1>1, <1>2

\* A worker that picks a job up while it is worked on records the overlap;
\* nobody else starts a run or adds a claim.
LEMMA OthersReplace ==
    ASSUME TypeInv, TypeInv', WroteAt, ReplaceInv,
           \/ \E q \in Requests : RequestStep(q) \/ RequestFails(q)
           \/ \E w \in Workers : (\E i \in Receipts : PickUp(w, i)) \/ Die(w)
           \/ \E i \in Receipts : Stall(i) \/ DelayEnds(i) \/ RetryRead(i)
           \/ RetryStep \/ RetryFails \/ Tombstone \/ Purge
    PROVE  ReplaceInv'
<1> USE DistinctHolders, DistinctReceipts
<1>0. ASSUME WorkKept, BusyKept, claims' \in {claims, NoClaims},
             UNCHANGED overlap,
             \A w \in Workers : Ran(w) \in fresh' => Ran(w) \in fresh
      PROVE  ReplaceInv'
  <2>1. WritersKept
    BY <1>0, ToldWriters DEF RunsTold
  <2>. QED BY <1>0, <2>1, AloneKept, ReplaceFrame
<1>1. ASSUME UNCHANGED run, claims' \in {claims, NoClaims}, UNCHANGED overlap,
             \A w \in Workers : Ran(w) \in fresh' => Ran(w) \in fresh
      PROVE  ReplaceInv'
  BY <1>0, <1>1, SameRuns
<1>s. ASSUME NEW s, NEW i, SetStatus(s, {Kept(i)})
      PROVE  \A w \in Workers : Ran(w) \in fresh' => Ran(w) \in fresh
  BY <1>s, SetStatusKeeps
<1>2. ASSUME NEW q \in Requests, RequestStep(q) \/ RequestFails(q)
      PROVE  ReplaceInv'
  <2>1. /\ UNCHANGED <<run, overlap>> /\ claims' \in {claims, NoClaims}
    BY <1>2 DEF RequestStep, RequestFails, InsertIngestionSource, FindExisting,
       UpdateIngestionMetadata, ReadCreated, FindUpdated, ReplaceInlineContent,
       CreateSourceIngestionOperation, AddJob, Rest
  <2>2. CASE CreateSourceIngestionOperation(q)
    BY <1>1, <1>s, <2>1, <2>2 DEF CreateSourceIngestionOperation
  <2>3. CASE ~CreateSourceIngestionOperation(q)
    <3>1. fresh' \subseteq fresh \union {Asked(q)}
                           \union {Kept(i) : i \in Receipts}
      <4>1. CASE ReplaceInlineContent(q)
        BY <4>1 DEF ReplaceInlineContent
      <4>2. ASSUME NEW changed \in BOOLEAN,
                   UpdateIngestionMetadata(q, changed)
            PROVE  fresh' \subseteq fresh \union {Asked(q)}
                                    \union {Kept(i) : i \in Receipts}
        BY <4>2 DEF UpdateIngestionMetadata, Followers
      <4>. QED BY <1>2, <2>3, <4>1, <4>2
               DEF RequestStep, RequestFails, InsertIngestionSource,
                   FindExisting, ReadCreated, FindUpdated, AddJob
    <3>2. \A w \in Workers : Ran(w) \in fresh' => Ran(w) \in fresh
      BY <3>1
    <3>. QED BY <1>1, <2>1, <3>2
  <2>. QED BY <2>2, <2>3
<1>3. ASSUME NEW w \in Workers, NEW i \in Receipts, PickUp(w, i)
      PROVE  ReplaceInv'
  <2>1. /\ UNCHANGED <<claims, fresh>>
        /\ overlap' = (overlap \/ \E v \in Workers : Working(v, i))
    BY <1>3 DEF PickUp
  <2>2. /\ WorkKept /\ run'[w].op = i
        /\ \A v \in Workers : v # w => run'[v] = run[v]
    BY <1>3, PickUpWork
  <2>3. ~overlap' => ~overlap
    BY <2>1
  <2>4. ~overlap' => \A v \in Workers : Busy(v) => run[v].op # i
    BY <2>1 DEF Working, Busy
  <2>5. Alone'
    BY <2>2, <2>3, <2>4 DEF ReplaceInv, Alone, Busy
  <2>6. WritersKept
    BY <2>1, <2>2, ToldWriters DEF RunsTold
  <2>. QED BY <2>1, <2>3, <2>5, <2>6, ReplaceFrame
<1>4. ASSUME NEW w \in Workers, Die(w) PROVE ReplaceInv'
  BY <1>0, <1>4, IdleWork DEF Die, Rest
<1>5. ASSUME NEW i \in Receipts, Stall(i) \/ DelayEnds(i) PROVE ReplaceInv'
  BY <1>0, <1>5, StallWork, SameRuns DEF Stall, DelayEnds
<1>6. ASSUME NEW i \in Receipts, RetryRead(i) PROVE ReplaceInv'
  BY <1>1, <1>6 DEF RetryRead, Rest
<1>7. CASE RetryReopen
  BY <1>1, <1>s, <1>7 DEF RetryReopen, Rest
<1>8. CASE \/ RetryInspect \/ RetryRestore \/ RetryValidate \/ RetryRequeue
           \/ RetryFails \/ Tombstone \/ Purge
  BY <1>1, <1>8
     DEF RetryInspect, RetryRestore, RetryValidate, RetryRequeue, RetryFails,
         Tombstone, Purge, Rest
<1>. QED BY <1>2, <1>3, <1>4, <1>5, <1>6, <1>7, <1>8 DEF RetryStep

\* While no stalled job runs twice at once, no chunk of a revision is in the
\* graph twice, however often it is extracted: the version fence lets one run
\* write at a time, and that run has removed what its predecessors left.
THEOREM ReprocessedOnce == Spec => []ReprocessingReplaces
<1>1. Init => ReplaceInv
  BY DEF Init, NoClaims, Idle, ReplaceInv, Alone, Ahead, Once, Busy
<1>2. TypeInv /\ TypeInv' /\ DerivedInv /\ SpeakInv /\ WroteAt /\ ReplaceInv
        /\ [Next]_vars => ReplaceInv'
  <2>1. ReplaceInv /\ UNCHANGED vars => ReplaceInv'
    BY DEF vars, ReplaceInv, Alone, Ahead, Once, Busy
  <2>. QED BY <2>1, RunReplaces, OthersReplace DEF Next
<1>3. TypeInv /\ ReplaceInv => ReprocessingReplaces
  BY DEF ReplaceInv, Once, ReprocessingReplaces, ClaimsOK
<1>. QED BY <1>1, <1>2, <1>3, TypeInvariant, DerivedInvariant, SpeakInvariant,
            PTL DEF Spec

=============================================================================
