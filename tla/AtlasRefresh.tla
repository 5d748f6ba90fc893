---------------------------- MODULE AtlasRefresh ----------------------------
(***************************************************************************)
(* The user atlas and the cached context bundle of one partition           *)
(* (jobs/atlas-user.ts, jobs/atlas-invalidation.ts, atlas.ts,              *)
(* context/cache.ts, context/assemble-bootstrap-context.ts).               *)
(*                                                                         *)
(* The atlas is prose an LLM writes from the trusted claims and the pinned *)
(* text; its row also keeps a hash of what it was written from.  A bundle  *)
(* is assembled from the claims and the atlas and cached for six hours.    *)
(* Claims change at any time.  Some changes are noticed: they ask for a    *)
(* new atlas and drop the bundle.  The others wait for the nightly dream   *)
(* and for the bundle to expire.                                           *)
(*                                                                         *)
(* What an atlas is written from stands for the atlas and for its hash.    *)
(***************************************************************************)
EXTENDS Naturals, FiniteSets

CONSTANTS
    Inputs,      \* what the trusted claims and the pinned text can say
    Nothing,     \* no claim, no pinned text; and the empty text of a new row
    Workers,     \* jobs and requests at work at the same time
    Readers,     \* requests for a bundle
    MaxChanges,  \* changes of the claims
    MaxFaults  \* runs that fail or die

ASSUME AtlasAssumption ==
    /\ Nothing \notin Inputs /\ IsFiniteSet(Workers)
    /\ MaxChanges \in Nat /\ MaxFaults \in Nat

VARIABLES
    facts,    \* what claims and pinned text say now
    notice,   \* what the last noticed change has left to do
    refresh,  \* the job with the id atlas-user:...:supersede
    run,      \* what each worker is at
    atlas,    \* rows of nodes of type Atlas
    bundle,   \* context-bundle:... in Redis
    asking,   \* what each reader has read
    changes, faults

atlasVars == <<facts, notice, refresh, run, atlas, bundle, asking, changes, faults>>

-----------------------------------------------------------------------------
Said == Inputs \union {Nothing}
RowIds == 1 .. Cardinality(Workers)

NoRow == [there |-> FALSE]
Row(text) == [there |-> TRUE, text |-> text, hash |-> text]
There == {r \in RowIds : atlas[r].there}

Resting == [at |-> "idle"]

Unread == "unread"
NoBundle == [facts |-> Unread, text |-> Unread]

\* What the section of the bundle may show: LIMIT 1 without an order.
OnShow == IF There = {} THEN {Nothing} ELSE {atlas[r].text : r \in There}

\* A row and the hash in it are written in one statement; a worker holds the
\* id of a row that is there.
AtlasTypeOK ==
    /\ facts \in Said /\ notice \in {"none", "enqueue", "invalidate"}
    /\ refresh \in {"none", "waiting", "active", "failed"}
    /\ atlas \in [RowIds -> {NoRow} \union {Row(s) : s \in Said}]
    /\ \A w \in Workers : run[w] = Resting \/
          /\ run[w].at \in {"ensure", "create", "compare", "write"}
          /\ run[w].kind \in {"dream", "supersede", "query"} /\ run[w].got \in Said
          /\ run[w].at \in {"compare", "write"} => run[w].row \in There
    /\ refresh = "active" <=> \E w \in Workers : run[w] # Resting /\ run[w].kind = "supersede"
    /\ bundle = NoBundle \/ bundle \in [facts : Said, text : Said]
    /\ changes \in 0 .. MaxChanges /\ faults \in 0 .. MaxFaults

AtlasInit ==
    /\ facts \in Said /\ notice = "none" /\ refresh = "none"
    /\ run = [w \in Workers |-> Resting] /\ atlas = [r \in RowIds |-> NoRow]
    /\ bundle = NoBundle /\ asking = [r \in Readers |-> NoBundle]
    /\ changes = 0 /\ faults = 0

-----------------------------------------------------------------------------
\* The claims.  A claim is created and supersedes another, is retracted or
\* contradicted, under the key of its partition.
ChangeNoticed(s) ==
    /\ notice = "none" /\ s # facts /\ changes < MaxChanges
    /\ facts' = s /\ notice' = "enqueue" /\ changes' = changes + 1
    /\ UNCHANGED <<refresh, run, atlas, bundle, asking, faults>>

\* A claim that supersedes nothing, that is deleted, that moves to another
\* node (the time is taken after it was retracted); an extraction, which asks
\* without the partition; the pinned text; the labels of the nodes.
ChangeUnnoticed(s) ==
    /\ s # facts /\ changes < MaxChanges
    /\ facts' = s /\ changes' = changes + 1
    /\ UNCHANGED <<notice, refresh, run, atlas, bundle, asking, faults>>

\* Slip: a job that works is put back into the queue.
EnqueuedAgain ==
    /\ notice = "enqueue" /\ notice' = "invalidate" /\ refresh' = "waiting"
    /\ UNCHANGED <<facts, run, atlas, bundle, asking, changes, faults>>

\* A job with this id that waits, works or has failed lets nothing be added.
Enqueue ==
    /\ notice = "enqueue" /\ notice' = "invalidate"
    /\ refresh' = IF refresh = "none" THEN "waiting" ELSE refresh
    /\ UNCHANGED <<facts, run, atlas, bundle, asking, changes, faults>>

Invalidate ==
    /\ notice = "invalidate" /\ notice' = "none" /\ bundle' = NoBundle
    /\ UNCHANGED <<facts, refresh, run, atlas, asking, changes, faults>>

\* Redis refuses, or the process dies.
NoticeLost ==
    /\ notice # "none" /\ faults < MaxFaults
    /\ notice' = "none" /\ faults' = faults + 1
    /\ UNCHANGED <<facts, refresh, run, atlas, bundle, asking, changes>>

-----------------------------------------------------------------------------
\* The host asks for a dream night after night: one may begin at any time.
Wanted(kind) == kind = "supersede" => refresh = "waiting"

\* A worker takes a job and reads what the atlas is written from; a query
\* only wants the row.  Without any input the job ends, and the text stays.
BeginRun(w, kind) ==
    LET nothing == kind # "query" /\ facts = Nothing IN
    /\ run[w] = Resting /\ Wanted(kind)
    /\ kind = "query" => There = {}
    /\ refresh' = IF kind # "supersede" THEN refresh ELSE IF nothing THEN "none" ELSE "active"
    /\ run' = IF nothing THEN run
              ELSE [run EXCEPT ![w] = [at |-> "ensure", kind |-> kind, got |-> facts, row |-> 0]]
    /\ UNCHANGED <<facts, notice, atlas, bundle, asking, changes, faults>>

Done(w) ==
    /\ run' = [run EXCEPT ![w] = Resting]
    /\ refresh' = IF run[w].kind = "supersede" THEN "none" ELSE refresh

\* ensureAtlasNode: looks for a row, and makes one later.
Holds(w, r) ==
    IF run[w].kind = "query" THEN Done(w)
    ELSE run' = [run EXCEPT ![w].at = "compare", ![w].row = r] /\ UNCHANGED refresh

Ensure(w) ==
    /\ run[w].at = "ensure"
    /\ \/ \E r \in There : Holds(w, r)
       \/ There = {} /\ run' = [run EXCEPT ![w].at = "create"] /\ UNCHANGED refresh
    /\ UNCHANGED <<facts, notice, atlas, bundle, asking, changes, faults>>

CreateRow(w) ==
    LET new == Cardinality(There) + 1 IN
    /\ run[w].at = "create"
    /\ atlas' = [atlas EXCEPT ![new] = Row(Nothing)]
    /\ Holds(w, new)
    /\ UNCHANGED <<facts, notice, bundle, asking, changes, faults>>

\* Slip: the hash is stored before there is a text for it.
ComparedAndMarked(w) ==
    /\ run[w].at = "compare"
    /\ IF atlas[run[w].row].hash = run[w].got THEN Done(w) /\ UNCHANGED atlas
       ELSE /\ run' = [run EXCEPT ![w].at = "write"] /\ UNCHANGED refresh
            /\ atlas' = [atlas EXCEPT ![run[w].row].hash = run[w].got]
    /\ UNCHANGED <<facts, notice, bundle, asking, changes, faults>>

\* What was written from the same is not written again.
Compare(w) ==
    /\ run[w].at = "compare"
    /\ IF atlas[run[w].row].hash = run[w].got THEN Done(w)
       ELSE run' = [run EXCEPT ![w].at = "write"] /\ UNCHANGED refresh
    /\ UNCHANGED <<facts, notice, atlas, bundle, asking, changes, faults>>

\* The answer of the LLM comes; text and hash go into the row.
Write(w) ==
    /\ run[w].at = "write"
    /\ atlas' = [atlas EXCEPT ![run[w].row] = Row(run[w].got)]
    /\ Done(w)
    /\ UNCHANGED <<facts, notice, bundle, asking, changes, faults>>

\* The job fails and is kept under its id; or the process dies, and the queue
\* hands the job out again.
Fail(w) ==
    /\ run[w] # Resting /\ faults < MaxFaults /\ faults' = faults + 1
    /\ run' = [run EXCEPT ![w] = Resting]
    /\ IF run[w].kind = "supersede" THEN refresh' \in {"failed", "waiting"} ELSE UNCHANGED refresh
    /\ UNCHANGED <<facts, notice, atlas, bundle, asking, changes>>

-----------------------------------------------------------------------------
\* A request for the bundle finds none, or does not want the cached one.
Ask(r) ==
    /\ asking[r] = NoBundle
    /\ \/ \E s \in OnShow : asking' = [asking EXCEPT ![r].text = s]
       \/ asking' = [asking EXCEPT ![r].facts = facts]
    /\ UNCHANGED <<facts, notice, refresh, run, atlas, bundle, changes, faults>>

\* The sections are read at the same time; the last one makes the bundle.
Gather(r) ==
    /\ asking[r] # NoBundle /\ Unread \in {asking[r].facts, asking[r].text}
    /\ \/ \E s \in OnShow : asking[r].text = Unread /\ asking' = [asking EXCEPT ![r].text = s]
       \/ asking[r].facts = Unread /\ asking' = [asking EXCEPT ![r].facts = facts]
    /\ UNCHANGED <<facts, notice, refresh, run, atlas, bundle, changes, faults>>

\* Writing to the cache may fail; the bundle is answered all the same.
Keep(r) ==
    /\ Unread \notin {asking[r].facts, asking[r].text}
    /\ bundle' \in {asking[r], bundle}
    /\ asking' = [asking EXCEPT ![r] = NoBundle]
    /\ UNCHANGED <<facts, notice, refresh, run, atlas, changes, faults>>

\* Slip: what is cached stays until somebody drops it.
ExpiresNever == FALSE /\ UNCHANGED atlasVars

\* Six hours have passed.
Expire ==
    /\ bundle # NoBundle /\ bundle' = NoBundle
    /\ UNCHANGED <<facts, notice, refresh, run, atlas, asking, changes, faults>>

-----------------------------------------------------------------------------
Notice == Enqueue \/ Invalidate
Work(w) == Ensure(w) \/ CreateRow(w) \/ Compare(w) \/ Write(w)
Dream == \E w \in Workers : BeginRun(w, "dream")

AtlasNext ==
    \/ \E s \in Said : ChangeNoticed(s) \/ ChangeUnnoticed(s)
    \/ Notice \/ NoticeLost \/ Dream \/ Expire
    \/ \E w \in Workers : BeginRun(w, "supersede") \/ BeginRun(w, "query") \/ Work(w) \/ Fail(w)
    \/ \E r \in Readers : Ask(r) \/ Gather(r) \/ Keep(r)

AtlasSpec == AtlasInit /\ [][AtlasNext]_atlasVars

\* The dream comes back, workers go on, the cache forgets.
AtlasFairness ==
    /\ WF_atlasVars(Dream) /\ WF_atlasVars(Expire)
    /\ \A w \in Workers : WF_atlasVars(Work(w))

-----------------------------------------------------------------------------
\* There is what the atlas can be written from, and one row to write it in.
Portrayable == facts # Nothing /\ Cardinality(There) <= 1

\* Once the claims rest, the atlas comes to say what they say: although runs
\* overlap and the slower one writes last, although one fails, although the
\* job that asks for a new atlas is never added again
\* (jobs/atlas-user.ts:352-355).
AtlasCatchesUp == <>[](Portrayable => There # {} /\ \A r \in There : atlas[r].text = facts)

\* And a cached bundle, too, whenever it was assembled, and although nobody
\* drops it when the atlas is written (context/cache.ts:5-7).
BundleCatchesUp ==
    <>[](Portrayable => bundle = NoBundle \/ (bundle.facts = facts /\ bundle.text = facts))

=============================================================================
