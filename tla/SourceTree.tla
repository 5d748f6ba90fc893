----------------------------- MODULE SourceTree -----------------------------
(***************************************************************************)
(* Containment of sources and the transactions that change it: deletion    *)
(* commands (tombstone, restore, purge), insertion and revision of a       *)
(* child, retirement of an identity, and the move of a tree to another     *)
(* partition (source-lifecycle.ts, sources.ts, partition-access.ts,        *)
(* source-identity-lifecycle.ts, partition-reclassification.ts).           *)
(*                                                                         *)
(* A transaction reads, takes its advisory gates, reads again, and then    *)
(* locks rows and writes; the gates are its own until it ends.  Every read *)
(* before the row locks is a step.  What happens under the row locks is    *)
(* one step, the commit: nothing else can get between.  Gates that are     *)
(* taken with no read behind them are taken in the step of that read or of *)
(* the commit; only the containment gates of a tree, where two transactions*)
(* may each hold what the other wants, are taken one by one.  Identity     *)
(* gates come before all containment gates, in one order for everybody.    *)
(*                                                                         *)
(* Sources are numbered in the order of their ids, which is that of their  *)
(* creation.  A reclassification carries a binding generation of its own,  *)
(* so that its replay is left out.                                         *)
(***************************************************************************)
EXTENDS SerialTree

CONSTANTS
    Procs,       \* transactions under way at the same time
    MaxBegun     \* transactions ever begun

\* What the constants are assumed to be.
ASSUME TreeAssumption == MaxBegun \in Nat

VARIABLES
    proc,     \* the transactions
    begun     \* how many transactions were begun

treeVars == <<source, tomb, record, retired, proc, moved, begun>>

-----------------------------------------------------------------------------
\* `found` is the tree as last read, `want` and `held` are containment gates,
\* `names` identity gates.
Idle == [kind |-> "none", at |-> "idle", req |-> <<>>, answer |-> "none",
         found |-> {}, want |-> {}, held |-> {}, names |-> {}]

TreeTypeOK ==
    /\ source \in [Sources -> [row : {"none", "live", "erased", "gone"},
                               parent : Sources \union {Root},
                               partition : Partitions, base : Sources,
                               version : 1 .. MaxVersion]]
    /\ tomb \in [Sources -> {"none", "tombstoned", "restored", "purged"}]
    /\ \A c \in Commands : record[c] = NoRecord \/ record[c] \in Requests
    /\ retired \subseteq Names
    /\ \A p \in Procs :
          /\ proc[p].kind \in {"none", "command", "insert", "revise", "reclassify"}
          /\ proc[p].at \in {"idle", "begun", "walk", "rows"}
          /\ proc[p].answer \in {"none", "applied", "replayed", "conflict",
                                 "refused", "missing", "aborted"}
          /\ proc[p].found \union proc[p].want \union proc[p].held \subseteq Sources
          /\ proc[p].names \subseteq Names
    /\ \A p, q \in Procs : p # q => /\ proc[p].held \cap proc[q].held = {}
                                    /\ proc[p].names \cap proc[q].names = {}
    /\ moved \in BOOLEAN
    /\ begun \in 0 .. MaxBegun

TreeInit ==
    /\ SerialInit
    /\ proc = [p \in Procs |-> Idle]
    /\ begun = 0

-----------------------------------------------------------------------------
(* Transactions and gates.                                                 *)

FreeGates(p, S) == \A q \in Procs \ {p} : proc[q].held \cap S = {}
FreeNames(p, S) == \A q \in Procs \ {p} : proc[q].names \cap S = {}

ParentGate(parent) == {parent} \ {Root}

\* pg_advisory_xact_lock, in sorted order.
LockGate(p) ==
    /\ proc[p].at = "walk"
    /\ \E g \in First(proc[p].want) :
           /\ FreeGates(p, {g})
           /\ proc' = [proc EXCEPT ![p].want = @ \ {g}, ![p].held = @ \union {g}]
    /\ UNCHANGED <<source, tomb, record, retired, moved, begun>>

MayBegin(p) == proc[p].at = "idle" /\ begun < MaxBegun

Begin(p, start) ==
    /\ begun' = begun + 1
    /\ proc' = [proc EXCEPT ![p] = start]
    /\ UNCHANGED <<source, tomb, record, retired, moved>>

At(p, kind, at) == proc[p].kind = kind /\ proc[p].at = at /\ proc[p].want = {}

\* Commit or rollback: the gates are released.
End(p, answer) == proc' = [proc EXCEPT ![p] = [Idle EXCEPT !.answer = answer]]

Rollback(p, answer) ==
    /\ End(p, answer)
    /\ UNCHANGED <<source, tomb, record, retired, moved, begun>>

-----------------------------------------------------------------------------
(* Deletion commands.                                                      *)

\* What a caller sends: a command on what it sees, or one sent before.
Sendable(p) == IF ~MayBegin(p) THEN {} ELSE
    {[command |-> c, action |-> act, root |-> i,
      partition |-> source[i].partition, version |-> source[i].version] :
        c \in Commands, act \in {"tombstone", "restore", "purge"},
        i \in {j \in Sources : source[j].row # "none"}}
    \union {record[c] : c \in {d \in Commands : record[d] # NoRecord}}
    \union {proc[q].req : q \in {r \in Procs : proc[r].kind = "command"}}

Recorded(req) == IF record[req.command] = req THEN "replayed" ELSE "conflict"

\* The record of an earlier delivery answers; its id must have said the same.
ReplayAtOnce(p, req) ==
    /\ record[req.command] # NoRecord
    /\ begun' = begun + 1
    /\ End(p, Recorded(req))
    /\ UNCHANGED <<source, tomb, record, retired, moved>>

BeginCommand(p, req) ==
    LET found == Tree(req.root)
    IN  /\ record[req.command] = NoRecord
        /\ Begin(p, [Idle EXCEPT !.kind = "command", !.at = "walk", !.req = req,
                                 !.found = found, !.want = found])

\* Slip: what was found first is taken for the tree.
WalkOnce(p) ==
    /\ At(p, "command", "walk")
    /\ proc' = [proc EXCEPT ![p].at = "rows"]
    /\ UNCHANGED <<source, tomb, record, retired, moved, begun>>

\* With the gates of everything found in hand, look again, until nothing is new.
WalkAgain(p) ==
    /\ At(p, "command", "walk")
    /\ LET again == Tree(proc[p].req.root)
       IN  proc' = IF again = proc[p].found
                   THEN [proc EXCEPT ![p].at = "rows"]
                   ELSE [proc EXCEPT ![p].found = again,
                                     ![p].want = again \ proc[p].held]
    /\ UNCHANGED <<source, tomb, record, retired, moved, begun>>

\* The rows are locked; none of them may be gone.
Missing(p) == \/ proc[p].req.root \notin proc[p].found
              \/ \E i \in proc[p].found : ~Exists(i)

MissCommand(p) ==
    /\ At(p, "command", "rows")
    /\ Missing(p)
    /\ Rollback(p, "missing")

Found(p) == At(p, "command", "rows") /\ ~Missing(p)

\* Another delivery may have been applied while this one waited.
ReplayAfterWait(p) ==
    /\ Found(p)
    /\ record[proc[p].req.command] # NoRecord
    /\ Rollback(p, Recorded(proc[p].req))

\* Slip: the record is not looked for again.
RefusedAnyway(p) ==
    LET req == proc[p].req
    IN  /\ Found(p)
        /\ ~Expected(req) \/ ~Applies(req) \/ req.action = "restore"
        /\ Rollback(p, "refused")

\* The last disjunct is a restore window that has passed.
RefuseCommand(p) ==
    LET req == proc[p].req
    IN  /\ Found(p)
        /\ record[req.command] = NoRecord
        /\ ~Expected(req) \/ ~Applies(req) \/ req.action = "restore"
        /\ Rollback(p, "refused")

ApplyCommand(p) ==
    /\ Found(p)
    /\ Apply(proc[p].req, proc[p].found)
    /\ End(p, "applied")
    /\ UNCHANGED begun

-----------------------------------------------------------------------------
(* Insertion and revision.                                                 *)

\* Slip: the gate of the identity is let go with the lookup.
GateLetGo(p, name, parent) ==
    /\ MayBegin(p)
    /\ FreeNames(p, {name})
    /\ name \notin retired
    /\ Begin(p, [Idle EXCEPT !.kind = "insert", !.at = "begun",
                             !.req = [name |-> name, parent |-> parent]])

\* insertSources of one source: the gate of its identity, and the lookup under it.
BeginInsert(p, name, parent) ==
    /\ MayBegin(p)
    /\ FreeNames(p, {name})
    /\ name \notin retired
    /\ Begin(p, [Idle EXCEPT !.kind = "insert", !.at = "begun", !.names = {name},
                             !.req = [name |-> name, parent |-> parent]])

\* Slip: the gate of the parent is not taken.
InsertAtOnce(p) ==
    /\ At(p, "insert", "begun")
    /\ Attach(proc[p].req.name, proc[p].req.parent)
    /\ End(p, "none")
    /\ UNCHANGED begun

\* The gate of the parent, the parent, the row.
Insert(p) ==
    /\ At(p, "insert", "begun")
    /\ FreeGates(p, ParentGate(proc[p].req.parent))
    /\ Attach(proc[p].req.name, proc[p].req.parent)
    /\ End(p, "none")
    /\ UNCHANGED begun

\* A parent that is not live or lies elsewhere, or a name that is taken.
RefuseInsert(p) ==
    LET req == proc[p].req
    IN  /\ At(p, "insert", "begun")
        /\ FreeGates(p, ParentGate(req.parent))
        /\ ~MayInsert(req.name, req.parent)
        /\ Rollback(p, "none")

\* withSourceWriteFence reads the identity outside the transaction.
BeginRevise(p, i, parent) ==
    /\ MayBegin(p)
    /\ Exists(i) /\ source[i].version < MaxVersion - 1
    /\ Begin(p, [Idle EXCEPT !.kind = "revise", !.at = "begun",
                   !.req = [source |-> i, parent |-> parent, name |-> Name(i)]])

\* The gate of the name first, and with it in hand that of the parent.
LockOwnName(p) ==
    /\ At(p, "revise", "begun")
    /\ FreeNames(p, {proc[p].req.name})
    /\ proc' = [proc EXCEPT ![p].at = "rows", ![p].names = {proc[p].req.name}]
    /\ UNCHANGED <<source, tomb, record, retired, moved, begun>>

GatesOfRevise(p) ==
    /\ At(p, "revise", "rows")
    /\ FreeGates(p, ParentGate(proc[p].req.parent))

\* Its name, looked up outside, must still be its name.
MayRevise(req) ==
    Name(req.source) = req.name /\ MayAmend(req.source, req.parent)

\* A revision names its parent, another one or none; the old parent's gate is
\* not taken.
Revise(p) ==
    LET req == proc[p].req
    IN  /\ GatesOfRevise(p)
        /\ MayRevise(req)
        /\ Amend(req.source, req.parent)
        /\ End(p, "none")
        /\ UNCHANGED begun

RefuseRevise(p) ==
    /\ GatesOfRevise(p)
    /\ ~MayRevise(proc[p].req)
    /\ Rollback(p, "none")

-----------------------------------------------------------------------------
(* Retirement of an identity.  A name says which partition it lies in.     *)

Retire(p, name) ==
    /\ MayBegin(p)
    /\ FreeNames(p, {name})
    /\ begun' = begun + 1
    /\ retired' = retired \union {name}
    /\ UNCHANGED <<source, tomb, record, proc, moved>>

Reopen(p, name) ==
    /\ MayBegin(p)
    /\ FreeNames(p, {name})
    /\ begun' = begun + 1
    /\ retired' = retired \ {name}
    /\ UNCHANGED <<source, tomb, record, proc, moved>>

-----------------------------------------------------------------------------
(* Reclassification.                                                       *)

NamesOf(S, partition) == {Name(i) : i \in S} \union {Renamed(i, partition) : i \in S}

BeginReclassify(p, i, partition) ==
    LET found == WholeTree(i)
    IN  /\ MayBegin(p)
        /\ Exists(i)
        /\ partition # source[i].partition
        /\ Begin(p, [Idle EXCEPT !.kind = "reclassify", !.at = "begun", !.found = found,
                       !.req = [root |-> i, version |-> source[i].version,
                                to |-> partition, names |-> NamesOf(found, partition)]])

\* The old and the new names, then the containment of all that was found.
LockNames(p) ==
    /\ At(p, "reclassify", "begun")
    /\ FreeNames(p, proc[p].req.names)
    /\ proc' = [proc EXCEPT ![p].at = "walk", ![p].names = proc[p].req.names,
                            ![p].want = proc[p].found]
    /\ UNCHANGED <<source, tomb, record, retired, moved, begun>>

\* Looked for once more; a tree that has changed is given up.
WalkTwice(p) ==
    /\ At(p, "reclassify", "walk")
    /\ IF WholeTree(proc[p].req.root) = proc[p].found
       THEN proc' = [proc EXCEPT ![p].at = "rows"]
       ELSE End(p, "none")
    /\ UNCHANGED <<source, tomb, record, retired, moved, begun>>

MayReclassify(p) ==
    LET req == proc[p].req
    IN  /\ source[req.root].version = req.version
        /\ NamesOf(proc[p].found, req.to) \subseteq req.names
        /\ MayMove(req.root, req.to, proc[p].found)

Reclassify(p) ==
    LET req == proc[p].req
    IN  /\ At(p, "reclassify", "rows")
        /\ MayReclassify(p)
        /\ Relocate(req.to, proc[p].found)
        /\ End(p, "none")
        /\ UNCHANGED begun

RefuseReclassify(p) ==
    /\ At(p, "reclassify", "rows")
    /\ MayReclassify(p) => ~Consistent(Relocation(proc[p].found, proc[p].req.to))
    /\ Rollback(p, "none")

-----------------------------------------------------------------------------
(* Waiting in a circle, which only the trees' gates allow.                 *)

\* The gates it asks for next, and all the names it asks for.
NextGates(p) ==
    IF proc[p].kind = "insert" \/ (proc[p].kind = "revise" /\ proc[p].at = "rows")
    THEN ParentGate(proc[p].req.parent)
    ELSE First(proc[p].want)

NextNames(p) ==
    CASE proc[p].at = "begun" /\ proc[p].kind = "revise" -> {proc[p].req.name}
      [] proc[p].at = "begun" /\ proc[p].kind = "reclassify" -> proc[p].req.names
      [] OTHER -> {}

WaitsFor(p) ==
    {q \in Procs \ {p} : \/ NextGates(p) \cap proc[q].held # {}
                        \/ NextNames(p) \cap proc[q].names # {}}

\* With a transaction, all it waits for.
WithBlockers(S) == \A q \in S : WaitsFor(q) \subseteq S

\* It is among those it waits for, at first, second or any later hand.
Deadlocked(p) ==
    \A S \in SUBSET Procs : WaitsFor(p) \subseteq S /\ WithBlockers(S) => p \in S

\* PostgreSQL aborts one of them.
Abort(p) ==
    /\ Deadlocked(p)
    /\ Rollback(p, "aborted")

TreeNext ==
    \E p \in Procs :
        \/ LockGate(p)
        \/ \E req \in Sendable(p) : BeginCommand(p, req) \/ ReplayAtOnce(p, req)
        \/ WalkAgain(p) \/ MissCommand(p) \/ ReplayAfterWait(p)
        \/ RefuseCommand(p) \/ ApplyCommand(p)
        \/ \E name \in Ingested, parent \in Sources \union {Root} :
              BeginInsert(p, name, parent)
        \/ Insert(p) \/ RefuseInsert(p)
        \/ \E i \in Sources, parent \in Sources \union {Root} : BeginRevise(p, i, parent)
        \/ LockOwnName(p) \/ Revise(p) \/ RefuseRevise(p)
        \/ \E name \in Ingested : Retire(p, name) \/ Reopen(p, name)
        \/ \E i \in Sources, partition \in Partitions : BeginReclassify(p, i, partition)
        \/ LockNames(p) \/ WalkTwice(p) \/ Reclassify(p) \/ RefuseReclassify(p)
        \/ Abort(p)

TreeSpec == TreeInit /\ [][TreeNext]_treeVars

-----------------------------------------------------------------------------
\* No child appears or stays under an erased parent: whatever is attached,
\* moved or discovered while a tree is being closed, a live source's parent is
\* live and not tombstoned (loadAndLockSourceTree, assertLiveSourceParents).
NoLiveUnderErased ==
    \A i \in Sources : source[i].row = "live" /\ source[i].parent # Root
                       => LiveSource(source[i].parent)

\* "Once retirement returns, a later insert cannot commit", and "both its old and
\* destination identities remain retired": neither an insert nor a move to another
\* partition brings a live source to a name that was retired before, and what was
\* retired stays so, with the new names of those moved sources, and of no other,
\* whose old one was (lockSourceIdentityGates, updateSourceTreePartitions).
Arrives(i) ==
    /\ source'[i].row = "live"
    /\ source[i].row = "none" \/ source'[i].partition # source[i].partition

Carried == {i \in Sources : Arrives(i) /\ source[i].row # "none" /\ Name(i) \in retired}

OpensNothingRetired ==
    \A i \in Sources : Arrives(i) =>
        /\ Name(i)' \notin retired
        /\ retired' = retired \union {Name(j)' : j \in Carried}

RetiredStaysClosed == [][OpensNothingRetired]_treeVars

\* A delivery of a command that another delivery has meanwhile applied is
\* answered like it, and neither applied again nor refused over the version
\* the first one moved on, as long as the source's row is there
\* (applySourceLifecycleCommand).
RetryIsReplayed ==
    \A p \in Procs :
        /\ proc[p].kind = "command" /\ proc'[p].at = "idle"
        /\ record[proc[p].req.command] = proc[p].req
        => proc'[p].answer = IF Deadlocked(p) THEN "aborted"
                             ELSE IF Exists(proc[p].req.root) THEN "replayed"
                             ELSE "missing"

RetryReplaysWhileTheSourceIsThere == [][RetryIsReplayed]_treeVars

\* "sorting the remaining ids gives concurrent root operations a consistent
\* lock order": as long as sources gain children and none changes its parent,
\* no transactions, of any kind and however many, wait for each other's gates
\* in a circle (loadAndLockSourceTree, lockSourceParentAttachmentGates,
\* lockSourceIdentityGates).
NoGateCycle == moved \/ \A p \in Procs : ~Deadlocked(p)

=============================================================================
