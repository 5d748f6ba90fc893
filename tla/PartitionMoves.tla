----------------------------- MODULE PartitionMoves -----------------------------
(***************************************************************************)
(* A user's memory is divided into partitions: the migration, writes       *)
(* beside it, and the commands that move a source with its evidence        *)
(* (partition-migration.ts, partition-reclassification.ts,                 *)
(* partition-artifact-recovery.ts, partition-access.ts, and the triggers   *)
(* of drizzle/0028_dizzy_norrin_radd.sql).                                 *)
(*                                                                         *)
(* A source stands for a tree of sources, which is locked and moves as     *)
(* one, with its claims and links; they refer to one node.  A node of      *)
(* other sources is not moved: it is split, and a mapping remembers the    *)
(* node that replaces it in the partition.                                 *)
(*                                                                         *)
(* A transaction reads and writes, then its deferred triggers look at what *)
(* is committed, then it commits: three steps, and others may commit in    *)
(* between.                                                                *)
(***************************************************************************)
EXTENDS Naturals, FiniteSets

CONSTANTS
    Origins,     \* sources
    NodeIds,     \* nodes, those that replace others among them
    Keys,        \* partitions
    Unassigned,  \* the one that takes what belongs nowhere
    Null,        \* no partition, no node, no source
    MaxTurns     \* commands to move a source, and presentations

ASSUME PartitionAssumption ==
    /\ Unassigned \in Keys /\ Null \notin Keys \union NodeIds \union Origins
    /\ IsFiniteSet(NodeIds) /\ MaxTurns \in Nat

VARIABLES
    migration,  \* partition_migration_state
    known,      \* the row of users is there
    origin,     \* sources: the partition, and the node their evidence is about
    place,      \* nodes: the partition, and whose presentation they show
    mapping,    \* partition_node_mappings: of a node, in a partition
    open,       \* transactions under way
    blind,      \* sources of which two transactions were committed blindly
    turns       \* commands and presentations so far

partitionVars == <<migration, known, origin, place, mapping, open, blind, turns>>

-----------------------------------------------------------------------------
Absent == [there |-> FALSE, used |-> FALSE]
Gone == [there |-> FALSE, used |-> TRUE]
Placed(k, shows) == [there |-> TRUE, part |-> k, shows |-> shows]
About(k, n) == [there |-> TRUE, part |-> k, node |-> n]

NoMap == [state |-> "none"]

LiveNodes == {n \in NodeIds : place[n].there}
Supports(n) == {s \in Origins : origin[s].there /\ origin[s].node = n}
Unused(n) == place[n] = Absent /\ \A t \in open : n # t.node
NewNode == CHOOSE n \in NodeIds : Unused(n)

\* A transaction holds the row of its source, the mapping it reads or makes,
\* and those its trigger has reopened.
Locked(s) == \E t \in open : t.source = s
MappingLocked(n, k) == \E t \in open :
    IF t.kind = "move"
    THEN t.checked /\ k # t.part /\ mapping[n][k] = [state |-> "completed", to |-> t.node]
    ELSE t.from = n /\ t.part = k

PartitionTypeOK ==
    /\ migration \in {"unmigrated", "migrating", "migrated"} /\ known \in BOOLEAN
    /\ \A s \in Origins :
          \/ origin[s] = Absent
          \/ (origin[s].part \in Keys \union {Null} /\ origin[s].node \in LiveNodes)
    /\ \A n \in NodeIds :
          \/ place[n] \in {Absent, Gone}
          \/ (place[n].part \in Keys \union {Null} /\ place[n].shows \in Origins \union {Null})
    /\ \A n \in NodeIds, k \in Keys :
          /\ mapping[n][k].state \in {"none", "completed", "pending", "quarantined"}
          /\ mapping[n][k].state \in {"completed", "quarantined"} => mapping[n][k].to \in NodeIds
    /\ \A t, u \in open : t.source = u.source => t = u
    /\ blind \subseteq Origins /\ turns \in 0 .. MaxTurns

PartitionInit ==
    /\ migration = "unmigrated" /\ known = FALSE
    /\ origin = [s \in Origins |-> Absent] /\ place = [n \in NodeIds |-> Absent]
    /\ mapping = [n \in NodeIds |-> [k \in Keys |-> NoMap]]
    /\ open = {} /\ blind = {} /\ turns = 0

-----------------------------------------------------------------------------
\* preparePartitionWrite: without a key before the migration, with one after.
MayWrite(k) == (k = Null) <=> (migration = "unmigrated")

Begun(kind, s, k, n, from, made) ==
    [kind |-> kind, source |-> s, part |-> k, node |-> n, from |-> from, made |-> made,
     checked |-> FALSE]

\* Evidence about a node of the partition, or about a new one.
OpenWrite(s, k) ==
    /\ ~origin[s].there /\ ~Locked(s) /\ MayWrite(k)
    /\ \/ \E n \in LiveNodes :
             /\ place[n].part = k
             /\ open' = open \union {Begun("write", s, k, n, Null, FALSE)}
       \/ /\ \E n \in NodeIds : Unused(n)
          /\ open' = open \union {Begun("write", s, k, NewNode, Null, TRUE)}
    /\ known' = TRUE
    /\ UNCHANGED <<migration, origin, place, mapping, blind, turns>>

\* A task is presented; the source is read anew, and what it presented goes.
Present(s) ==
    /\ origin[s].there /\ ~Locked(s) /\ place[origin[s].node].shows # s
    /\ turns < MaxTurns /\ turns' = turns + 1
    /\ place' = [place EXCEPT ![origin[s].node].shows = s]
    /\ UNCHANGED <<migration, known, origin, mapping, open, blind>>

\* quarantine_deleted_commitment_presentation
Quarantined(nodes) ==
    [n \in NodeIds |-> [k \in Keys |->
        IF mapping[n][k].state = "completed" /\ mapping[n][k].to \in nodes
        THEN [mapping[n][k] EXCEPT !.state = "quarantined"] ELSE mapping[n][k]]]

Hidden(s) == [n \in NodeIds |-> IF place[n].there /\ place[n].shows = s
                                THEN [place[n] EXCEPT !.shows = Null] ELSE place[n]]

Withdraw(s) ==
    /\ origin[s].there /\ ~Locked(s) /\ \E n \in LiveNodes : place[n].shows = s
    /\ place' = Hidden(s)
    /\ mapping' = Quarantined({n \in LiveNodes : place[n].shows = s})
    /\ UNCHANGED <<migration, known, origin, open, blind, turns>>

\* A source is erased, and its node with it when nothing else is about it.
EraseOrigin(s) ==
    LET n == origin[s].node
        last == Supports(n) = {s}
    IN
    /\ origin[s].there /\ ~Locked(s) /\ (last => \A t \in open : t.node # n)
    /\ origin' = [origin EXCEPT ![s] = Absent]
    /\ place' = IF last THEN [Hidden(s) EXCEPT ![n] = Gone] ELSE Hidden(s)
    /\ mapping' = Quarantined({m \in LiveNodes :
                       place[m].shows = s \/ (last /\ m = n /\ place[m].shows # Null)})
    /\ blind' = blind \ {s}
    /\ UNCHANGED <<migration, known, open, turns>>

-----------------------------------------------------------------------------
\* A user that is new begins migrated; one that is known, never.
Initialize ==
    /\ ~known /\ migration = "unmigrated"
    /\ known' = TRUE /\ migration' = "migrated"
    /\ UNCHANGED <<origin, place, mapping, open, blind, turns>>

\* From now on whoever checks a row without a partition refuses it.
StartMigration ==
    /\ migration = "unmigrated"
    /\ migration' = "migrating" /\ known' = TRUE
    /\ blind' = blind \union {t.source : t \in {u \in open : u.checked}}
    /\ UNCHANGED <<origin, place, mapping, open, turns>>

\* Nodes nobody supports go to Unassigned; then nothing may be left over.
\* Every source must have been moved by then.
Strays == {n \in LiveNodes : place[n].part = Null /\ Supports(n) = {}}

FinishMigration ==
    /\ migration = "migrating"
    /\ \A s \in Origins : origin[s].there => origin[s].part # Null
    /\ \A n \in LiveNodes \ Strays : place[n].part # Null
    /\ migration' = "migrated"
    /\ place' = [n \in NodeIds |-> IF n \in Strays THEN [place[n] EXCEPT !.part = Unassigned] ELSE place[n]]
    /\ blind' = blind \union {t.source : t \in {u \in open : u.checked /\ u.node \in Strays}}
    /\ UNCHANGED <<known, origin, mapping, open, turns>>

-----------------------------------------------------------------------------
\* A node is moved when no source but the one that moves is about it, or all
\* the others are there already.  Otherwise it is split, once for all sources.
Shared(s, n, k) == \E other \in Supports(n) \ {s} : origin[other].part # k

Replaces(n, k) ==
    mapping[n][k].state = "completed" /\ place[mapping[n][k].to].there
        /\ place[mapping[n][k].to].part = k

OpenMove(s, k) ==
    LET n == origin[s].node
        m == mapping[n][k].state
        Begin(kind, to) == open' = open \union {Begun(kind, s, k, to, n, kind = "split")}
    IN
    /\ migration # "unmigrated" /\ turns < MaxTurns /\ turns' = turns + 1
    /\ origin[s].there /\ ~Locked(s) /\ origin[s].part # k /\ ~MappingLocked(n, k)
    /\ \/ Replaces(n, k) /\ Begin("reuse", mapping[n][k].to)
       \/ /\ IF m = "none" THEN Shared(s, n, k) ELSE m \in {"completed", "pending"} /\ ~Replaces(n, k)
          /\ \E new \in NodeIds : Unused(new)
          /\ Begin("split", NewNode)
       \/ m = "none" /\ ~Shared(s, n, k) /\ Begin("move", n)
    /\ UNCHANGED <<migration, known, origin, place, mapping, blind>>

-----------------------------------------------------------------------------
\* Slip: the node of new evidence is not looked at again.
AllowedAsRead(t) ==
    /\ t.part = Null => migration = "unmigrated"
    /\ t.kind = "move" => ~Shared(t.source, t.node, t.part)

\* The deferred triggers: a partition after the migration has begun, the
\* source in the partition of its node, the node in the one of its sources.
Allowed(t) ==
    /\ t.part = Null => migration = "unmigrated"
    /\ (t.kind \in {"write", "reuse"} /\ ~t.made) =>
          (place[t.node].there /\ place[t.node].part = t.part)
    /\ t.kind = "move" => ~Shared(t.source, t.node, t.part)

Check(t) ==
    /\ t \in open /\ ~t.checked
    /\ open' = (open \ {t}) \union IF Allowed(t) THEN {[t EXCEPT !.checked = TRUE]} ELSE {}
    /\ UNCHANGED <<migration, known, origin, place, mapping, blind, turns>>

\* Slip: the node is moved and no split is reopened.
NotReopened(n, k) == mapping

\* reopen_mappings_for_replacement_partition
Reopened(n, k) ==
    [m \in NodeIds |-> [j \in Keys |->
        IF mapping[m][j].state = "completed" /\ mapping[m][j].to = n /\ j # k
        THEN [state |-> "pending"] ELSE mapping[m][j]]]

\* The presentation moves along with its source; a second one on the same
\* task cannot, and the mapping is quarantined with the one it had.
SplitOff(t) ==
    LET shown == place[t.from].shows = t.source
        had == IF t.made THEN Null ELSE place[t.node].shows
        both == shown /\ had \notin {Null, t.source}
        shows == IF both THEN Null ELSE IF shown THEN t.source ELSE had
    IN
    /\ place' = [place EXCEPT ![t.node] = Placed(t.part, shows)]
    /\ mapping' = [mapping EXCEPT ![t.from][t.part] =
                      [state |-> IF both THEN "quarantined" ELSE "completed", to |-> t.node]]

Commit(t) ==
    /\ t \in open /\ t.checked
    /\ open' = open \ {t}
    /\ origin' = [origin EXCEPT ![t.source] = About(t.part, t.node)]
    /\ CASE t.kind = "write" -> /\ place' = IF t.made THEN [place EXCEPT ![t.node] = Placed(t.part, Null)] ELSE place
                                /\ UNCHANGED mapping
         [] t.kind = "move"  -> /\ \A u \in open : ~(u.kind = "reuse" /\ u.node = t.node)
                                /\ place' = [place EXCEPT ![t.node].part = t.part]
                                /\ mapping' = Reopened(t.node, t.part)
         [] OTHER            -> SplitOff(t)
    /\ blind' = LET others == {u \in open \ {t} : u.checked /\ u.node = t.node} IN
               IF others = {} THEN blind ELSE blind \union {t.source} \union {u.source : u \in others}
    /\ UNCHANGED <<migration, known, turns>>

-----------------------------------------------------------------------------
PartitionNext ==
    \/ \E s \in Origins : Present(s) \/ Withdraw(s) \/ EraseOrigin(s)
                          \/ \E k \in Keys \union {Null} : OpenWrite(s, k)
    \/ \E s \in Origins, k \in Keys : OpenMove(s, k)
    \/ Initialize \/ StartMigration \/ FinishMigration
    \/ \E t \in open : Check(t) \/ Commit(t)

PartitionSpec == PartitionInit /\ [][PartitionNext]_partitionVars

-----------------------------------------------------------------------------
\* Evidence and what it is about are in one partition, whatever moves beside
\* it; except where two transactions about the node were both checked before
\* either was committed (drizzle/0028_dizzy_norrin_radd.sql:185-199).
NothingCrosses ==
    \A s \in Origins : origin[s].there => origin[s].part = place[origin[s].node].part \/ s \in blind

\* Once the migration is finished, nothing is left outside the partitions,
\* except what was checked before it began and committed after.
MigratedIsPartitioned ==
    migration = "migrated" =>
        /\ \A s \in Origins : origin[s].there /\ origin[s].part = Null => s \in blind
        /\ \A n \in LiveNodes : place[n].part = Null => Supports(n) \cap blind # {}

\* Wherever sources and nodes are moved, evidence stays beside what it is
\* about, and nothing is left outside the partitions when the migration ends
\* (partition-migration.ts:193-345).
PartitionsHold == NothingCrosses /\ MigratedIsPartitioned

\* The node a finished split leads to is in the partition it was made for,
\* as long as it is there (lib/partition-artifact-recovery.ts:127-166).
SplitsLeadHome ==
    \A n \in NodeIds, k \in Keys :
        mapping[n][k].state = "completed" =>
            LET to == place[mapping[n][k].to] IN to.there => to.part = k

=============================================================================
