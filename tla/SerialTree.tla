----------------------------- MODULE SerialTree -----------------------------
(***************************************************************************)
(* Containment of sources as a caller may picture it: one transaction      *)
(* after the other, each of which finds the tree as it is and changes the  *)
(* tables in one step.  A deletion command closes exactly the tree below   *)
(* its root, a move takes exactly the tree its source is in, and nothing   *)
(* is attached to what is closed or opened under a name that is retired;   *)
(* a retirement moves along with its source and also stays where it was.   *)
(* Sources are contextual ones: the partition is a part of their name.     *)
(*                                                                         *)
(* The tables, trees and changes are those of SourceTree, which adds the   *)
(* transactions that overlap, their gates and their looks at the tables,   *)
(* and must still look from outside like this.                             *)
(***************************************************************************)
EXTENDS Naturals, FiniteSets

CONSTANTS
    N,           \* sources ever created
    Partitions,
    Ingested,    \* names that are ingested or retired
    Commands,    \* caller-chosen ids of deletion commands
    MaxVersion   \* revisions of one source

\* What the constants are assumed to be.
ASSUME SerialAssumption ==
    /\ N \in Nat
    /\ MaxVersion \in Nat \ {0, 1}  \* a tombstone is a new version
    /\ Partitions # {}
    /\ Ingested \subseteq (1 .. N) \X Partitions

VARIABLES
    source,   \* the rows of sources
    tomb,     \* source_tombstones
    record,   \* source_lifecycle_commands
    retired,  \* source_identity_tombstones
    moved     \* whether a source was ever given another parent

tables == <<source, tomb, record, retired, moved>>

-----------------------------------------------------------------------------
Sources == 1 .. N
Root == 0             \* no parent

\* An external id, a number here, with the partition that is worked into it.
Names == Sources \X Partitions
Name(i) == <<source[i].base, source[i].partition>>

NoRecord == [action |-> "none"]

Requests == [command : Commands, action : {"tombstone", "restore", "purge"},
             root : Sources, partition : Partitions, version : 1 .. MaxVersion]

Exists(i) == source[i].row \in {"live", "erased"}

LiveSource(i) == source[i].row = "live" /\ tomb[i] = "none"

Blank == [row |-> "none", parent |-> Root,
          partition |-> CHOOSE a \in Partitions : TRUE,
          base |-> 1, version |-> 1]

\* Some forest of sources in one partition, some trees of it tombstoned.
Forest(count, parent, erased) ==
    /\ \A i \in 1 .. count : parent[i] < i
    /\ \A i \in 1 .. count : parent[i] \in erased => i \in erased
    /\ source = [i \in Sources |->
                   IF i > count THEN Blank
                   ELSE [Blank EXCEPT !.row = IF i \in erased THEN "erased" ELSE "live",
                                      !.base = i, !.parent = parent[i]]]
    /\ tomb = [i \in Sources |-> IF i \in erased THEN "tombstoned" ELSE "none"]

SerialInit ==
    /\ \E count \in 0 .. N :
          \E parent \in [1 .. count -> 0 .. N], erased \in SUBSET (1 .. count) :
             Forest(count, parent, erased)
    /\ record = [c \in Commands |-> NoRecord]
    /\ retired \in SUBSET Ingested /\ Cardinality(retired) <= 1
    /\ moved = FALSE

-----------------------------------------------------------------------------
(* Trees, as one query sees them.                                          *)

\* With a source, all directly below it; with a source, the one above it.
WithChildren(S) == \A j \in Sources : Exists(j) /\ source[j].parent \in S => j \in S
WithParents(S) == \A j \in S : Exists(j) /\ source[j].parent # Root => source[j].parent \in S

\* A source that exists and all below it: what a recursive query returns, the
\* least set with its root and with its children.
Tree(i) ==
    {j \in Sources : /\ Exists(i) /\ Exists(j)
                     /\ \A S \in SUBSET Sources : i \in S /\ WithChildren(S) => j \in S}

\* And all above it.
Ancestors(i) ==
    {j \in Sources : /\ Exists(j)
                     /\ \A S \in SUBSET Sources : i \in S /\ WithParents(S) => j \in S}

\* What moves to another partition together: all above, and all below those
\* of them that have no parent.
WholeTree(i) ==
    Ancestors(i) \union
    UNION {Tree(j) : j \in {k \in Ancestors(i) : source[k].parent = Root
                                                \/ ~Exists(source[k].parent)}}

-----------------------------------------------------------------------------
(* Changes to the tables.                                                  *)

Expected(req) == /\ source[req.root].partition = req.partition
                 /\ source[req.root].version = req.version

\* tombstone asks for a live root, restore for a tombstoned one, purge for any
\* tombstone that is not purged.
Applies(req) ==
    CASE req.action = "tombstone" -> LiveSource(req.root)
      [] req.action = "restore" -> tomb[req.root] = "tombstoned"
      [] req.action = "purge" -> tomb[req.root] \in {"tombstoned", "restored"}

\* Rows, read models and a tombstone for every source of the tree; a tombstone
\* that a child has of its own stays.
Erase(S) ==
    /\ source' = [i \in Sources |->
                    IF i \in S /\ source[i].row = "live"
                    THEN [source[i] EXCEPT !.row = "erased", !.version = @ + 1]
                    ELSE source[i]]
    /\ tomb' = [i \in Sources |->
                  IF i \in S /\ tomb[i] = "none" THEN "tombstoned" ELSE tomb[i]]

\* Deleted rows free their names; the tombstones stay.
Finalize(S, state) ==
    /\ source' = [i \in Sources |->
                    IF i \in S THEN [Blank EXCEPT !.row = "gone"] ELSE source[i]]
    /\ tomb' = [i \in Sources |->
                  IF i \in S /\ tomb[i] # "none" THEN state ELSE tomb[i]]

Apply(req, S) ==
    /\ record[req.command] = NoRecord
    /\ Expected(req) /\ Applies(req)
    /\ record' = [record EXCEPT ![req.command] = req]
    /\ CASE req.action = "tombstone" -> Erase(S)
         [] req.action = "restore" -> Finalize(S, "restored")
         [] req.action = "purge" -> Finalize(S, "purged")
    /\ UNCHANGED <<retired, moved>>

\* Slip: the youngest first.
YoungestFirst(want) == {g \in want : \A h \in want : h <= g}

\* The oldest, alone in a set.
First(want) == {g \in want : \A h \in want : g <= h}

\* assertLiveSourceParents, and the database's own triggers.
MayHold(parent, partition) ==
    parent # Root => LiveSource(parent) /\ source[parent].partition = partition

Taken(name) == \E i \in Sources : Exists(i) /\ Name(i) = name

Fresh == {i \in Sources : source[i].row = "none"}

MayInsert(name, parent) == MayHold(parent, name[2]) /\ ~Taken(name) /\ Fresh # {}

Attach(name, parent) ==
    /\ MayInsert(name, parent)
    /\ \E i \in First(Fresh) :
          source' = [source EXCEPT ![i] =
                       [row |-> "live", parent |-> parent, version |-> 1,
                        base |-> name[1], partition |-> name[2]]]
    /\ UNCHANGED <<tomb, record, retired, moved>>

MayAmend(i, parent) ==
    /\ LiveSource(i) /\ Name(i) \notin retired
    /\ MayHold(parent, source[i].partition)
    /\ source[i].version < MaxVersion - 1

\* A new content, with another parent, the same one or none.
Amend(i, parent) ==
    /\ source' = [source EXCEPT ![i].parent = parent, ![i].version = @ + 1]
    /\ moved' = (moved \/ source[i].parent # parent)
    /\ UNCHANGED <<tomb, record, retired>>

Renamed(i, partition) == <<source[i].base, partition>>

MayMove(root, partition, S) ==
    /\ tomb[root] = "none"
    /\ \A i \in S : /\ source[i].row = "live"
                    /\ source[i].version < MaxVersion - 1
                    /\ source[i].partition # partition
                    /\ ~Taken(Renamed(i, partition))
                    /\ Renamed(i, partition) \notin retired

\* A parent outside what moves is let go.
Relocated(i, S, partition) ==
    [source[i] EXCEPT !.partition = partition, !.version = @ + 1,
                      !.parent = IF @ \in S THEN @ ELSE Root]

\* The deferred triggers: at the commit a child lies with its parent.
Consistent(src) ==
    \A i \in Sources :
        src[i].row \in {"live", "erased"} /\ src[i].parent # Root
        => src[src[i].parent].partition = src[i].partition

Relocation(S, partition) ==
    [i \in Sources |-> IF i \in S THEN Relocated(i, S, partition) ELSE source[i]]

\* A retired name takes its retirement along; late requests still use the old
\* one, which stays retired.
Retirements(S, partition) ==
    {Renamed(i, partition) : i \in {j \in S : Name(j) \in retired}}

Relocate(partition, S) ==
    LET after == Relocation(S, partition)
    IN  /\ source' = after
        /\ Consistent(after)
        /\ moved' = (moved \/ \E i \in Sources : after[i].parent # source[i].parent)
        /\ retired' = retired \union Retirements(S, partition)
        /\ UNCHANGED <<tomb, record>>

-----------------------------------------------------------------------------
(* Transactions one after the other.                                       *)

\* Sources that are there, with the root and every live child.
Closed(i, S) ==
    /\ i \in S /\ \A j \in S : Exists(j)
    /\ \A j \in Sources : source[j].row = "live" /\ source[j].parent \in S => j \in S

\* A source that was given another parent while a tree was collected may still
\* be closed with the tree it left.
SerialCommand(req, S) ==
    /\ Apply(req, S)
    /\ Closed(req.root, S)
    /\ moved \/ S = Tree(req.root)

SerialInsert(name, parent) == name \notin retired /\ Attach(name, parent)

SerialRevise(i, parent) == MayAmend(i, parent) /\ Amend(i, parent)

SerialMove(i, partition, S) ==
    /\ i \in S
    /\ MayMove(i, partition, S)
    /\ Relocate(partition, S)
    /\ moved \/ S = WholeTree(i)

SerialRetirement(name) ==
    /\ retired' \in {retired \union {name}, retired \ {name}}
    /\ UNCHANGED <<source, tomb, record, moved>>

\* What is refused, or answered from the record, changes nothing.
SerialLook == UNCHANGED tables

SerialNext ==
    \/ SerialLook
    \/ \E req \in Requests, S \in SUBSET Sources : SerialCommand(req, S)
    \/ \E name \in Names, parent \in Sources \union {Root} : SerialInsert(name, parent)
    \/ \E i \in Sources, parent \in Sources \union {Root} : SerialRevise(i, parent)
    \/ \E i \in Sources, partition \in Partitions, S \in SUBSET Sources :
          SerialMove(i, partition, S)
    \/ \E name \in Ingested : SerialRetirement(name)

\* Transactions that overlap leave the tables as if each ran alone: a deletion
\* command closes the tree below its root as it is when it commits, a move takes
\* the tree its source is in, and nothing is attached to what is closed or opened
\* under a retired name (loadAndLockSourceTree, applySourceLifecycleCommand,
\* insertSources, reclassifySourcePartition).
SerialSpec == SerialInit /\ [][SerialNext]_tables

=============================================================================
