------------------------------ MODULE MCGraph ------------------------------
(***************************************************************************)
(* Small instances of what becomes of the graph: the merges of nodes, the  *)
(* moves between partitions, and the sweeps that prune.  In the models     *)
(* they share no state, so a behaviour is one of one of them, the `focus`; *)
(* the others stay where they begin.                                       *)
(***************************************************************************)
EXTENDS NodeMerge, PartitionMoves, GraphPruning, TLC

VARIABLE focus

graphVars == <<focus, nodeVars, partitionVars, pruneVars>>

\* Where sources about one node have been written, and one of them may present
\* it, before the migration, in it or after it: what is reached from
\* PartitionInit, too, but later.
PartitionUnderway ==
    /\ migration \in {"unmigrated", "migrating", "migrated"} /\ known = TRUE
    /\ NodeIds # {}
    /\ LET k == IF migration = "migrated" THEN Unassigned ELSE Null
           n == CHOOSE m \in NodeIds : TRUE
       IN
       \E written \in SUBSET Origins \ {{}} :
          /\ origin = [s \in Origins |-> IF s \in written THEN About(k, n) ELSE Absent]
          /\ \E shows \in written \union {Null} :
                place = [m \in NodeIds |-> IF m = n THEN Placed(k, shows) ELSE Absent]
    /\ mapping = [n \in NodeIds |-> [k \in Keys |-> NoMap]]
    /\ open = {} /\ blind = {} /\ turns = 0

\* One node may be anything, with claims if it is old and not the user; the
\* others are people long known; and the source is looked at beside those only.
Pruned == CHOOSE n \in Things : TRUE
Acquaintance == [there |-> TRUE, task |-> FALSE, age |-> Max(Ages), mark |-> FALSE, alias |-> FALSE]
InStore == [live |-> TRUE, version |-> 0, stored |-> TRUE, child |-> FALSE]

PruneFrom ==
    /\ PruneInit
    /\ \A n \in Things \ {Pruned} : thing[n] = Acquaintance
    /\ \A c \in Notes : note[c].there =>
          note[c].ends = {Pruned} /\ thing[Pruned].age >= MinIdle /\ ~thing[Pruned].mark
    /\ upload # InStore \/ focus # "pruning" =>
          thing[Pruned] = Acquaintance /\ \A c \in Notes : note[c] = NoNote
    /\ focus # "pruning" => upload = InStore

GraphInit ==
    /\ focus \in {"nodes", "partitions", "pruning"}
    /\ NodeInit /\ PruneFrom
    /\ PartitionInit \/ (focus = "partitions" /\ PartitionUnderway)

\* One sweep in a behaviour, and others write beside it: what they write before
\* it is among the states it begins in.
GraphNext ==
    \/ focus = "nodes" /\ NodeNext /\ UNCHANGED <<focus, partitionVars, pruneVars>>
    \/ focus = "partitions" /\ PartitionNext /\ UNCHANGED <<focus, nodeVars, pruneVars>>
    \/ /\ focus = "pruning" /\ PruneNext /\ (sweep.at = "idle" => writes = 0)
       /\ UNCHANGED <<focus, nodeVars, partitionVars>>

GraphSpec == GraphInit /\ [][GraphNext]_graphVars

\* What partitionVars are when the sources change their names.
UnderNames(f) ==
    LET New(s) == IF s \in Origins THEN f[s] ELSE s IN
    <<migration, known, mapping, turns, {<<f[s], origin[s]>> : s \in Origins},
      [n \in NodeIds |-> IF place[n].there THEN [place[n] EXCEPT !.shows = New(@)] ELSE place[n]],
      {[t EXCEPT !.source = New(@)] : t \in open}, {New(s) : s \in blind}>>

\* How many times each claim occurs: claims are interchangeable.
Counted(f) == {<<f[x], Cardinality({y \in DOMAIN f : f[y] = f[x]})>> : x \in DOMAIN f}

View ==
    CASE focus = "nodes" -> nodeVars
      [] focus = "partitions" -> {UnderNames(f) : f \in Permutations(Origins)}
      [] focus = "pruning" -> IF sweep.at = "idle" /\ writes > 0 THEN <<"over">>
                              ELSE <<thing, Counted(note), named, upload, sweep, writes>>

-----------------------------------------------------------------------------
\* Each row of the tables behind the graph is one the code can write
\* (db/schema.ts, drizzle/0028_dizzy_norrin_radd.sql).
GraphTypeOK ==
    CASE focus = "nodes" -> NodeTypeOK
      [] focus = "partitions" -> PartitionTypeOK
      [] focus = "pruning" -> PruneTypeOK

=============================================================================
