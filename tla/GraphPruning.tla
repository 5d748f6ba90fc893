---------------------------- MODULE GraphPruning ----------------------------
(***************************************************************************)
(* The two sweeps that delete nodes of little worth, and the sources whose *)
(* bytes the store has lost (jobs/prune-orphan-nodes.ts,                   *)
(* jobs/prune-stale-nodes.ts, jobs/recover-statusless-commitments.ts, and  *)
(* the user's own identity, user-self-identity.ts and user-profile.ts).    *)
(*                                                                         *)
(* A sweep selects, locks what it has selected - the nodes, then the rows  *)
(* that speak for them - looks again, and deletes; the row of the user,    *)
(* which it holds throughout, makes another one wait.  Statements read     *)
(* what is committed when they begin.  The transactions of everyone else   *)
(* are one step each: they keep their locks until they commit, and a row   *)
(* that refers to a node cannot be inserted while the node is locked.      *)
(*                                                                         *)
(* Ages are days before now.  Scores are in hundredths; that the code      *)
(* rounds them is left out.  A sweep takes no more than its limit of the   *)
(* candidates; which ones, the model leaves open.                          *)
(***************************************************************************)
EXTENDS Naturals, FiniteSets, FiniteSetsExt

CONSTANTS
    Things,      \* nodes
    Notes,       \* claims
    Ages,        \* of nodes and claims
    MinIdle,     \* minIdleDays and olderThanDays
    Horizon,     \* stalenessHorizonDays
    Threshold,   \* the score from which a node is disposable
    NoThing,     \* nobody
    MaxWrites    \* transactions of others

ASSUME PruneAssumption ==
    /\ IsFiniteSet(Things) /\ IsFiniteSet(Notes) /\ NoThing \notin Things
    /\ Ages \subseteq Nat /\ 0 \in Ages /\ \E oldest \in Ages : \A g \in Ages : g <= oldest
    /\ MinIdle \in Nat /\ Horizon \in Nat \ {0}
    /\ Threshold \in 0 .. 100 /\ MaxWrites \in Nat

VARIABLES
    thing,   \* the rows of nodes: type, age, self marker, alias
    note,    \* the rows of claims
    named,   \* nodes of which an alias is among the user's own names
    upload,  \* one leaf of the sources: live, version, bytes in the store
    sweep,   \* the sweep under way
    writes

pruneVars == <<thing, note, named, upload, sweep, writes>>

-----------------------------------------------------------------------------
\* What a claim says: that a task is still to be done, as the user said or the
\* assistant guessed; something somebody stated, or inferred; or what a
\* reference work says.
Kinds == {"asked", "guessed", "stated", "inferred", "reference"}

OpenStatus == {"asked", "guessed"}
Ungrounded == {"guessed", "inferred"}

NoNote == [there |-> FALSE, ever |-> FALSE]
RemovedNote == [there |-> FALSE, ever |-> TRUE]
Free(c) == note[c] = NoNote
Note(kind, ends, by, age) ==
    [there |-> TRUE, kind |-> kind, ends |-> ends, by |-> by, age |-> age, active |-> TRUE]

There(n) == thing[n].there
AnyOf(n) == {c \in Notes : note[c].there /\ (n \in note[c].ends \/ note[c].by = n)}
On(n) == {c \in Notes : note[c].there /\ n \in note[c].ends}
Active(n) == {c \in On(n) : note[c].active}

\* The sweep has locked the node.
HoldsNode(n) == sweep.at \in {"rows", "look", "delete"} /\ n \in sweep.chosen

\* Slip: an update does not refer to the node, but the claim is left alone.
HoldsNone(c) == FALSE

\* And the claims about it: their updates do not touch the node.
HoldsNote(c) == sweep.at \in {"look", "delete"} /\ c \in UNION {AnyOf(n) : n \in sweep.chosen}
HoldsSelf == sweep.kind = "stale" /\ sweep.at # "idle"
HoldsUpload == sweep.kind = "orphan" /\ sweep.at \in {"select", "nodes", "rows", "look", "delete"}
                                     /\ sweep.suspect

PruneTypeOK ==
    /\ \A n \in Things : ~There(n) \/ (thing[n].age \in Ages /\ (thing[n].mark => ~thing[n].task))
    /\ \A c \in Notes : note[c].there =>   \* the foreign keys of claims
          /\ note[c].kind \in Kinds /\ note[c].age \in Ages
          /\ note[c].ends # {} /\ \A n \in note[c].ends : There(n)
          /\ note[c].by = NoThing \/ There(note[c].by)
    /\ named \subseteq Things /\ writes \in 0 .. MaxWrites
    /\ sweep.at \in {"idle", "list", "begin", "select", "nodes", "rows", "look", "delete"}
    /\ sweep.chosen \subseteq Things /\ sweep.fresh \subseteq sweep.chosen

Quiet == [at |-> "idle", kind |-> "none", chosen |-> {}, fresh |-> {},
          suspect |-> FALSE, version |-> 0]

-----------------------------------------------------------------------------
(* What a sweep may delete.                                                *)

\* No claim names it, not even as the one who asserted it; no alias leads to
\* it; and it is not the user.
OrphanCandidate(n) ==
    /\ There(n) /\ thing[n].age > MinIdle
    /\ AnyOf(n) = {} /\ ~thing[n].alias /\ ~thing[n].mark

\* An open task, and the user.
IsProtected(n) ==
    \/ \E c \in Active(n) : note[c].kind \in OpenStatus
    \/ thing[n].mark
    \/ thing[n].alias /\ n \in named

Idleness(n) == Min({thing[n].age} \union {note[c].age : c \in On(n)})

\* 40 for idleness, 25 for isolation, 20 for nothing grounded and 15 for what
\* was superseded, times the denominators.
ScoresAtLeast(n, threshold) ==
    LET links == 1 + Cardinality(Active(n))
        total == IF On(n) = {} THEN 1 ELSE Cardinality(On(n))
        over == IF On(n) = {} THEN 1 ELSE Cardinality(On(n) \ Active(n))
        idle == Min({Idleness(n), Horizon})
        weak == IF \E c \in Active(n) : note[c].kind \notin Ungrounded THEN 0 ELSE 1
    IN  40 * idle * links * total + 25 * Horizon * total
          + 20 * weak * Horizon * links * total + 15 * over * Horizon * links
        >= threshold * Horizon * links * total

IsReference(n) ==
    /\ \E c \in Active(n) : note[c].kind = "reference"
    /\ \A c \in Active(n) : note[c].kind = "reference"

StaleCandidate(n) ==
    /\ There(n) /\ ~IsProtected(n) /\ ~IsReference(n)
    /\ Idleness(n) >= MinIdle /\ ScoresAtLeast(n, Threshold)

Candidate(n) == IF sweep.kind = "orphan" THEN OrphanCandidate(n) ELSE StaleCandidate(n)

-----------------------------------------------------------------------------
(* The sweeps.                                                             *)

\* scanMissingBlobSources: no transaction is open while the store is asked.
ScanUploads ==
    /\ sweep.at = "idle"
    /\ sweep' = [Quiet EXCEPT !.at = "list", !.kind = "orphan", !.version = upload.version,
                              !.suspect = upload.live]
    /\ UNCHANGED <<thing, note, named, upload, writes>>

ListUploads ==
    /\ sweep.at = "list"
    /\ sweep' = [sweep EXCEPT !.at = "begin", !.suspect = @ /\ ~upload.stored]
    /\ UNCHANGED <<thing, note, named, upload, writes>>

\* The row under its lock is the one that was scanned.
UnchangedSince == upload.live /\ upload.version = sweep.version

\* tombstoneMissingBlobSources.  When the row has changed the whole sweep
\* fails; a parent keeps its row.
TombstoneMissing ==
    /\ sweep.at = "begin"
    /\ IF sweep.suspect /\ ~UnchangedSince
       THEN sweep' = Quiet /\ UNCHANGED upload
       ELSE /\ sweep' = [sweep EXCEPT !.at = "select"]
            /\ upload' = IF sweep.suspect /\ ~upload.child THEN [upload EXCEPT !.live = FALSE] ELSE upload
    /\ UNCHANGED <<thing, note, named, writes>>

\* The stale sweep begins with the gate of the user's identity.
BeginStale ==
    /\ sweep.at = "idle"
    /\ sweep' = [Quiet EXCEPT !.at = "select", !.kind = "stale"]
    /\ UNCHANGED <<thing, note, named, upload, writes>>

Select ==
    /\ sweep.at = "select"
    /\ LET found == {n \in Things : Candidate(n)} IN
       \/ \E some \in SUBSET found \ {{}} :
             sweep' = [sweep EXCEPT !.at = "nodes", !.chosen = some]
       \/ found = {} /\ sweep' = Quiet
    /\ UNCHANGED <<thing, note, named, upload, writes>>

LockNodes ==
    /\ sweep.at = "nodes"
    /\ sweep' = [sweep EXCEPT !.at = "rows", !.chosen = {n \in @ : There(n)}]
    /\ UNCHANGED <<thing, note, named, upload, writes>>

\* Claims, metadata and aliases of the nodes that are there.
LockRows ==
    /\ sweep.at = "rows"
    /\ sweep' = [sweep EXCEPT !.at = "look"]
    /\ UNCHANGED <<thing, note, named, upload, writes>>

LookAgain ==
    /\ sweep.at = "look"
    /\ sweep' = [sweep EXCEPT !.at = "delete", !.fresh = {n \in sweep.chosen : Candidate(n)}]
    /\ UNCHANGED <<thing, note, named, upload, writes>>

\* The foreign keys: a claim goes with its subject or object, and forgets who
\* asserted it.
Cascaded(gone) ==
    [c \in Notes |-> IF ~note[c].there THEN note[c]
                     ELSE IF note[c].ends \cap gone # {} THEN RemovedNote
                     ELSE IF note[c].by \in gone THEN [note[c] EXCEPT !.by = NoThing]
                     ELSE note[c]]

\* The delete of the orphan sweep asks once more.
DeleteNodes ==
    /\ sweep.at = "delete"
    /\ LET gone == IF sweep.kind = "orphan" THEN {n \in sweep.fresh : OrphanCandidate(n)}
                   ELSE sweep.fresh
       IN  /\ thing' = [n \in Things |-> IF n \in gone THEN [there |-> FALSE] ELSE thing[n]]
           /\ note' = Cascaded(gone)
    /\ sweep' = Quiet
    /\ UNCHANGED <<named, upload, writes>>

-----------------------------------------------------------------------------
(* Everyone else.                                                          *)

Write == writes < MaxWrites /\ writes' = writes + 1

\* Extraction, createClaim: a status is of a task.
InsertNote(kind, ends, by, age) ==
    /\ Write
    /\ \E c \in Notes : Free(c)
    /\ \A n \in (ends \union {by}) \ {NoThing} : There(n) /\ ~HoldsNode(n)
    /\ kind \in OpenStatus => \E n \in ends : ends = {n} /\ thing[n].task
    /\ note' = [note EXCEPT ![CHOOSE c \in Notes : Free(c)] = Note(kind, ends, by, age)]
    /\ UNCHANGED <<thing, named, upload, sweep>>

\* The lifecycle passes supersede claims and make them active again.
UpdateNote(c) ==
    /\ Write
    /\ note[c].there /\ ~HoldsNote(c)
    /\ note' = [note EXCEPT ![c].active = ~@]
    /\ UNCHANGED <<thing, named, upload, sweep>>

\* createAlias and deleteAlias.
Alias(n) ==
    /\ Write
    /\ There(n) /\ ~HoldsNode(n)
    /\ thing' = [thing EXCEPT ![n].alias = ~@]
    /\ UNCHANGED <<note, named, upload, sweep>>

\* setUserSelfAliases, in one transaction under the gate: the profile lists
\* other names, and the node that is marked as the user receives them.
SetUserSelfAliases(names) ==
    /\ Write
    /\ ~HoldsSelf
    /\ \A n \in Things : There(n) /\ thing[n].mark => ~HoldsNode(n)
    /\ named' = names
    /\ thing' = [n \in Things |-> IF There(n) /\ thing[n].mark THEN [thing[n] EXCEPT !.alias = TRUE]
                                  ELSE thing[n]]
    /\ UNCHANGED <<note, upload, sweep>>

\* recoverStatuslessCommitments: a task that never had a status, as the query
\* sees it, is given one.
RecoverStatus(n) ==
    /\ There(n) /\ thing[n].task
    /\ \A d \in On(n) : note[d].kind \notin OpenStatus
    /\ InsertNote("guessed", {n}, NoThing, 0)

\* A file is replaced: the row stays locked from before the PUT until it is
\* acknowledged.
ReplaceUpload ==
    /\ Write
    /\ upload.live /\ ~HoldsUpload
    /\ upload' = [upload EXCEPT !.stored = TRUE, !.version = @ + 1]
    /\ UNCHANGED <<thing, note, named, sweep>>

\* A child is attached under the gate of the parent, which the tombstone takes.
AttachToUpload ==
    /\ Write
    /\ upload.live /\ ~upload.child /\ ~HoldsUpload
    /\ upload' = [upload EXCEPT !.child = TRUE]
    /\ UNCHANGED <<thing, note, named, sweep>>

\* The store loses an object.
LoseBytes ==
    /\ Write
    /\ upload.stored
    /\ upload' = [upload EXCEPT !.stored = FALSE]
    /\ UNCHANGED <<thing, note, named, sweep>>

-----------------------------------------------------------------------------
OfLongAgo(kind, n, active) ==
    [Note(kind, {n}, NoThing, Max(Ages)) EXCEPT !.active = active]

\* Nodes old and new, with claims of long ago that may have been superseded,
\* and a source whose bytes may be lost.
PruneInit ==
    /\ thing \in [Things -> {[there |-> TRUE, task |-> t, age |-> g, mark |-> m, alias |-> l] :
                                t \in BOOLEAN, g \in Ages, m \in BOOLEAN, l \in BOOLEAN}]
    /\ \A n \in Things : thing[n].mark => ~thing[n].task
    /\ note \in [Notes -> {NoNote} \union
                   {OfLongAgo(k, n, a) : k \in Kinds, n \in Things, a \in BOOLEAN}]
    /\ \A c \in Notes : note[c].there /\ note[c].kind \in OpenStatus =>
                           \A n \in note[c].ends : thing[n].task
    /\ named = {}
    /\ upload \in {[live |-> TRUE, version |-> 0, stored |-> b, child |-> c] :
                      b \in BOOLEAN, c \in BOOLEAN}
    /\ sweep = Quiet /\ writes = 0

PruneNext ==
    \/ ScanUploads \/ ListUploads \/ TombstoneMissing
    \/ BeginStale \/ Select \/ LockNodes \/ LockRows \/ LookAgain \/ DeleteNodes
    \/ \E kind \in Kinds, s, o \in Things, by \in Things \union {NoThing}, age \in Ages :
          InsertNote(kind, {s, o}, by, age)
    \/ \E c \in Notes : UpdateNote(c)
    \/ \E n \in Things : Alias(n) \/ RecoverStatus(n)
    \/ \E names \in SUBSET Things : SetUserSelfAliases(names)
    \/ ReplaceUpload \/ AttachToUpload \/ LoseBytes

PruneSpec == PruneInit /\ [][PruneNext]_pruneVars

-----------------------------------------------------------------------------
\* Whatever is written while a sweep selects, locks and looks again: the node
\* it deletes is disposable in the state that is committed with the deletion,
\* by every claim, alias and name that counts by then (prune-orphan-nodes.ts:477,
\* prune-stale-nodes.ts:303).  And a source is only given up while the store
\* has no bytes of it, and no child.
DisposableWhenPruned ==
    /\ \A n \in Things : There(n) /\ ~thing'[n].there =>
          IF sweep.kind = "orphan" THEN OrphanCandidate(n) ELSE StaleCandidate(n)
    /\ upload.live /\ ~upload'.live => ~upload.stored /\ ~upload.child

OnlyDisposableIsPruned == [][DisposableWhenPruned]_pruneVars

=============================================================================
