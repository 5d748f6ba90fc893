----------------------------- MODULE NodeMerge -----------------------------
(***************************************************************************)
(* Nodes that turn out to be one: mergeNodes with its redirects, the       *)
(* nightly sweep over equal labels, deletion, and the claims and citations *)
(* that must follow (node.ts, node-redirects.ts, jobs/dedup-sweep.ts,      *)
(* jobs/cleanup-graph.ts, resolve-citations.ts).                           *)
(*                                                                         *)
(* The nodes to merge are read before the transaction begins.  In it, each *)
(* group of statements that reads anew is a step: claims, redirects, and   *)
(* the deletion with the commit behind it, from which on the row of a      *)
(* consumed node is out of everyone's reach.  A foreign key makes a writer *)
(* share the node it refers to until it commits, and a deletion waits for  *)
(* those who share.  PostgreSQL breaks a circle of waits by a Rollback.    *)
(*                                                                         *)
(* A claim is about a subject, and an object or a value; claims of a value *)
(* are single-valued (a task's status), and source, speaker, scope and     *)
(* partition are the same for all.  Claims count up with creation.         *)
(***************************************************************************)
EXTENDS Naturals, FiniteSets

CONSTANTS
    Nodes,
    None,       \* no node, or no value
    MaxFacts,   \* claims ever inserted
    Values,     \* values of the single-valued predicate
    MaxOpen,    \* transactions at the same time
    MaxOpened   \* and ever

\* What the constants are assumed to be.
ASSUME NodeAssumption ==
    /\ IsFiniteSet(Nodes) /\ None \notin Nodes
    /\ MaxFacts \in Nat /\ MaxOpen \in Nat /\ MaxOpened \in Nat

VARIABLES
    node,      \* whether a node is there, and what became of it
    into,      \* the node that took it in
    fact,      \* the rows of claims
    redirect,  \* node_redirects: from, to
    tx,        \* transactions under way
    torn,      \* nodes consumed while someone else's writing depended on them
    opened

nodeVars == <<node, into, fact, redirect, tx, torn, opened>>

-----------------------------------------------------------------------------
Facts == 1 .. MaxFacts

LiveNode(n) == node[n] = "live"
Stored(c) == fact[c].state = "stored"
Refers(c) == {fact[c].subject, fact[c].object} \ {None}

NoFact == [state |-> "none"]
Inserted == Cardinality({c \in Facts : fact[c] # NoFact})

\* No claim and no redirect points to a node that is gone, and a node that is
\* there is not redirected.
NodeTypeOK ==
    /\ node \in [Nodes -> {"live", "merged", "swept", "deleted"}]
    /\ into \in [Nodes -> Nodes \union {None}]
    /\ redirect \in [Nodes -> Nodes \union {None}]
    /\ \A n \in Nodes : redirect[n] # None => ~LiveNode(n) /\ LiveNode(redirect[n])
    /\ \A c \in Facts : fact[c] = NoFact \/
          /\ fact[c].state \in {"stored", "loop", "duplicate", "lost"}
          /\ Stored(c) => \A n \in Refers(c) : LiveNode(n)
          /\ fact[c].active \in BOOLEAN /\ fact[c].raced \in BOOLEAN
    /\ \A t, u \in tx : t # u => t.rows \cap u.rows = {}
    /\ Cardinality(tx) <= MaxOpen /\ torn \subseteq Nodes /\ opened \in 0 .. MaxOpened

NodeInit ==
    /\ node = [n \in Nodes |-> "live"]
    /\ into = [n \in Nodes |-> None]
    /\ fact = [c \in Facts |-> NoFact]
    /\ redirect = [n \in Nodes |-> None]
    /\ tx = {}
    /\ torn = {}
    /\ opened = 0

-----------------------------------------------------------------------------
\* `rows` are claims locked, `links` redirects locked, `shares` nodes whose
\* deletion must wait.
NewTx == [id |-> CHOOSE k \in 1 .. MaxOpen : \A t \in tx : t.id # k,
          kind |-> "none", at |-> "begun", keep |-> None, gone |-> {},
          new |-> NoFact, moved |-> {}, loops |-> {}, doubles |-> {},
          rows |-> {}, links |-> {}, shares |-> {}]

MayOpen == Cardinality(tx) < MaxOpen /\ opened < MaxOpened

BeginTx(t) ==
    /\ tx' = tx \union {t}
    /\ opened' = opened + 1
    /\ UNCHANGED <<node, into, fact, redirect, torn>>

\* mergeNodes reads its nodes outside the transaction.
BeginMerge(keep, gone) ==
    /\ gone # {} /\ keep \notin gone
    /\ \A n \in gone \union {keep} : LiveNode(n)
    /\ BeginTx([NewTx EXCEPT !.kind = "merge", !.keep = keep, !.gone = gone])

\* The sweep keeps the older of two that it found with one label; either may
\* be the older.
BeginSweep(keep, n) ==
    /\ keep # n /\ LiveNode(keep) /\ LiveNode(n)
    /\ BeginTx([NewTx EXCEPT !.kind = "sweep", !.keep = keep, !.gone = {n}])

\* A claim of a value or of another node; its row is there for others once
\* its transaction commits.
BeginFact(subject, object, value) ==
    /\ \A n \in {subject, object} \ {None} : LiveNode(n)
    /\ Inserted + Cardinality({t \in tx : t.kind = "insert"}) < MaxFacts
    /\ BeginTx([NewTx EXCEPT !.kind = "insert",
                             !.shares = {subject, object} \ {None},
                             !.new = [state |-> "stored", subject |-> subject,
                                      object |-> object, value |-> value,
                                      first |-> <<subject, object>>,
                                      active |-> TRUE, raced |-> FALSE]])

\* The lifecycle pass that follows an insertion, here with it: an older value
\* is superseded.
CommitFact(t) ==
    LET id == Inserted + 1
        raced == \E u \in tx : u.gone \cap t.shares # {}
    IN  /\ t.kind = "insert"
        /\ fact' = [c \in Facts |->
              IF c = id THEN [t.new EXCEPT !.raced = raced]
              ELSE IF Stored(c) /\ t.new.object = None /\ fact[c].object = None
                      /\ fact[c].subject = t.new.subject
                   THEN [fact[c] EXCEPT !.active = FALSE]
                   ELSE fact[c]]
        /\ tx' = tx \ {t}
        /\ UNCHANGED <<node, into, redirect, torn, opened>>

-----------------------------------------------------------------------------
\* A claim as t leaves it.
To(t, n) == IF n \in t.gone THEN t.keep ELSE n
Image(t, c) == <<To(t, fact[c].subject), To(t, fact[c].object), fact[c].value>>

Moved(t) == {c \in Facts : Stored(c) /\ Refers(c) \cap t.gone # {}}

\* Slip: of two equal claims each is the other's duplicate.
EachOther(t) ==
    {c \in Facts : Stored(c) /\ \E d \in Facts \ {c} :
        Stored(d) /\ Image(t, d) = Image(t, c)}

\* Whatever became of it since, the older of two equal claims is kept; the
\* statement looks at all claims of the user.
Duplicates(t) ==
    {c \in Facts : Stored(c) /\ \E d \in Facts :
        d < c /\ Stored(d) /\ Image(t, d) = Image(t, c)}

Loops(t) == {c \in Facts : Stored(c) /\ To(t, fact[c].subject) = t.keep
                                     /\ To(t, fact[c].object) = t.keep}

Others(t) == tx \ {t}

\* The claims that are committed by now, whose rows nobody else holds; and the
\* source links, of which every node has one, so that the survivor is shared.
Rewire(t) ==
    LET moved == Moved(t)
        rows  == moved \union Loops(t) \union Duplicates(t)
    IN  /\ t.kind \in {"merge", "sweep"} /\ t.at = "begun"
        /\ \A u \in Others(t) : u.rows \cap rows = {}
        /\ LiveNode(t.keep)
        /\ tx' = Others(t) \union
              {[t EXCEPT !.at = "rewired", !.moved = moved, !.loops = Loops(t),
                         !.doubles = Duplicates(t) \ Loops(t), !.rows = rows,
                         !.shares = {t.keep}]}
        /\ UNCHANGED <<node, into, fact, redirect, torn, opened>>

\* Slip: older redirects are left to point to the consumed node.
ChainsLeft(t) == {}

Chains(t) == {n \in Nodes : redirect[n] \in t.gone}

\* writeNodeRedirects: chains are kept flat.
Link(t) ==
    LET links == Chains(t) \union t.gone
    IN  /\ t.kind = "merge" /\ t.at = "rewired"
        /\ \A u \in Others(t) : u.links \cap links = {}
        /\ tx' = Others(t) \union {[t EXCEPT !.at = "linked", !.links = links]}
        /\ UNCHANGED <<node, into, fact, redirect, torn, opened>>

\* Slip: a foreign key without its cascade.
CascadeNothing(c, gone) == fact[c]

\* What is left of a row when the nodes in `gone` are deleted.
Cascade(c, gone) ==
    IF Stored(c) /\ Refers(c) \cap gone # {} THEN [fact[c] EXCEPT !.state = "lost"]
    ELSE fact[c]

\* A deletion waits for those who share a node, or hold a row it takes along.
MayDelete(others, gone) ==
    \A u \in others : /\ u.shares \cap gone = {}
                      /\ \A c \in u.rows : Refers(c) \cap gone = {}
                      /\ \A n \in u.links : redirect[n] \notin gone

\* The consumed nodes are deleted, with all that still refers to them, and the
\* transaction commits.
CommitMerge(t) ==
    /\ \/ t.kind = "merge" /\ t.at = "linked"
       \/ t.kind = "sweep" /\ t.at = "rewired"
    /\ MayDelete(Others(t), t.gone)
    /\ fact' = [c \in Facts |->
          CASE c \in t.loops   -> [fact[c] EXCEPT !.state = "loop"]
            [] c \in t.doubles -> [fact[c] EXCEPT !.state = "duplicate"]
            [] c \in t.moved \ (t.loops \union t.doubles) ->
                  [fact[c] EXCEPT !.subject = To(t, @), !.object = To(t, @)]
            [] OTHER -> Cascade(c, t.gone)]
    /\ redirect' = [n \in Nodes |->
          IF n \in t.links THEN t.keep
          ELSE IF redirect[n] \in t.gone THEN None ELSE redirect[n]]
    /\ node' = [n \in Nodes |->
          IF n \in t.gone /\ LiveNode(n)
          THEN (IF t.kind = "merge" THEN "merged" ELSE "swept") ELSE node[n]]
    /\ into' = [n \in Nodes |-> IF n \in t.gone /\ LiveNode(n) THEN t.keep ELSE into[n]]
    /\ torn' = torn \union {n \in t.gone : ~LiveNode(n)}
                    \union (IF \E u \in Others(t) : t.keep \in u.gone THEN t.gone ELSE {})
    /\ tx' = Others(t)
    /\ UNCHANGED opened

\* deleteNode, at a user's request.
DeleteNode(n) ==
    /\ LiveNode(n) /\ opened < MaxOpened
    /\ MayDelete(tx, {n})
    /\ node' = [node EXCEPT ![n] = "deleted"]
    /\ fact' = [c \in Facts |-> Cascade(c, {n})]
    /\ redirect' = [m \in Nodes |-> IF redirect[m] = n THEN None ELSE redirect[m]]
    /\ opened' = opened + 1
    /\ UNCHANGED <<into, tx, torn>>

\* A crash, a broken deadlock, or a foreign key that has nothing to point to.
RollbackTx(t) ==
    /\ tx' = Others(t)
    /\ UNCHANGED <<node, into, fact, redirect, torn, opened>>

NodeNext ==
    \/ /\ MayOpen
       /\ \/ \E keep \in Nodes, gone \in SUBSET Nodes : BeginMerge(keep, gone)
          \/ \E keep, n \in Nodes : BeginSweep(keep, n)
          \/ \E subject, object \in Nodes :
                subject # object /\ BeginFact(subject, object, None)
          \/ \E subject \in Nodes, value \in Values : BeginFact(subject, None, value)
    \/ \E t \in tx : \/ CommitFact(t) \/ Rewire(t) \/ Link(t) \/ CommitMerge(t)
                     \/ RollbackTx(t)
    \/ \E n \in Nodes : DeleteNode(n)

NodeSpec == NodeInit /\ [][NodeNext]_nodeVars

-----------------------------------------------------------------------------
(* Properties.                                                             *)

\* The nodes whose identity n has shared, n first, and the last of them.
Path(n) ==
    {m \in Nodes : \A S \in SUBSET Nodes :
        n \in S /\ (\A k \in S : into[k] # None => into[k] \in S) => m \in S}

Carrier(n) == IF n = None THEN None ELSE CHOOSE m \in Path(n) : into[m] = None

\* A citation of a merged node leads to the node that carries its identity,
\* through any number of later merges, as long as that node is there.  Only a
\* sweep, which writes no redirect, or a merge that consumed a node in use by
\* another can break the chain.  docs/citations-sdk.md:17-22.
CitationsFollow ==
    \A n \in Nodes :
        /\ node[n] = "merged" /\ LiveNode(Carrier(n))
        /\ \A m \in Path(n) \ {Carrier(n)} : node[m] = "merged" /\ m \notin torn
        => redirect[n] = Carrier(n)

Content(c) == <<Carrier(fact[c].first[1]), Carrier(fact[c].first[2]), fact[c].value>>

Excused(c) ==
    \/ fact[c].raced
    \/ Content(c)[1] = Content(c)[2]
    \/ \E n \in {fact[c].first[1], fact[c].first[2]} \ {None} :
          \E m \in Path(n) : m \in torn \/ node[m] = "deleted"

\* What was once stated of a node is still stated of the node that carries its
\* identity, whatever was merged, swept or collapsed as a duplicate in between
\* and in whatever order; except where a user deleted an end of it, both ends
\* became one, or it was written while a merge was consuming its node.
FactsSurvive ==
    \A c \in Facts : fact[c] # NoFact /\ ~Excused(c) =>
        \E d \in Facts :
            /\ fact[d] # NoFact /\ Content(d) = Content(c)
            /\ \/ Excused(d)
               \/ /\ Stored(d)
                  /\ <<fact[d].subject, fact[d].object, fact[d].value>> = Content(d)

=============================================================================
