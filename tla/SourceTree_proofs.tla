-------------------------- MODULE SourceTree_proofs --------------------------
(***************************************************************************)
(* Proofs about SourceTree, for any sources, partitions and transactions.  *)
(***************************************************************************)
EXTENDS SourceTree, TLAPS

-----------------------------------------------------------------------------
(* The inductive invariant.                                                *)

Parents == Sources \union {Root}

Insertions == [name : Names, parent : Parents]
Revisions == [source : Sources, parent : Parents, name : Names]
Moves == [root : Sources, version : 1 .. MaxVersion, to : Partitions, names : SUBSET Names]

Kinds == {"none", "command", "insert", "revise", "reclassify"}

Transactions ==
    [kind : Kinds, at : {"idle", "begun", "walk", "rows"},
     req : Requests \union Insertions \union Revisions \union Moves \union {<<>>},
     answer : {"none", "applied", "replayed", "conflict", "refused", "missing", "aborted"},
     found : SUBSET Sources, want : SUBSET Sources, held : SUBSET Sources,
     names : SUBSET Names]

\* A transaction, with the request of its kind.
WellFormed(t) ==
    /\ t \in Transactions
    /\ t.kind = "command" => t.req \in Requests
    /\ t.kind = "insert" => t.req \in Insertions
    /\ t.kind = "revise" => t.req \in Revisions
    /\ t.kind = "reclassify" => t.req \in Moves
    /\ t.at = "idle" <=> t.kind = "none"

\* TreeTypeOK, with the shape of transactions; a live source has a version left
\* for its tombstone.
Rows == [row : {"none", "live", "erased", "gone"}, parent : Parents,
         partition : Partitions, base : Sources, version : 1 .. MaxVersion]

TypeInv ==
    /\ source \in [Sources -> Rows]
    /\ \A i \in Sources : source[i].row = "live" => source[i].version < MaxVersion
    /\ tomb \in [Sources -> {"none", "tombstoned", "restored", "purged"}]
    /\ record \in [Commands -> Requests \union {NoRecord}]
    /\ retired \subseteq Names
    /\ proc \in [Procs -> Transactions]
    /\ \A p \in Procs : WellFormed(proc[p])
    /\ moved \in BOOLEAN
    /\ begun \in 0 .. MaxBegun

\* Nobody holds what another holds.
GatesApart == \A p, q \in Procs : p # q => /\ proc[p].held \cap proc[q].held = {}
                                           /\ proc[p].names \cap proc[q].names = {}

\* What a command found is a tree that is there; no live source can be below it
\* and not be in it.
Whole(t) ==
    /\ t.want = {}
    /\ \A i \in t.found : Exists(i)
    /\ \A i \in Sources : source[i].row = "live" /\ source[i].parent \in t.found => i \in t.found
    /\ Exists(t.req.root) => t.req.root \in t.found

\* A command is about a source that was there once, and has, or waits for, the
\* gates of all it has found; once it locks rows it has found a whole tree.  An
\* insertion holds the gate of its name, which is not retired, and a move those of
\* all old and new names.
Sound(t) ==
    /\ t.kind = "command" => /\ source[t.req.root].row # "none"
                             /\ t.found \subseteq t.held \union t.want
    /\ t.kind = "command" /\ t.at = "rows" => Whole(t)
    /\ t.kind = "insert" => t.req.name \in t.names \ retired
    /\ t.kind = "reclassify" /\ t.at # "begun" => t.req.names \subseteq t.names

\* A recorded command was about a source that was there.
Addressed == \A c \in Commands : record[c] # NoRecord => source[record[c].root].row # "none"

TreeInv == /\ TypeInv /\ GatesApart /\ Addressed /\ NoLiveUnderErased
           /\ \A p \in Procs : Sound(proc[p])

-----------------------------------------------------------------------------
(* Helpers.                                                                *)

Answers == {"none", "applied", "replayed", "conflict", "refused", "missing", "aborted"}

\* One transaction is t now, the others are what they were.
Becomes(p, t) == /\ proc' \in [Procs -> Transactions]
                 /\ \A q \in Procs : WellFormed(proc'[q])
                 /\ proc'[p] = t
                 /\ \A q \in Procs \ {p} : proc'[q] = proc[q]

USE TreeAssumption, SerialAssumption DEF TreeAssumption, SerialAssumption

\* One transaction stored in place of another.
LEMMA Becoming ==
    ASSUME TypeInv, NEW p \in Procs, NEW t, WellFormed(t), proc' = [proc EXCEPT ![p] = t]
    PROVE  Becomes(p, t)
<1>1. t \in Transactions
  BY DEF WellFormed
<1>. QED BY <1>1 DEF TypeInv, Becomes

\* What a transaction is once it has ended.
LEMMA IdleShape ==
    ASSUME NEW answer \in Answers
    PROVE  WellFormed([Idle EXCEPT !.answer = answer])
BY DEF WellFormed, Idle, Transactions, Kinds, Answers

\* The end of a transaction: its gates are let go, the others are as they were.
LEMMA Ending ==
    ASSUME TypeInv, NEW p \in Procs, NEW answer \in Answers, End(p, answer)
    PROVE  /\ Becomes(p, [Idle EXCEPT !.answer = answer])
           /\ proc'[p].kind = "none" /\ proc'[p].at = "idle" /\ proc'[p].answer = answer
           /\ proc'[p].held = {} /\ proc'[p].names = {}
<1>1. Becomes(p, [Idle EXCEPT !.answer = answer])
  BY IdleShape, Becoming DEF End
<1>. QED BY <1>1 DEF Becomes, Idle

\* A record answers with "replayed" or "conflict".
LEMMA RecordedAnswers == \A req : Recorded(req) \in Answers
BY DEF Recorded, Answers

\* What a transaction ends with that leaves the tables alone.
Quits(p) == /\ \E answer \in Answers : End(p, answer)
            /\ UNCHANGED <<source, tomb, record, retired, moved>>

\* The actions that end a transaction and write nothing.
LEMMA Quitting ==
    ASSUME NEW p \in Procs,
           \/ \E req \in Sendable(p) : ReplayAtOnce(p, req)
           \/ MissCommand(p) \/ ReplayAfterWait(p) \/ RefuseCommand(p)
           \/ RefuseInsert(p) \/ RefuseRevise(p) \/ RefuseReclassify(p) \/ Abort(p)
    PROVE  Quits(p)
BY RecordedAnswers DEF Quits, Answers, Rollback, ReplayAtOnce, MissCommand, ReplayAfterWait,
   RefuseCommand, RefuseInsert, RefuseRevise, RefuseReclassify, Abort

\* What a transaction begins with.
Starts(p, t) == /\ proc[p].at = "idle"
                /\ proc' = [proc EXCEPT ![p] = t]
                /\ begun < MaxBegun /\ begun' = begun + 1
                /\ UNCHANGED <<source, tomb, record, retired, moved>>

\* A caller sends well-typed commands.
LEMMA SendableTypes ==
    ASSUME TypeInv, NEW p \in Procs, NEW req \in Sendable(p)
    PROVE  req \in Requests /\ MayBegin(p)
<1>1. MayBegin(p)
  BY DEF Sendable
<1>2. CASE \E c \in Commands, act \in {"tombstone", "restore", "purge"}, i \in Sources :
             req = [command |-> c, action |-> act, root |-> i,
                    partition |-> source[i].partition, version |-> source[i].version]
  BY <1>1, <1>2 DEF Requests, TypeInv, Rows
<1>3. CASE \E c \in Commands : record[c] # NoRecord /\ req = record[c]
  BY <1>1, <1>3 DEF TypeInv
<1>4. CASE \E q \in Procs : proc[q].kind = "command" /\ req = proc[q].req
  BY <1>1, <1>4 DEF TypeInv, WellFormed
<1>. QED BY <1>1, <1>2, <1>3, <1>4 DEF Sendable

-----------------------------------------------------------------------------
(* Types.                                                                  *)

\* The initial states are well-typed.
LEMMA InitType == TreeInit => TypeInv
<1> SUFFICES ASSUME TreeInit PROVE TypeInv
  OBVIOUS
<1>0. PICK count \in 0 .. N :
          \E parent \in [1 .. count -> 0 .. N], erased \in SUBSET (1 .. count) :
             Forest(count, parent, erased)
  BY DEF TreeInit, SerialInit
<1>1. PICK parent \in [1 .. count -> 0 .. N], erased \in SUBSET (1 .. count) :
          Forest(count, parent, erased)
  BY <1>0
<1>2. ASSUME NEW i \in Sources PROVE source[i] \in Rows /\ source[i].version = 1
  <2>1. Blank \in Rows /\ Blank.version = 1
    <3>1. 1 \in 1 .. MaxVersion /\ 1 \in Sources
      BY DEF Sources
    <3>2. (CHOOSE a \in Partitions : TRUE) \in Partitions
      OBVIOUS
    <3>. QED BY <3>1, <3>2 DEF Blank, Rows, Parents, Root
  <2>2. CASE i > count
    BY <1>1, <2>1, <2>2 DEF Forest
  <2>3. CASE ~(i > count)
    <3>1. i \in 1 .. count /\ parent[i] \in Parents
      BY <2>3 DEF Sources, Parents, Root
    <3>. QED BY <1>1, <2>1, <2>3, <3>1 DEF Blank, Rows, Forest
  <2>. QED BY <2>2, <2>3
<1>3. source \in [Sources -> Rows]
  BY <1>1, <1>2 DEF Forest
<1>4. \A i \in Sources : source[i].row = "live" => source[i].version < MaxVersion
  BY <1>2
<1>5. tomb \in [Sources -> {"none", "tombstoned", "restored", "purged"}]
  BY <1>1 DEF Forest
<1>6. proc \in [Procs -> Transactions] /\ \A p \in Procs : WellFormed(proc[p])
  BY DEF TreeInit, Idle, Transactions, Kinds, WellFormed, SerialInit
<1>7. retired \subseteq Names
  BY DEF TreeInit, Names, Sources, SerialInit
<1>8. record \in [Commands -> Requests \union {NoRecord}]
  BY DEF TreeInit, SerialInit
<1>9. moved \in BOOLEAN
  BY DEF TreeInit, SerialInit
<1>10. begun \in 0 .. MaxBegun
  BY DEF TreeInit, SerialInit
<1>. QED BY <1>3, <1>4, <1>5, <1>6, <1>7, <1>8, <1>9, <1>10 DEF TypeInv

\* The steps before a commit keep the types.
LEMMA StepType ==
    ASSUME TypeInv, NEW p \in Procs,
           \/ LockGate(p) \/ WalkAgain(p)
           \/ \E req \in Sendable(p) : BeginCommand(p, req)
           \/ \E name \in Ingested, parent \in Parents : BeginInsert(p, name, parent)
           \/ \E i \in Sources, parent \in Parents : BeginRevise(p, i, parent)
           \/ \E i \in Sources, partition \in Partitions : BeginReclassify(p, i, partition)
           \/ LockNames(p) \/ LockOwnName(p) \/ WalkTwice(p)
    PROVE  TypeInv'
<1> DEFINE t == proc[p]
<1>0. /\ WellFormed(t) /\ t \in Transactions
  BY DEF TypeInv
<1> HIDE DEF t
<1>q. ASSUME NEW u, WellFormed(u), proc' = [proc EXCEPT ![p] = u],
             UNCHANGED <<source, tomb, record, retired, moved>>, begun' \in 0 .. MaxBegun
      PROVE  TypeInv'
  BY <1>q, Becoming DEF Becomes, TypeInv
<1>b. begun \in 0 .. MaxBegun /\ (begun < MaxBegun => begun + 1 \in 0 .. MaxBegun)
  BY DEF TypeInv
<1>1. CASE LockGate(p)
  <2>1. PICK g \in First(proc[p].want) : proc' = [proc EXCEPT ![p].want = @ \ {g}, ![p].held = @ \union {g}]
    BY <1>1 DEF LockGate
  <2> DEFINE u == [t EXCEPT !.want = @ \ {g}, !.held = @ \union {g}]
  <2>2. g \in Sources
    BY <1>0 DEF First, Transactions, t
  <2>3. WellFormed(u)
    BY <1>0, <2>2 DEF WellFormed, Transactions
  <2>4. proc' = [proc EXCEPT ![p] = u]
    BY <2>1 DEF t
  <2>. QED BY <1>1, <1>b, <1>q, <2>3, <2>4 DEF LockGate
<1>2. CASE WalkAgain(p)
  <2> DEFINE again == Tree(proc[p].req.root)
             u == IF again = proc[p].found THEN [t EXCEPT !.at = "rows"]
                  ELSE [t EXCEPT !.found = again, !.want = again \ proc[p].held]
  <2>1. again \subseteq Sources
    BY DEF Tree
  <2> HIDE DEF again
  <2>2. t.kind = "command" /\ t.at = "walk"
    BY <1>2 DEF WalkAgain, At, t
  <2>3. WellFormed(u)
    BY <1>0, <2>1, <2>2 DEF WellFormed, Transactions
  <2>4. proc' = [proc EXCEPT ![p] = u]
    BY <1>2 DEF t, WalkAgain, again
  <2>. QED BY <1>2, <1>b, <1>q, <2>3, <2>4 DEF WalkAgain
<1>3. ASSUME NEW req \in Sendable(p), BeginCommand(p, req) PROVE TypeInv'
  <2> DEFINE u == [Idle EXCEPT !.kind = "command", !.at = "walk", !.req = req,
                               !.found = Tree(req.root), !.want = Tree(req.root)]
  <2>1. Tree(req.root) \subseteq Sources /\ req \in Requests /\ MayBegin(p)
    BY SendableTypes DEF Tree
  <2>2. WellFormed(u)
    BY <2>1 DEF WellFormed, Transactions, Idle, Kinds
  <2>. QED BY <1>3, <1>b, <1>q, <2>1, <2>2 DEF BeginCommand, Begin, MayBegin
<1>4. ASSUME NEW name \in Ingested, NEW parent \in Parents, BeginInsert(p, name, parent) PROVE TypeInv'
  <2> DEFINE u == [Idle EXCEPT !.kind = "insert", !.at = "begun", !.names = {name},
                               !.req = [name |-> name, parent |-> parent]]
  <2>1. name \in Names
    BY DEF Names, Sources
  <2>2. WellFormed(u)
    BY <2>1 DEF WellFormed, Transactions, Insertions, Idle, Kinds
  <2>. QED BY <1>4, <1>b, <1>q, <2>2 DEF BeginInsert, Begin, MayBegin
<1>5. ASSUME NEW i \in Sources, NEW parent \in Parents, BeginRevise(p, i, parent) PROVE TypeInv'
  <2> DEFINE u == [Idle EXCEPT !.kind = "revise", !.at = "begun",
                     !.req = [source |-> i, parent |-> parent, name |-> Name(i)]]
  <2>1. Name(i) \in Names
    BY DEF Name, Names, TypeInv, Rows
  <2>2. WellFormed(u)
    BY <2>1 DEF WellFormed, Transactions, Revisions, Idle, Kinds
  <2>. QED BY <1>5, <1>b, <1>q, <2>2 DEF BeginRevise, Begin, MayBegin
<1>6. ASSUME NEW i \in Sources, NEW partition \in Partitions, BeginReclassify(p, i, partition) PROVE TypeInv'
  <2> DEFINE found == WholeTree(i)
             req == [root |-> i, version |-> source[i].version,
                     to |-> partition, names |-> NamesOf(found, partition)]
             u == [Idle EXCEPT !.kind = "reclassify", !.at = "begun", !.found = found, !.req = req]
  <2>1. found \subseteq Sources
    BY DEF WholeTree, Ancestors, Tree
  <2>2. NamesOf(found, partition) \subseteq Names
    BY <2>1 DEF NamesOf, Name, Renamed, Names, TypeInv, Rows
  <2>3. source[i].version \in 1 .. MaxVersion
    BY DEF TypeInv, Rows
  <2>4. req \in Moves
    BY <2>2, <2>3 DEF Moves
  <2>5. proc' = [proc EXCEPT ![p] = u]
    BY <1>6 DEF BeginReclassify, Begin
  <2> HIDE DEF found, req
  <2>6. WellFormed(u)
    BY <2>1, <2>4 DEF WellFormed, Transactions, Idle, Kinds
  <2>. QED BY <1>6, <1>b, <1>q, <2>5, <2>6 DEF BeginReclassify, Begin, MayBegin
<1>7. CASE LockNames(p)
  <2> DEFINE u == [t EXCEPT !.at = "walk", !.names = t.req.names, !.want = t.found]
  <2>1. t.kind = "reclassify" /\ t.req \in Moves
    BY <1>0, <1>7 DEF LockNames, At, t, WellFormed
  <2>2. t.req.names \subseteq Names
    BY <2>1 DEF Moves
  <2>3. WellFormed(u)
    BY <1>0, <2>1, <2>2 DEF WellFormed, Transactions
  <2>4. proc' = [proc EXCEPT ![p] = u]
    BY <1>7 DEF LockNames, t
  <2>. QED BY <1>7, <1>b, <1>q, <2>3, <2>4 DEF LockNames
<1>8. CASE WalkTwice(p)
  <2>1. CASE End(p, "none")
    BY <1>8, <1>b, <1>q, <2>1, IdleShape DEF WalkTwice, End, Answers
  <2>2. CASE proc' = [proc EXCEPT ![p].at = "rows"]
    <3> DEFINE u == [t EXCEPT !.at = "rows"]
    <3>1. t.kind = "reclassify"
      BY <1>8 DEF WalkTwice, At, t
    <3>2. WellFormed(u)
      BY <1>0, <3>1 DEF WellFormed, Transactions
    <3>3. proc' = [proc EXCEPT ![p] = u]
      BY <2>2 DEF t
    <3>. QED BY <1>8, <1>b, <1>q, <3>2, <3>3 DEF WalkTwice
  <2>. QED BY <1>8, <2>1, <2>2 DEF WalkTwice
<1>9. CASE LockOwnName(p)
  <2> DEFINE u == [t EXCEPT !.at = "rows", !.names = {t.req.name}]
  <2>1. t.kind = "revise" /\ t.req \in Revisions
    BY <1>0, <1>9 DEF LockOwnName, At, t, WellFormed
  <2>2. {t.req.name} \subseteq Names
    BY <2>1 DEF Revisions
  <2>3. WellFormed(u)
    BY <1>0, <2>1, <2>2 DEF WellFormed, Transactions
  <2>4. proc' = [proc EXCEPT ![p] = u]
    BY <1>9 DEF LockOwnName, t
  <2>. QED BY <1>9, <1>b, <1>q, <2>3, <2>4 DEF LockOwnName
<1>. QED BY <1>1, <1>2, <1>3, <1>4, <1>5, <1>6, <1>7, <1>8, <1>9

\* What the end of a transaction does when it leaves the tables well-typed.
LEMMA EndType ==
    ASSUME TypeInv, NEW p \in Procs, NEW answer \in Answers, End(p, answer),
           source' \in [Sources -> Rows],
           \A i \in Sources : source'[i].row = "live" => source'[i].version < MaxVersion,
           tomb' \in [Sources -> {"none", "tombstoned", "restored", "purged"}],
           record' \in [Commands -> Requests \union {NoRecord}],
           retired' \subseteq Names, moved' \in BOOLEAN, begun' \in 0 .. MaxBegun
    PROVE  TypeInv'
BY Ending DEF TypeInv, Becomes

\* Commits and retirements keep the types.
LEMMA CommitType ==
    ASSUME TypeInv, NEW p \in Procs,
           \/ Quits(p) /\ begun' \in 0 .. MaxBegun
           \/ ApplyCommand(p) \/ Insert(p) \/ Revise(p) \/ Reclassify(p)
           \/ \E name \in Ingested : Retire(p, name) \/ Reopen(p, name)
    PROVE  TypeInv'
<1>1. CASE Quits(p) /\ begun' \in 0 .. MaxBegun
  BY <1>1, EndType DEF Quits, TypeInv
<1>2. CASE ApplyCommand(p)
  <2> DEFINE req == proc[p].req
             S == proc[p].found
  <2>1. /\ proc[p].kind = "command" /\ req \in Requests
        /\ End(p, "applied") /\ record' = [record EXCEPT ![req.command] = req]
        /\ UNCHANGED <<retired, moved, begun>>
        /\ \/ req.action = "tombstone" /\ Erase(S)
           \/ req.action = "restore" /\ Finalize(S, "restored")
           \/ req.action = "purge" /\ Finalize(S, "purged")
    <3>1. req.action \in {"tombstone", "restore", "purge"}
      BY <1>2 DEF ApplyCommand, Found, At, TypeInv, WellFormed, Requests, Apply
    <3>. QED BY <1>2, <3>1 DEF ApplyCommand, Found, At, TypeInv, WellFormed, Apply
  <2>2. record' \in [Commands -> Requests \union {NoRecord}]
    BY <2>1 DEF TypeInv
  <2> HIDE DEF S
  <2>3. CASE Erase(S)
    <3>2. source' \in [Sources -> Rows]
      <4>1. ASSUME NEW i \in Sources PROVE source'[i] \in Rows
        <5>1. CASE i \in S /\ source[i].row = "live"
          <6>1. source[i] \in Rows /\ source[i].version + 1 \in 1 .. MaxVersion
            BY <5>1 DEF TypeInv, Rows
          <6>2. source'[i] = [source[i] EXCEPT !.row = "erased", !.version = @ + 1]
            BY <2>3, <5>1 DEF Erase
          <6>. QED BY <6>1, <6>2 DEF Rows
        <5>2. CASE ~(i \in S /\ source[i].row = "live")
          BY <2>3, <5>2 DEF Erase, TypeInv
        <5>. QED BY <5>1, <5>2
      <4>. QED BY <2>3, <4>1 DEF Erase
    <3>3. tomb' \in [Sources -> {"none", "tombstoned", "restored", "purged"}]
      BY <2>3 DEF Erase, TypeInv
    <3>4. \A i \in Sources : source'[i].row = "live" => source'[i].version < MaxVersion
      BY <2>3 DEF Erase, TypeInv, Rows
    <3>. QED BY <2>1, <2>2, <3>2, <3>3, <3>4, EndType DEF TypeInv, Answers
  <2>4. ASSUME NEW state \in {"restored", "purged"}, Finalize(S, state) PROVE TypeInv'
    <3>1. ASSUME NEW i \in Sources PROVE [Blank EXCEPT !.row = "gone"] \in Rows
      <4>1. 1 \in 1 .. MaxVersion /\ 1 \in Sources
        BY DEF Sources
      <4>2. (CHOOSE a \in Partitions : TRUE) \in Partitions
        OBVIOUS
      <4>. QED BY <4>1, <4>2 DEF Blank, Rows, Parents, Root
    <3>2. source' \in [Sources -> Rows]
      BY <2>4, <3>1 DEF Finalize, TypeInv
    <3>3. tomb' \in [Sources -> {"none", "tombstoned", "restored", "purged"}]
      BY <2>4 DEF Finalize, TypeInv
    <3>4. \A i \in Sources : source'[i].row = "live" => source'[i].version < MaxVersion
      BY <2>4 DEF Finalize, TypeInv, Blank
    <3>. QED BY <2>1, <2>2, <3>2, <3>3, <3>4, EndType DEF TypeInv, Answers
  <2>. QED BY <2>1, <2>3, <2>4
<1>3. CASE Insert(p)
  <2> DEFINE req == proc[p].req
  <2>1. req \in Insertions
    BY <1>3 DEF Insert, At, TypeInv, WellFormed, Attach
  <2>2. PICK i \in Fresh :
          source' = [source EXCEPT ![i] =
                       [row |-> "live", parent |-> req.parent, version |-> 1,
                        base |-> req.name[1], partition |-> req.name[2]]]
    BY <1>3 DEF Insert, First, Attach
  <2>3. [row |-> "live", parent |-> req.parent, version |-> 1,
         base |-> req.name[1], partition |-> req.name[2]] \in Rows
    BY <2>1 DEF Insertions, Names, Rows
  <2>4. source' \in [Sources -> Rows]
    BY <2>2, <2>3 DEF TypeInv
  <2>5. \A j \in Sources : source'[j].row = "live" => source'[j].version < MaxVersion
    BY <2>2 DEF TypeInv
  <2>. QED BY <1>3, <2>4, <2>5, EndType DEF Insert, TypeInv, Answers, Attach
<1>4. CASE Revise(p)
  <2> DEFINE req == proc[p].req
  <2>1. req \in Revisions
    BY <1>4 DEF Revise, GatesOfRevise, At, TypeInv, WellFormed, Amend
  <2>2. source' = [source EXCEPT ![req.source].parent = req.parent, ![req.source].version = @ + 1]
    BY <1>4 DEF Revise, Amend
  <2>3. req.source \in Sources /\ req.parent \in Parents /\ source[req.source].version < MaxVersion - 1
    BY <1>4, <2>1 DEF Revisions, Revise, MayRevise, Amend, MayAmend
  <2>4. source' \in [Sources -> Rows]
    BY <2>2, <2>3 DEF TypeInv, Rows
  <2>5. \A j \in Sources : source'[j].row = "live" => source'[j].version < MaxVersion
    BY <2>2, <2>3 DEF TypeInv, Rows
  <2>6. moved' \in BOOLEAN
    BY <1>4 DEF Revise, Amend
  <2>. QED BY <1>4, <2>4, <2>5, <2>6, EndType DEF Revise, TypeInv, Answers, Amend
<1>5. CASE Reclassify(p)
  <2> DEFINE req == proc[p].req
             S == proc[p].found
  <2>1. req \in Moves
    BY <1>5 DEF Reclassify, At, TypeInv, WellFormed, Relocate
  <2>2. source' = Relocation(S, req.to) /\ \A i \in S : source[i].version < MaxVersion - 1
    BY <1>5 DEF Reclassify, MayReclassify, Relocate, MayMove
  <2>3. \A i \in Sources : source'[i] = IF i \in S THEN Relocated(i, S, req.to) ELSE source[i]
    BY <2>2 DEF Relocation
  <2>4. ASSUME NEW i \in Sources
        PROVE  source'[i] \in Rows /\ (source'[i].row = "live" => source'[i].version < MaxVersion)
    <3>1. source[i] \in Rows /\ (source[i].row = "live" => source[i].version < MaxVersion)
      BY DEF TypeInv
    <3>2. CASE i \in S
      <4> DEFINE up == IF source[i].parent \in S THEN source[i].parent ELSE Root
      <4>0. source'[i] = Relocated(i, S, req.to)
        BY <2>3, <3>2
      <4>1. source'[i] = [source[i] EXCEPT !.partition = req.to, !.version = @ + 1, !.parent = up]
        BY <4>0, Zenon DEF Relocated
      <4>2. /\ req.to \in Partitions /\ source[i].version + 1 \in 1 .. MaxVersion
            /\ source[i].version + 1 < MaxVersion
        BY <2>1, <2>2, <3>1, <3>2 DEF Moves, Rows
      <4>3. up \in Parents
        BY <3>1 DEF Rows, Parents
      <4> HIDE DEF up, req, S
      <4>4. source'[i] \in Rows
        BY <3>1, <4>1, <4>2, <4>3 DEF Rows
      <4>5. source'[i].version = source[i].version + 1
        BY <3>1, <4>1 DEF Rows
      <4>. QED BY <4>2, <4>4, <4>5
    <3>. QED BY <2>3, <3>1, <3>2
  <2>5. source' \in [Sources -> Rows]
    BY <2>2, <2>4 DEF Relocation
  <2>6. \A i \in Sources : source'[i].row = "live" => source'[i].version < MaxVersion
    BY <2>4
  <2>7. moved' \in BOOLEAN
    BY <1>5 DEF Reclassify, Relocate
  <2>8. Retirements(S, req.to) \subseteq Names
    <3>1. S \subseteq Sources /\ req.to \in Partitions
      BY <2>1 DEF TypeInv, Transactions, Moves
    <3>2. \A i \in S : source[i].base \in Sources
      BY <3>1 DEF TypeInv, Rows
    <3> HIDE DEF S, req
    <3>. QED BY <3>1, <3>2 DEF Retirements, Renamed, Names
  <2>9. retired' = retired \union Retirements(S, req.to)
    BY <1>5 DEF Reclassify, Relocate
  <2> HIDE DEF req, S
  <2>. QED BY <1>5, <2>5, <2>6, <2>7, <2>8, <2>9, EndType
           DEF Reclassify, TypeInv, Answers, Relocate
<1>6. ASSUME NEW name \in Ingested, Retire(p, name) \/ Reopen(p, name) PROVE TypeInv'
  <2>1. name \in Names
    BY DEF Names, Sources
  <2>2. retired' \subseteq Names /\ UNCHANGED <<source, tomb, record, proc, moved>>
    BY <1>6, <2>1 DEF Retire, Reopen, TypeInv
  <2>3. begun' \in 0 .. MaxBegun
    BY <1>6 DEF Retire, Reopen, MayBegin, TypeInv
  <2>. QED BY <2>2, <2>3 DEF TypeInv
<1>. QED BY <1>1, <1>2, <1>3, <1>4, <1>5, <1>6

\* Every step keeps the types.
LEMMA NextType == TypeInv /\ [TreeNext]_treeVars => TypeInv'
<1> SUFFICES ASSUME TypeInv, [TreeNext]_treeVars PROVE TypeInv'
  OBVIOUS
<1>1. CASE UNCHANGED treeVars
  BY <1>1 DEF treeVars, TypeInv
<1>2. CASE TreeNext
  <2>1. PICK p \in Procs : TreeNext!(p)
    BY <1>2 DEF TreeNext
  <2>2. ASSUME NEW req \in Sendable(p), ReplayAtOnce(p, req) PROVE TypeInv'
    <3>1. begun' \in 0 .. MaxBegun
      BY <2>2, SendableTypes DEF ReplayAtOnce, MayBegin, TypeInv
    <3>. QED BY <2>2, <3>1, Quitting, CommitType
  <2>3. CASE \/ MissCommand(p) \/ ReplayAfterWait(p) \/ RefuseCommand(p)
             \/ RefuseInsert(p) \/ RefuseRevise(p) \/ RefuseReclassify(p) \/ Abort(p)
    <3>1. begun' \in 0 .. MaxBegun
      BY <2>3 DEF MissCommand, ReplayAfterWait, RefuseCommand, RefuseInsert, RefuseRevise,
         RefuseReclassify, Abort, Rollback, TypeInv
    <3>. QED BY <2>3, <3>1, Quitting, CommitType
  <2>4. CASE \/ ApplyCommand(p) \/ Insert(p) \/ Revise(p) \/ Reclassify(p)
             \/ \E name \in Ingested : Retire(p, name) \/ Reopen(p, name)
    BY <2>4, CommitType
  <2>5. CASE \/ LockGate(p) \/ WalkAgain(p)
             \/ \E req \in Sendable(p) : BeginCommand(p, req)
             \/ \E name \in Ingested, parent \in Parents : BeginInsert(p, name, parent)
             \/ \E i \in Sources, parent \in Parents : BeginRevise(p, i, parent)
             \/ \E i \in Sources, partition \in Partitions : BeginReclassify(p, i, partition)
             \/ LockNames(p) \/ LockOwnName(p) \/ WalkTwice(p)
    BY <2>5, StepType
  <2>. QED BY <2>1, <2>2, <2>3, <2>4, <2>5 DEF Parents
<1>. QED BY <1>1, <1>2

-----------------------------------------------------------------------------
(* Trees.                                                                  *)

\* A tree is there, has its root if that exists, and the children of its members.
LEMMA TreeClosed ==
    ASSUME NEW i \in Sources
    PROVE  /\ \A j \in Tree(i) : Exists(j)
           /\ Exists(i) => i \in Tree(i)
           /\ \A j \in Sources : Exists(j) /\ source[j].parent \in Tree(i) => j \in Tree(i)
<1>1. \A j \in Tree(i) : Exists(j)
  BY DEF Tree
<1>2. Exists(i) => i \in Tree(i)
  BY DEF Tree
<1>3. ASSUME NEW j \in Sources, Exists(j), source[j].parent \in Tree(i) PROVE j \in Tree(i)
  <2>1. Exists(i)
    BY <1>3 DEF Tree
  <2>2. ASSUME NEW S \in SUBSET Sources, i \in S, WithChildren(S) PROVE j \in S
    <3>1. source[j].parent \in S
      BY <1>3, <2>2 DEF Tree
    <3>. QED BY <1>3, <2>2, <3>1 DEF WithChildren
  <2>. QED BY <1>3, <2>1, <2>2 DEF Tree
<1>. QED BY <1>1, <1>2, <1>3

-----------------------------------------------------------------------------
(* Steps that leave the tables alone.                                      *)

\* A step of one transaction that leaves the tables alone and takes gates nobody else has.
LEMMA Untouched ==
    ASSUME TreeInv, TypeInv', NEW p \in Procs, NEW t,
           Becomes(p, t), UNCHANGED <<source, tomb, record, retired>>,
           FreeGates(p, t.held), FreeNames(p, t.names), Sound(t)
    PROVE  TreeInv'
<1>1. GatesApart'
  BY DEF TreeInv, GatesApart, Becomes, FreeGates, FreeNames
<1>2. NoLiveUnderErased'
  BY DEF TreeInv, NoLiveUnderErased, LiveSource
<1>3. Addressed'
  BY DEF TreeInv, Addressed
<1>4. ASSUME NEW q \in Procs PROVE Sound(proc[q])'
  <2>1. Sound(proc'[q])
    BY DEF TreeInv, Becomes
  <2>. QED BY <2>1 DEF Sound, Whole, Exists
<1>. QED BY <1>1, <1>2, <1>3, <1>4 DEF TreeInv

\* What p holds nobody else does; what is idle is sound.
LEMMA Mine == ASSUME TreeInv, NEW p \in Procs
              PROVE  FreeGates(p, proc[p].held) /\ FreeNames(p, proc[p].names)
BY DEF TreeInv, GatesApart, FreeGates, FreeNames

\* The empty set of gates is free for everybody.
LEMMA NoGates == ASSUME NEW p PROVE FreeGates(p, {}) /\ FreeNames(p, {})
BY DEF FreeGates, FreeNames

\* A transaction that ends without a write keeps the invariant.
LEMMA QuitSafe ==
    ASSUME TreeInv, TypeInv', NEW p \in Procs, Quits(p)
    PROVE  TreeInv'
<1>1. PICK answer \in Answers : End(p, answer)
  BY DEF Quits
<1> DEFINE t == [Idle EXCEPT !.answer = answer]
<1>2. Becomes(p, t)
  BY <1>1, Ending DEF TreeInv
<1>3. t.held = {} /\ t.names = {} /\ Sound(t)
  BY DEF Idle, Sound
<1> HIDE DEF t
<1>. QED BY <1>2, <1>3, NoGates, Untouched DEF Quits

\* A caller sends commands about sources that were there.
LEMMA SendableRoots ==
    ASSUME TreeInv, NEW p \in Procs, NEW req \in Sendable(p)
    PROVE  source[req.root].row # "none"
<1>1. CASE \E c \in Commands, act \in {"tombstone", "restore", "purge"},
              i \in {j \in Sources : source[j].row # "none"} :
             req = [command |-> c, action |-> act, root |-> i,
                    partition |-> source[i].partition, version |-> source[i].version]
  BY <1>1
<1>2. CASE \E c \in Commands : record[c] # NoRecord /\ req = record[c]
  BY <1>2 DEF TreeInv, Addressed
<1>3. CASE \E q \in Procs : proc[q].kind = "command" /\ req = proc[q].req
  BY <1>3 DEF TreeInv, Sound
<1>. QED BY <1>1, <1>2, <1>3 DEF Sendable

\* Every step before a commit keeps the invariant.
LEMMA StepSafe ==
    ASSUME TreeInv, TypeInv', NEW p \in Procs,
           \/ LockGate(p) \/ WalkAgain(p)
           \/ \E req \in Sendable(p) : BeginCommand(p, req)
           \/ \E name \in Ingested, parent \in Parents : BeginInsert(p, name, parent)
           \/ \E i \in Sources, parent \in Parents : BeginRevise(p, i, parent)
           \/ \E i \in Sources, partition \in Partitions : BeginReclassify(p, i, partition)
           \/ LockNames(p) \/ LockOwnName(p) \/ WalkTwice(p)
    PROVE  TreeInv'
<1> DEFINE t == proc[p]
<1>0. /\ WellFormed(t) /\ t \in Transactions /\ Sound(t)
      /\ proc \in [Procs -> Transactions]
      /\ FreeGates(p, t.held) /\ FreeNames(p, t.names)
  BY Mine DEF TreeInv, TypeInv
<1> HIDE DEF t
<1>q. ASSUME NEW u, proc' = [proc EXCEPT ![p] = u], UNCHANGED <<source, tomb, record, retired>>,
             FreeGates(p, u.held), FreeNames(p, u.names), Sound(u)
      PROVE  TreeInv'
  <2>1. Becomes(p, u)
    BY <1>0, <1>q DEF Becomes, TypeInv
  <2>. QED BY <1>q, <2>1, Untouched
<1>1. CASE LockGate(p)
  <2>1. PICK g \in First(proc[p].want) :
              /\ FreeGates(p, {g})
              /\ proc' = [proc EXCEPT ![p].want = @ \ {g}, ![p].held = @ \union {g}]
    BY <1>1 DEF LockGate
  <2> DEFINE u == [t EXCEPT !.want = @ \ {g}, !.held = @ \union {g}]
  <2>2. /\ u.kind = t.kind /\ u.at = "walk" /\ u.req = t.req /\ u.names = t.names
        /\ u.found = t.found /\ u.held = t.held \union {g} /\ u.want = t.want \ {g}
        /\ t.at = "walk"
    BY <1>0, <1>1 DEF LockGate, Transactions, t
  <2>3. proc' = [proc EXCEPT ![p] = u]
    BY <2>1 DEF t
  <2> HIDE DEF u
  <2>4. FreeGates(p, u.held)
    BY <1>0, <2>1, <2>2 DEF FreeGates
  <2>5. Sound(u)
    BY <1>0, <2>2 DEF Sound
  <2>. QED BY <1>0, <1>1, <1>q, <2>2, <2>3, <2>4, <2>5 DEF LockGate
<1>2. CASE WalkAgain(p)
  <2> DEFINE again == Tree(proc[p].req.root)
  <2>1. t.kind = "command" /\ t.at = "walk" /\ t.want = {} /\ t.req.root \in Sources
    BY <1>0, <1>2 DEF WalkAgain, At, t, WellFormed, Requests
  <2>2. /\ \A j \in again : Exists(j)
        /\ Exists(t.req.root) => t.req.root \in again
        /\ \A j \in Sources : Exists(j) /\ source[j].parent \in again => j \in again
    BY <2>1, TreeClosed DEF t
  <2>3. UNCHANGED <<source, tomb, record, retired>>
    BY <1>2 DEF WalkAgain
  <2>4. proc' = IF again = t.found THEN [proc EXCEPT ![p].at = "rows"]
                ELSE [proc EXCEPT ![p].found = again, ![p].want = again \ t.held]
    BY <1>2 DEF WalkAgain, t
  <2> HIDE DEF again
  <2>5. CASE again = t.found
    <3> DEFINE u == [t EXCEPT !.at = "rows"]
    <3>1. /\ u.kind = "command" /\ u.req = t.req /\ u.names = t.names
          /\ u.found = again /\ u.held = t.held /\ u.want = {}
      BY <1>0, <2>1, <2>5 DEF Transactions
    <3>2. proc' = [proc EXCEPT ![p] = u]
      BY <2>4, <2>5 DEF t
    <3> HIDE DEF u
    <3>3. Whole(u)
      BY <2>2, <3>1 DEF Whole, Exists
    <3>4. Sound(u)
      BY <1>0, <2>1, <2>5, <3>1, <3>3 DEF Sound
    <3>. QED BY <1>0, <1>q, <2>3, <3>1, <3>2, <3>4
  <2>6. CASE again # t.found
    <3> DEFINE u == [t EXCEPT !.found = again, !.want = again \ t.held]
    <3>1. /\ u.kind = "command" /\ u.at = "walk" /\ u.req = t.req /\ u.names = t.names
          /\ u.found = again /\ u.held = t.held /\ u.want = again \ t.held
      BY <1>0, <2>1 DEF Transactions
    <3>2. proc' = [proc EXCEPT ![p] = u]
      BY <2>4, <2>6 DEF t
    <3> HIDE DEF u
    <3>3. Sound(u)
      BY <1>0, <2>1, <3>1 DEF Sound
    <3>. QED BY <1>0, <1>q, <2>3, <3>1, <3>2, <3>3
  <2>. QED BY <2>5, <2>6
<1>3. ASSUME NEW req \in Sendable(p), BeginCommand(p, req) PROVE TreeInv'
  <2> DEFINE u == [Idle EXCEPT !.kind = "command", !.at = "walk", !.req = req,
                               !.found = Tree(req.root), !.want = Tree(req.root)]
  <2>1. proc' = [proc EXCEPT ![p] = u] /\ UNCHANGED <<source, tomb, record, retired>>
    BY <1>3 DEF BeginCommand, Begin
  <2>2. u.held = {} /\ u.names = {} /\ Sound(u)
    BY SendableRoots DEF Idle, Sound
  <2> HIDE DEF u
  <2>. QED BY <1>q, <2>1, <2>2, NoGates
<1>4. ASSUME NEW name \in Ingested, NEW parent \in Parents, BeginInsert(p, name, parent) PROVE TreeInv'
  <2> DEFINE u == [Idle EXCEPT !.kind = "insert", !.at = "begun", !.names = {name},
                               !.req = [name |-> name, parent |-> parent]]
  <2>1. proc' = [proc EXCEPT ![p] = u] /\ UNCHANGED <<source, tomb, record, retired>>
    BY <1>4 DEF BeginInsert, Begin
  <2>2. u.held = {} /\ u.names = {name} /\ Sound(u)
    BY <1>4 DEF Idle, Sound, BeginInsert
  <2>3. FreeNames(p, {name})
    BY <1>4 DEF BeginInsert
  <2> HIDE DEF u
  <2>. QED BY <1>q, <2>1, <2>2, <2>3, NoGates
<1>5. ASSUME NEW i \in Sources, NEW parent \in Parents, BeginRevise(p, i, parent) PROVE TreeInv'
  <2> DEFINE u == [Idle EXCEPT !.kind = "revise", !.at = "begun",
                     !.req = [source |-> i, parent |-> parent, name |-> Name(i)]]
  <2>1. proc' = [proc EXCEPT ![p] = u] /\ UNCHANGED <<source, tomb, record, retired>>
    BY <1>5 DEF BeginRevise, Begin
  <2>2. u.held = {} /\ u.names = {} /\ Sound(u)
    BY DEF Idle, Sound
  <2> HIDE DEF u
  <2>. QED BY <1>q, <2>1, <2>2, NoGates
<1>6. ASSUME NEW i \in Sources, NEW partition \in Partitions, BeginReclassify(p, i, partition) PROVE TreeInv'
  <2> DEFINE found == WholeTree(i)
             u == [Idle EXCEPT !.kind = "reclassify", !.at = "begun", !.found = found,
                     !.req = [root |-> i, version |-> source[i].version,
                              to |-> partition, names |-> NamesOf(found, partition)]]
  <2>1. proc' = [proc EXCEPT ![p] = u] /\ UNCHANGED <<source, tomb, record, retired>>
    BY <1>6 DEF BeginReclassify, Begin
  <2>2. u.held = {} /\ u.names = {} /\ Sound(u)
    BY DEF Idle, Sound
  <2> HIDE DEF u
  <2>. QED BY <1>q, <2>1, <2>2, NoGates
<1>7. CASE LockNames(p)
  <2> DEFINE u == [t EXCEPT !.at = "walk", !.names = t.req.names, !.want = t.found]
  <2>1. proc' = [proc EXCEPT ![p] = u] /\ UNCHANGED <<source, tomb, record, retired>>
    BY <1>7 DEF LockNames, t
  <2>2. u.held = t.held /\ u.req = t.req /\ u.names = t.req.names /\ u.kind = "reclassify"
    BY <1>0, <1>7 DEF LockNames, At, t, Transactions
  <2>3. FreeNames(p, t.req.names)
    BY <1>7 DEF LockNames, t
  <2> HIDE DEF u
  <2>4. Sound(u)
    BY <2>2 DEF Sound
  <2>. QED BY <1>0, <1>q, <2>1, <2>2, <2>3, <2>4
<1>8. CASE WalkTwice(p)
  <2>1. CASE End(p, "none")
    <3>1. Quits(p)
      BY <1>8, <2>1 DEF WalkTwice, Quits, Answers
    <3>. QED BY <3>1, QuitSafe
  <2>2. CASE proc' = [proc EXCEPT ![p].at = "rows"]
    <3> DEFINE u == [t EXCEPT !.at = "rows"]
    <3>1. proc' = [proc EXCEPT ![p] = u] /\ UNCHANGED <<source, tomb, record, retired>>
      BY <1>8, <2>2 DEF t, WalkTwice
    <3>2. /\ u.held = t.held /\ u.req = t.req /\ u.names = t.names
          /\ u.kind = "reclassify" /\ t.kind = "reclassify" /\ t.at = "walk"
      BY <1>0, <1>8 DEF WalkTwice, At, t, Transactions
    <3> HIDE DEF u
    <3>3. Sound(u)
      BY <1>0, <3>2 DEF Sound
    <3>. QED BY <1>0, <1>q, <3>1, <3>2, <3>3
  <2>. QED BY <1>8, <2>1, <2>2 DEF WalkTwice
<1>9. CASE LockOwnName(p)
  <2> DEFINE u == [t EXCEPT !.at = "rows", !.names = {t.req.name}]
  <2>1. proc' = [proc EXCEPT ![p] = u] /\ UNCHANGED <<source, tomb, record, retired>>
    BY <1>9 DEF LockOwnName, t
  <2>2. u.held = t.held /\ u.names = {t.req.name} /\ u.kind = "revise"
    BY <1>0, <1>9 DEF LockOwnName, At, t, Transactions
  <2>3. FreeNames(p, {t.req.name})
    BY <1>9 DEF LockOwnName, t
  <2> HIDE DEF u
  <2>4. Sound(u)
    BY <2>2 DEF Sound
  <2>. QED BY <1>0, <1>q, <2>1, <2>2, <2>3, <2>4
<1>. QED BY <1>1, <1>2, <1>3, <1>4, <1>5, <1>6, <1>7, <1>8, <1>9

-----------------------------------------------------------------------------
(* Commits.                                                                *)

\* What a commit has to show: the others' trees are still whole, and only names it
\* has the gates of are retired.
LEMMA Committed ==
    ASSUME TreeInv, TypeInv', NEW p \in Procs, NEW answer \in Answers, End(p, answer),
           NoLiveUnderErased', Addressed', retired' \subseteq retired \union proc[p].names,
           \A i \in Sources : source[i].row # "none" => source'[i].row # "none",
           \A q \in Procs \ {p} : proc[q].kind = "command" /\ proc[q].at = "rows"
                                  => Whole(proc[q])'
    PROVE  TreeInv'
<1>1. /\ proc'[p].kind = "none" /\ proc'[p].held = {} /\ proc'[p].names = {}
      /\ \A q \in Procs \ {p} : proc'[q] = proc[q]
  BY Ending DEF TreeInv, Becomes
<1>2. GatesApart'
  BY <1>1 DEF TreeInv, GatesApart
<1>3. ASSUME NEW q \in Procs PROVE Sound(proc[q])'
  <2>1. CASE q = p
    BY <1>1, <2>1 DEF Sound
  <2>2. CASE q # p
    <3>1. proc'[q] = proc[q] /\ Sound(proc[q]) /\ WellFormed(proc[q])
      BY <1>1, <2>2 DEF TreeInv, TypeInv
    <3>2. proc[q].kind = "command" => proc[q].req.root \in Sources
      BY <3>1 DEF WellFormed, Requests
    <3>3. proc[q].kind = "insert" => proc[q].req.name \in proc[q].names \ retired'
      BY <2>2, <3>1 DEF Sound, TreeInv, GatesApart
    <3>. QED BY <2>2, <3>1, <3>2, <3>3 DEF Sound
  <2>. QED BY <2>1, <2>2
<1>. QED BY <1>2, <1>3 DEF TreeInv

\* The gates of a tree that is about to change are the command's alone.
LEMMA Guarded ==
    ASSUME TreeInv, NEW p \in Procs, NEW q \in Procs \ {p},
           proc[q].kind = "command", proc[q].at = "rows"
    PROVE  /\ Whole(proc[q]) /\ proc[q].found \subseteq proc[q].held
           /\ proc[q].found \subseteq Sources
           /\ source[proc[q].req.root].row # "none" /\ proc[q].req.root \in Sources
           /\ proc[p].held \cap proc[q].found = {}
           /\ \A parent \in Parents :
                 FreeGates(p, ParentGate(parent)) => parent \notin proc[q].found
<1>1. Whole(proc[q]) /\ proc[q].found \subseteq proc[q].held /\ source[proc[q].req.root].row # "none"
  BY DEF TreeInv, Sound, Whole
<1>2. proc[q].req.root \in Sources /\ proc[q].found \subseteq Sources
  BY DEF TreeInv, TypeInv, WellFormed, Requests, Transactions
<1>3. proc[p].held \cap proc[q].found = {}
  BY <1>1 DEF TreeInv, GatesApart
<1>4. Root \notin proc[q].found
  BY <1>2 DEF Root, Sources
<1>5. ASSUME NEW parent \in Parents, FreeGates(p, ParentGate(parent)) PROVE parent \notin proc[q].found
  BY <1>1, <1>4, <1>5 DEF FreeGates, ParentGate
<1>. QED BY <1>1, <1>2, <1>3, <1>5

\* A command that is applied changes its own tree only, and all of it.
LEMMA ApplySafe ==
    ASSUME TreeInv, TypeInv', NEW p \in Procs, ApplyCommand(p)
    PROVE  TreeInv'
<1> DEFINE req == proc[p].req
           S == proc[p].found
<1>1. /\ proc[p].kind = "command" /\ proc[p].at = "rows" /\ req \in Requests
      /\ End(p, "applied") /\ record' = [record EXCEPT ![req.command] = req]
      /\ UNCHANGED retired
      /\ Erase(S) \/ Finalize(S, "restored") \/ Finalize(S, "purged")
  <2>1. proc[p].kind = "command" /\ proc[p].at = "rows" /\ req \in Requests
    BY DEF ApplyCommand, Found, At, TreeInv, TypeInv, WellFormed, Apply
  <2>2. req.action \in {"tombstone", "restore", "purge"}
    BY <2>1 DEF Requests
  <2>. QED BY <2>1, <2>2 DEF ApplyCommand, Apply
<1>2. /\ Whole(proc[p]) /\ S \subseteq proc[p].held /\ source[req.root].row # "none" /\ S \subseteq Sources
  BY <1>1 DEF TreeInv, Sound, Whole, TypeInv, Transactions
<1>3. ASSUME NEW i \in Sources
      PROVE  /\ source[i].row # "none" => source'[i].row # "none"
             /\ source'[i].row = "live" => source[i].row = "live" /\ i \notin S
             /\ i \notin S => source'[i] = source[i] /\ tomb'[i] = tomb[i]
             /\ Exists(i)' => Exists(i)
  <2>1. source[i] \in Rows
    BY DEF TreeInv, TypeInv
  <2>2. CASE Erase(S)
    <3>1. CASE i \in S /\ source[i].row = "live"
      <4>1. source'[i] = [source[i] EXCEPT !.row = "erased", !.version = @ + 1]
        BY <2>2, <3>1 DEF Erase
      <4>2. source'[i].row = "erased"
        BY <2>1, <4>1 DEF Rows
      <4>. QED BY <3>1, <4>2 DEF Exists
    <3>2. CASE ~(i \in S /\ source[i].row = "live")
      BY <2>2, <3>2 DEF Erase, Exists
    <3>. QED BY <3>1, <3>2
  <2>3. ASSUME NEW state, Finalize(S, state)
        PROVE  /\ i \in S => source'[i].row = "gone"
               /\ i \notin S => source'[i] = source[i] /\ tomb'[i] = tomb[i]
    BY <2>3 DEF Finalize, Blank
  <2>. QED BY <1>1, <2>2, <2>3 DEF Exists
<1>4. NoLiveUnderErased'
  <2> SUFFICES ASSUME NEW i \in Sources, source'[i].row = "live", source'[i].parent # Root
               PROVE  /\ source'[source'[i].parent].row = "live"
                      /\ tomb'[source'[i].parent] = "none"
    BY DEF NoLiveUnderErased, LiveSource
  <2>1. source[i].row = "live" /\ i \notin S /\ source'[i] = source[i]
    BY <1>3
  <2>2. LiveSource(source[i].parent) /\ source[i].parent \in Sources
    BY <2>1 DEF TreeInv, NoLiveUnderErased, TypeInv, Rows, Parents
  <2>3. source[i].parent \notin S
    BY <1>2, <2>1 DEF Whole
  <2>. QED BY <1>3, <2>1, <2>2, <2>3 DEF LiveSource
<1>5. Addressed'
  <2> SUFFICES ASSUME NEW c \in Commands, record'[c] # NoRecord
               PROVE  source'[record'[c].root].row # "none"
    BY DEF Addressed
  <2>1. CASE c = req.command
    <3>1. record'[c] = req
      BY <1>1, <2>1 DEF TreeInv, TypeInv
    <3>2. req.root \in Sources
      BY <1>1 DEF Requests
    <3>. QED BY <1>2, <1>3, <3>1, <3>2
  <2>2. CASE c # req.command
    <3>1. record'[c] = record[c] /\ record[c] \in Requests
      BY <1>1, <2>2 DEF TreeInv, TypeInv
    <3>2. record[c].root \in Sources
      BY <3>1 DEF Requests
    <3>. QED BY <1>3, <3>1, <3>2 DEF TreeInv, Addressed
  <2>. QED BY <2>1, <2>2
<1>6. ASSUME NEW q \in Procs \ {p}, proc[q].kind = "command", proc[q].at = "rows"
      PROVE  Whole(proc[q])'
  <2>1. /\ Whole(proc[q]) /\ proc[q].found \subseteq Sources /\ proc[q].req.root \in Sources
        /\ S \cap proc[q].found = {}
    BY <1>2, <1>6, Guarded
  <2>2. proc'[q] = proc[q]
    BY <1>1, <1>6, Ending DEF TreeInv, Becomes, Answers
  <2>3. \A i \in proc[q].found : Exists(i)'
    BY <1>3, <2>1 DEF Whole, Exists
  <2>4. \A i \in Sources : source'[i].row = "live" /\ source'[i].parent \in proc[q].found
                           => i \in proc[q].found
    BY <1>3, <2>1 DEF Whole
  <2>5. Exists(proc[q].req.root)' => proc[q].req.root \in proc[q].found
    BY <1>3, <2>1, <2>2 DEF Whole, Exists
  <2>. QED BY <2>1, <2>2, <2>3, <2>4, <2>5 DEF Whole
<1>. QED BY <1>1, <1>3, <1>4, <1>5, <1>6, Committed DEF Answers

\* A commit that may attach one live source, to a live parent whose gate it holds.
LEMMA Attached ==
    ASSUME TreeInv, TypeInv', NEW p \in Procs, End(p, "none"),
           UNCHANGED <<tomb, record, retired>>,
           NEW i \in Sources, NEW parent \in Parents,
           FreeGates(p, ParentGate(parent)),
           parent # Root => LiveSource(parent),
           source'[i].row = "live", source'[i].parent = parent,
           source[i].row \in {"none", "live"},
           \A j \in Sources \ {i} : source'[j] = source[j]
    PROVE  TreeInv'
<1>1. NoLiveUnderErased'
  <2> SUFFICES ASSUME NEW j \in Sources, source'[j].row = "live", source'[j].parent # Root
               PROVE  /\ source'[source'[j].parent].row = "live"
                      /\ tomb'[source'[j].parent] = "none"
    BY DEF NoLiveUnderErased, LiveSource
  <2>1. LiveSource(source'[j].parent) /\ source'[j].parent \in Sources
    <3>1. CASE j = i
      BY <3>1 DEF Parents, TypeInv, Rows
    <3>2. CASE j # i
      BY <3>2 DEF TreeInv, NoLiveUnderErased, TypeInv, Rows, Parents
    <3>. QED BY <3>1, <3>2
  <2>. QED BY <2>1 DEF LiveSource
<1>2. Addressed'
  <2>1. \A c \in Commands : record[c] # NoRecord => record[c].root \in Sources
    BY DEF TreeInv, TypeInv, Requests
  <2>. QED BY <2>1 DEF TreeInv, Addressed
<1>3. ASSUME NEW q \in Procs \ {p}, proc[q].kind = "command", proc[q].at = "rows"
      PROVE  Whole(proc[q])'
  <2>1. /\ Whole(proc[q]) /\ proc[q].found \subseteq Sources /\ proc[q].req.root \in Sources
        /\ parent \notin proc[q].found /\ source[proc[q].req.root].row # "none"
    BY <1>3, Guarded
  <2>2. proc'[q] = proc[q]
    BY <1>3, Ending DEF TreeInv, Becomes, Answers
  <2>3. \A j \in proc[q].found : Exists(j)'
    BY <2>1 DEF Whole, Exists
  <2>4. \A j \in Sources : source'[j].row = "live" /\ source'[j].parent \in proc[q].found
                           => j \in proc[q].found
    BY <2>1 DEF Whole
  <2>5. Exists(proc[q].req.root)' => proc[q].req.root \in proc[q].found
    BY <2>1, <2>2 DEF Whole, Exists
  <2>. QED BY <2>1, <2>2, <2>3, <2>4, <2>5 DEF Whole
<1>. QED BY <1>1, <1>2, <1>3, Committed DEF Answers

\* An insertion attaches a fresh source.
LEMMA InsertSafe ==
    ASSUME TreeInv, TypeInv', NEW p \in Procs, Insert(p)
    PROVE  TreeInv'
<1> DEFINE req == proc[p].req
<1>1. req \in Insertions
  BY DEF Insert, At, TreeInv, TypeInv, WellFormed, Attach
<1>2. PICK i \in Fresh :
        source' = [source EXCEPT ![i] =
                     [row |-> "live", parent |-> req.parent, version |-> 1,
                      base |-> req.name[1], partition |-> req.name[2]]]
  BY DEF Insert, First, Attach
<1>3. req.parent \in Parents /\ (req.parent # Root => LiveSource(req.parent))
  BY <1>1 DEF Insert, MayInsert, MayHold, Insertions, Attach
<1>4. /\ i \in Sources /\ source[i].row = "none"
      /\ source'[i].row = "live" /\ source'[i].parent = req.parent
      /\ \A j \in Sources \ {i} : source'[j] = source[j]
  BY <1>2 DEF Fresh, TreeInv, TypeInv
<1>5. /\ End(p, "none") /\ FreeGates(p, ParentGate(req.parent))
      /\ UNCHANGED <<tomb, record, retired>>
  BY DEF Insert, Attach
<1> HIDE DEF req
<1>. QED BY <1>3, <1>4, <1>5, Attached

\* A revision attaches a source that is there.
LEMMA ReviseSafe ==
    ASSUME TreeInv, TypeInv', NEW p \in Procs, Revise(p)
    PROVE  TreeInv'
<1> DEFINE req == proc[p].req
<1>1. req \in Revisions
  BY DEF Revise, GatesOfRevise, At, TreeInv, TypeInv, WellFormed, Amend
<1>2. /\ req.source \in Sources /\ req.parent \in Parents
      /\ req.parent # Root => LiveSource(req.parent)
      /\ source[req.source].row = "live"
  BY <1>1 DEF Revisions, Revise, MayRevise, MayHold, LiveSource, Amend, MayAmend
<1>3. source' = [source EXCEPT ![req.source].parent = req.parent, ![req.source].version = @ + 1]
  BY DEF Revise, Amend
<1> DEFINE i == req.source
<1>4. /\ source'[i].row = "live" /\ source'[i].parent = req.parent
      /\ \A j \in Sources \ {i} : source'[j] = source[j]
  <2>1. source[i] \in Rows /\ source \in [Sources -> Rows]
    BY <1>2 DEF TreeInv, TypeInv
  <2>2. source'[i] = [source[i] EXCEPT !.parent = req.parent, !.version = @ + 1]
    BY <1>2, <1>3, <2>1
  <2>. QED BY <1>2, <1>3, <2>1, <2>2 DEF Rows
<1>5. /\ End(p, "none") /\ FreeGates(p, ParentGate(req.parent))
      /\ UNCHANGED <<tomb, record, retired>>
  BY DEF Revise, GatesOfRevise, Amend
<1> HIDE DEF req
<1>. QED BY <1>2, <1>4, <1>5, Attached

\* A move to another partition attaches nothing.
LEMMA ReclassifySafe ==
    ASSUME TreeInv, TypeInv', NEW p \in Procs, Reclassify(p)
    PROVE  TreeInv'
<1> DEFINE S == proc[p].found
           to == proc[p].req.to
<1>1. /\ End(p, "none") /\ UNCHANGED <<tomb, record>>
      /\ retired' \subseteq retired \union proc[p].names
  <2>1. proc[p].req.names \subseteq proc[p].names /\ NamesOf(S, to) \subseteq proc[p].req.names
    BY DEF Reclassify, At, MayReclassify, TreeInv, Sound
  <2>2. Retirements(S, to) \subseteq NamesOf(S, to)
    BY DEF Retirements, NamesOf
  <2>3. retired' = retired \union Retirements(S, to)
    BY DEF Reclassify, Relocate
  <2>4. End(p, "none") /\ UNCHANGED <<tomb, record>>
    BY DEF Reclassify, Relocate
  <2>. QED BY <2>1, <2>2, <2>3, <2>4
<1>2. ASSUME NEW i \in Sources
      PROVE  source'[i].row = source[i].row /\ source'[i].parent \in {source[i].parent, Root}
  <2>1. source[i] \in Rows
    BY DEF TreeInv, TypeInv
  <2>2. source'[i] = IF i \in S THEN Relocated(i, S, to) ELSE source[i]
    BY DEF Reclassify, Relocation, Relocate
  <2>3. Relocated(i, S, to).row = source[i].row /\ Relocated(i, S, to).parent \in {source[i].parent, Root}
    <3> DEFINE up == IF source[i].parent \in S THEN source[i].parent ELSE Root
    <3>1. Relocated(i, S, to) = [source[i] EXCEPT !.partition = to, !.version = @ + 1, !.parent = up]
      BY Zenon DEF Relocated
    <3>2. up \in {source[i].parent, Root}
      OBVIOUS
    <3> HIDE DEF up
    <3>. QED BY <2>1, <3>1, <3>2 DEF Rows
  <2>. QED BY <2>2, <2>3
<1>3. NoLiveUnderErased'
  <2> SUFFICES ASSUME NEW j \in Sources, source'[j].row = "live", source'[j].parent # Root
               PROVE  /\ source'[source'[j].parent].row = "live"
                      /\ tomb'[source'[j].parent] = "none"
    BY DEF NoLiveUnderErased, LiveSource
  <2>1. source'[j].parent = source[j].parent /\ source[j].row = "live"
    BY <1>2
  <2>2. LiveSource(source[j].parent) /\ source[j].parent \in Sources
    BY <2>1 DEF TreeInv, NoLiveUnderErased, TypeInv, Rows, Parents
  <2>. QED BY <1>1, <1>2, <2>1, <2>2 DEF LiveSource
<1>4. Addressed'
  <2>1. \A c \in Commands : record[c] # NoRecord => record[c].root \in Sources
    BY DEF TreeInv, TypeInv, Requests
  <2>. QED BY <1>1, <1>2, <2>1 DEF TreeInv, Addressed
<1>5. ASSUME NEW q \in Procs \ {p}, proc[q].kind = "command", proc[q].at = "rows"
      PROVE  Whole(proc[q])'
  <2>1. /\ Whole(proc[q]) /\ proc[q].found \subseteq Sources /\ proc[q].req.root \in Sources
    BY <1>5, Guarded
  <2>2. proc'[q] = proc[q]
    BY <1>1, <1>5, Ending DEF TreeInv, Becomes, Answers
  <2>3. \A j \in Sources : Exists(j)' <=> Exists(j)
    BY <1>2 DEF Exists
  <2>4. \A j \in Sources : source'[j].row = "live" /\ source'[j].parent \in proc[q].found
                           => j \in proc[q].found
    BY <1>2, <2>1 DEF Whole, Root, Sources
  <2>. QED BY <2>1, <2>2, <2>3, <2>4 DEF Whole
<1>6. \A i \in Sources : source[i].row # "none" => source'[i].row # "none"
  BY <1>2
<1>. QED BY <1>1, <1>3, <1>4, <1>5, <1>6, Committed DEF Answers

\* The gate of a name keeps its retirement away from an insertion of it.
LEMMA RetirementSafe ==
    ASSUME TreeInv, TypeInv', NEW p \in Procs, NEW name, Retire(p, name) \/ Reopen(p, name)
    PROVE  TreeInv'
<1>1. UNCHANGED <<source, tomb, record, proc>>
  BY DEF Retire, Reopen
<1>2. ASSUME NEW q \in Procs PROVE Sound(proc[q])'
  <2>1. Sound(proc[q]) /\ WellFormed(proc[q])
    BY DEF TreeInv, TypeInv
  <2>2. proc[q].kind = "insert" => proc[q].req.name \notin retired'
    <3>1. CASE q = p
      BY <2>1, <3>1 DEF Retire, Reopen, MayBegin, WellFormed
    <3>2. CASE q # p
      BY <2>1, <3>2 DEF Retire, Reopen, FreeNames, Sound
    <3>. QED BY <3>1, <3>2
  <2>. QED BY <1>1, <2>1, <2>2 DEF Sound, Whole, Exists
<1>. QED BY <1>1, <1>2 DEF TreeInv, GatesApart, Addressed, NoLiveUnderErased, LiveSource

-----------------------------------------------------------------------------
(* The invariant.                                                          *)

\* The invariant holds initially: the forest is closed under erasure.
LEMMA InitSafe == TreeInit => TreeInv
<1> SUFFICES ASSUME TreeInit PROVE TreeInv
  OBVIOUS
<1>1. TypeInv
  BY InitType
<1>2. GatesApart /\ \A p \in Procs : Sound(proc[p])
  BY DEF TreeInit, Idle, GatesApart, Sound, SerialInit
<1>3. Addressed
  BY DEF TreeInit, Addressed, SerialInit
<1>4. PICK count \in 0 .. N :
          \E parent \in [1 .. count -> 0 .. N], erased \in SUBSET (1 .. count) :
             Forest(count, parent, erased)
  BY DEF TreeInit, SerialInit
<1>5. PICK parent \in [1 .. count -> 0 .. N], erased \in SUBSET (1 .. count) :
          Forest(count, parent, erased)
  BY <1>4
<1>6. ASSUME NEW i \in Sources
      PROVE  /\ i > count => source[i].row = "none"
             /\ i <= count => /\ source[i].row = IF i \in erased THEN "erased" ELSE "live"
                              /\ source[i].parent = parent[i]
             /\ i \notin erased => tomb[i] = "none"
  <2>1. /\ i > count => source[i] = Blank
        /\ ~(i > count) => source[i] = [Blank EXCEPT !.row = IF i \in erased THEN "erased" ELSE "live",
                                                    !.base = i, !.parent = parent[i]]
        /\ tomb[i] = IF i \in erased THEN "tombstoned" ELSE "none"
    BY <1>5 DEF Forest
  <2>2. i <= count <=> ~(i > count)
    BY DEF Sources
  <2>3. i > count => source[i].row = "none"
    BY <2>1 DEF Blank
  <2>4. i <= count => source[i].parent = parent[i]
    BY <2>1, <2>2 DEF Blank
  <2> DEFINE row == IF i \in erased THEN "erased" ELSE "live"
  <2>5. i <= count => source[i] = [Blank EXCEPT !.row = row, !.base = i, !.parent = parent[i]]
    BY <2>1, <2>2
  <2> HIDE DEF row
  <2>6. i <= count => source[i].row = row
    BY <2>5 DEF Blank
  <2>. QED BY <2>1, <2>3, <2>4, <2>6 DEF row
<1>7. ASSUME NEW i \in Sources, source[i].row = "live", source[i].parent # Root
      PROVE  LiveSource(source[i].parent)
  <2>1. i <= count /\ i \notin erased /\ source[i].parent = parent[i] /\ i \in 1 .. count
    BY <1>6, <1>7 DEF Sources
  <2>2. parent[i] < i /\ parent[i] \notin erased
    BY <1>5, <2>1 DEF Forest
  <2>3. parent[i] \in 0 .. N /\ parent[i] # 0
    BY <1>7, <2>1 DEF Root
  <2>4. parent[i] \in Sources /\ parent[i] <= count
    BY <2>1, <2>2, <2>3 DEF Sources
  <2>. QED BY <1>6, <2>1, <2>2, <2>4 DEF LiveSource
<1>. QED BY <1>1, <1>2, <1>3, <1>7 DEF TreeInv, NoLiveUnderErased

\* Every step keeps the invariant.
LEMMA NextSafe == TreeInv /\ [TreeNext]_treeVars => TreeInv'
<1> SUFFICES ASSUME TreeInv, [TreeNext]_treeVars PROVE TreeInv'
  OBVIOUS
<1>0. TypeInv'
  BY NextType DEF TreeInv
<1>1. CASE UNCHANGED treeVars
  BY <1>1 DEF treeVars, TreeInv, TypeInv, GatesApart, Addressed, NoLiveUnderErased,
     LiveSource, Sound, Whole, Exists
<1>2. CASE TreeNext
  <2>1. PICK p \in Procs : TreeNext!(p)
    BY <1>2 DEF TreeNext
  <2>2. CASE \/ \E req \in Sendable(p) : ReplayAtOnce(p, req)
             \/ MissCommand(p) \/ ReplayAfterWait(p) \/ RefuseCommand(p)
             \/ RefuseInsert(p) \/ RefuseRevise(p) \/ RefuseReclassify(p) \/ Abort(p)
    BY <1>0, <2>2, Quitting, QuitSafe
  <2>3. CASE ApplyCommand(p)
    BY <1>0, <2>3, ApplySafe
  <2>4. CASE Insert(p)
    BY <1>0, <2>4, InsertSafe
  <2>5. CASE Revise(p)
    BY <1>0, <2>5, ReviseSafe
  <2>6. CASE Reclassify(p)
    BY <1>0, <2>6, ReclassifySafe
  <2>7. CASE \E name \in Ingested : Retire(p, name) \/ Reopen(p, name)
    BY <1>0, <2>7, RetirementSafe
  <2>8. CASE \/ LockGate(p) \/ WalkAgain(p)
             \/ \E req \in Sendable(p) : BeginCommand(p, req)
             \/ \E name \in Ingested, parent \in Parents : BeginInsert(p, name, parent)
             \/ \E i \in Sources, parent \in Parents : BeginRevise(p, i, parent)
             \/ \E i \in Sources, partition \in Partitions : BeginReclassify(p, i, partition)
             \/ LockNames(p) \/ LockOwnName(p) \/ WalkTwice(p)
    BY <1>0, <2>8, StepSafe
  <2>. QED BY <2>1, <2>2, <2>3, <2>4, <2>5, <2>6, <2>7, <2>8 DEF Parents
<1>. QED BY <1>1, <1>2

\* The inductive invariant holds of every behaviour of the trees.
THEOREM TreeInvariant == TreeSpec => []TreeInv
BY InitSafe, NextSafe, PTL DEF TreeSpec

\* Every row, record, request and gate keeps its type, and no two transactions
\* ever hold the same advisory gate (source-identity-lifecycle.ts).
THEOREM TreeIsTyped == TreeSpec => []TreeTypeOK
<1>1. TreeInv => TreeTypeOK
  BY DEF TreeInv, TypeInv, GatesApart, TreeTypeOK, Rows, Parents, WellFormed, Transactions, Kinds
<1>. QED BY <1>1, TreeInvariant, PTL

\* No child appears or stays under an erased parent, however deletions,
\* insertions, revisions and moves interleave (loadAndLockSourceTree,
\* assertLiveSourceParents).
THEOREM NoLiveChildUnderErased == TreeSpec => []NoLiveUnderErased
<1>1. TreeInv => NoLiveUnderErased
  BY DEF TreeInv
<1>. QED BY <1>1, TreeInvariant, PTL

\* What a step opens was not retired before, and is retired afterwards only if the
\* source brings a retirement along.
LEMMA OpensNothing == TreeInv /\ [TreeNext]_treeVars => OpensNothingRetired
<1> SUFFICES ASSUME TreeInv, [TreeNext]_treeVars,
                    NEW i \in Sources, Arrives(i)
             PROVE  /\ Name(i)' \notin retired
                    /\ retired' = retired \union {Name(j)' : j \in Carried}
  BY DEF OpensNothingRetired
<1>a. \A j \in Sources : Name(j)' = <<source'[j].base, source'[j].partition>>
  BY DEF Name
<1>b. /\ source'[i].row = "live"
      /\ source[i].row = "none" \/ source'[i].partition # source[i].partition
  BY DEF Arrives
<1>0. source[i] \in Rows /\ source' # source
  BY <1>b DEF TreeInv, TypeInv
<1>1. TreeNext
  BY <1>0 DEF treeVars
<1>2. PICK p \in Procs : TreeNext!(p)
  BY <1>1 DEF TreeNext
<1>3. \/ ApplyCommand(p) \/ Insert(p) \/ Revise(p) \/ Reclassify(p)
  BY <1>0, <1>2 DEF LockGate, BeginCommand, ReplayAtOnce, WalkAgain, MissCommand,
     ReplayAfterWait, RefuseCommand, BeginInsert, RefuseInsert, BeginRevise, RefuseRevise,
     Retire, Reopen, BeginReclassify, LockNames, LockOwnName, WalkTwice, RefuseReclassify, Abort,
     Begin, Rollback
<1>4. CASE ApplyCommand(p)
  <2>1. proc[p].req.action \in {"tombstone", "restore", "purge"}
    BY <1>4 DEF ApplyCommand, Found, At, TreeInv, TypeInv, WellFormed, Requests, Apply
  <2>2. \/ Erase(proc[p].found)
        \/ Finalize(proc[p].found, "restored") \/ Finalize(proc[p].found, "purged")
    BY <1>4, <2>1 DEF ApplyCommand, Apply
  <2>3. CASE Erase(proc[p].found)
    <3>1. source'[i] = source[i] \/ source'[i] = [source[i] EXCEPT !.row = "erased", !.version = @ + 1]
      BY <2>3 DEF Erase
    <3>2. source'[i] = source[i]
      BY <1>0, <1>b, <3>1 DEF Rows
    <3>. QED BY <1>b, <3>2
  <2>4. ASSUME NEW state, Finalize(proc[p].found, state) PROVE FALSE
    <3>1. source'[i] = source[i] \/ source'[i].row = "gone"
      BY <2>4 DEF Finalize, Blank
    <3>. QED BY <1>b, <3>1
  <2>. QED BY <2>2, <2>3, <2>4
<1>5. CASE Insert(p)
  <2> DEFINE req == proc[p].req
  <2>1. req \in Insertions /\ req.name \notin retired
    BY <1>5 DEF Insert, At, TreeInv, TypeInv, WellFormed, Sound, Attach
  <2>2. PICK j \in Fresh :
          source' = [source EXCEPT ![j] =
                       [row |-> "live", parent |-> req.parent, version |-> 1,
                        base |-> req.name[1], partition |-> req.name[2]]]
    BY <1>5 DEF Insert, First, Attach
  <2>3. i = j /\ \A k \in Sources \ {i} : source'[k] = source[k]
    BY <1>b, <2>2 DEF TreeInv, TypeInv
  <2>4. source'[i].base = req.name[1] /\ source'[i].partition = req.name[2]
    BY <2>2, <2>3 DEF TreeInv, TypeInv
  <2>5. req.name = <<req.name[1], req.name[2]>>
    BY <2>1 DEF Insertions, Names
  <2>6. source[i].row = "none" /\ retired' = retired
    BY <1>5, <2>3 DEF Insert, Attach, Fresh
  <2>7. Name(i)' = req.name
    BY <1>a, <2>4, <2>5
  <2>8. Carried = {}
    BY <2>3, <2>6 DEF Carried, Arrives
  <2>. QED BY <2>1, <2>6, <2>7, <2>8
<1>6. CASE Revise(p)
  <2> DEFINE req == proc[p].req
  <2>1. source' = [source EXCEPT ![req.source].parent = req.parent, ![req.source].version = @ + 1]
    BY <1>6 DEF Revise, Amend
  <2>2. source'[i].row = source[i].row /\ source'[i].partition = source[i].partition
    BY <1>0, <2>1 DEF TreeInv, TypeInv, Rows
  <2>. QED BY <1>b, <2>2
<1>7. CASE Reclassify(p)
  <2> DEFINE S == proc[p].found
             to == proc[p].req.to
  <2>1. ASSUME NEW j \in S
        PROVE  /\ j \in Sources /\ source[j].row = "live" /\ source'[j].row = "live"
               /\ source[j].partition # to /\ Renamed(j, to) \notin retired
               /\ source'[j].partition = to /\ Name(j)' = Renamed(j, to)
    <3>1. j \in Sources /\ source[j] \in Rows
      BY DEF TreeInv, TypeInv, Transactions
    <3>2. /\ source[j].row = "live" /\ source[j].partition # to
          /\ Renamed(j, to) \notin retired
      BY <1>7 DEF Reclassify, MayReclassify, MayMove
    <3> DEFINE up == IF source[j].parent \in S THEN source[j].parent ELSE Root
    <3>3. source'[j] = Relocated(j, S, to)
      BY <1>7, <3>1 DEF Reclassify, Relocation, Relocate
    <3>4. source'[j] = [source[j] EXCEPT !.partition = to, !.version = @ + 1, !.parent = up]
      BY <3>3, Zenon DEF Relocated
    <3> HIDE DEF up, S, to
    <3>5. /\ source'[j].base = source[j].base /\ source'[j].partition = to
          /\ source'[j].row = source[j].row
      BY <3>1, <3>4 DEF Rows
    <3>. QED BY <1>a, <3>1, <3>2, <3>5 DEF Renamed
  <2>2. \A j \in Sources \ S : source'[j] = source[j]
    BY <1>7 DEF Reclassify, Relocation, Relocate
  <2>3. i \in S
    BY <1>b, <2>2
  <2>4. Carried = {j \in S : Name(j) \in retired}
    <3>1. \A j \in Sources : Arrives(j) /\ source[j].row # "none" <=> j \in S
      BY <2>1, <2>2 DEF Arrives
    <3> HIDE DEF S
    <3>. QED BY <2>1, <3>1 DEF Carried
  <2>5. retired' = retired \union Retirements(S, to)
    BY <1>7 DEF Reclassify, Relocate
  <2> HIDE DEF S, to
  <2>6. Retirements(S, to) = {Name(j)' : j \in Carried}
    <3>1. \A j \in Carried : Name(j)' = Renamed(j, to)
      BY <2>1, <2>4
    <3>2. Retirements(S, to) = {Renamed(j, to) : j \in Carried}
      BY <2>4 DEF Retirements
    <3>. QED BY <3>1, <3>2
  <2>. QED BY <2>1, <2>3, <2>5, <2>6
<1>. QED BY <1>3, <1>4, <1>5, <1>6, <1>7

\* "Once retirement returns, a later insert cannot commit", and "both its old and
\* destination identities remain retired": no insert and no move ever opens a live
\* source under a name that was retired before; a moved source keeps its
\* retirement, which its old name keeps too (lockSourceIdentityGates,
\* updateSourceTreePartitions).
THEOREM NothingRetiredIsOpened == TreeSpec => RetiredStaysClosed
<1>1. TreeInv /\ [TreeNext]_treeVars => [OpensNothingRetired]_treeVars
  BY OpensNothing
<1>. QED BY <1>1, TreeInvariant, PTL DEF TreeSpec, RetiredStaysClosed

\* A command that has its gates waits for nothing and is not deadlocked.
LEMMA WaitingForNothing ==
    \A p : At(p, "command", "rows") => ~Deadlocked(p)
<1> SUFFICES ASSUME NEW p, At(p, "command", "rows") PROVE ~Deadlocked(p)
  OBVIOUS
<1>1. WaitsFor(p) = {}
  BY DEF WaitsFor, NextGates, NextNames, First, At
<1>2. WithBlockers({}) /\ {} \in SUBSET Procs
  BY DEF WithBlockers
<1>. QED BY <1>1, <1>2 DEF Deadlocked

\* The answer of a command that is recorded, in one step.
LEMMA ReplaysRetries == TreeInv /\ [TreeNext]_treeVars => [RetryIsReplayed]_treeVars
<1> SUFFICES ASSUME TreeInv, [TreeNext]_treeVars, treeVars' # treeVars,
                    NEW q \in Procs, proc[q].kind = "command", proc'[q].at = "idle",
                    record[proc[q].req.command] = proc[q].req
             PROVE  proc'[q].answer = IF Deadlocked(q) THEN "aborted"
                                      ELSE IF Exists(proc[q].req.root) THEN "replayed"
                                      ELSE "missing"
  BY DEF RetryIsReplayed
<1> DEFINE req == proc[q].req
<1>0. /\ proc[q].at # "idle" /\ req \in Requests /\ Sound(proc[q]) /\ req # NoRecord
  <2>1. proc[q].at # "idle" /\ req \in Requests /\ Sound(proc[q])
    BY DEF TreeInv, TypeInv, WellFormed
  <2>. QED BY <2>1 DEF Requests, NoRecord
<1>1. PICK p \in Procs : TreeNext!(p)
  BY DEF TreeNext
<1>2. ASSUME NEW answer \in Answers, End(p, answer) PROVE p = q /\ proc'[q].answer = answer
  <2>1. TypeInv
    BY DEF TreeInv
  <2>2. proc'[p].answer = answer /\ \A r \in Procs \ {p} : proc'[r] = proc[r]
    BY <1>2, <2>1, Ending DEF Becomes
  <2>. QED BY <1>0, <2>2
<1>3. CASE MissCommand(p)
  <2>1. p = q /\ proc'[q].answer = "missing"
    BY <1>2, <1>3 DEF MissCommand, Rollback, Answers
  <2>2. Whole(proc[q]) /\ Missing(q)
    BY <1>0, <1>3, <2>1 DEF MissCommand, At, Sound
  <2>3. ~Exists(req.root) /\ ~Deadlocked(q)
    BY <1>3, <2>1, <2>2, WaitingForNothing DEF Whole, Missing, MissCommand
  <2>. QED BY <2>1, <2>3
<1>4. CASE ReplayAfterWait(p)
  <2>1. p = q /\ proc'[q].answer = Recorded(req)
    BY <1>2, <1>4, RecordedAnswers DEF ReplayAfterWait, Rollback
  <2>2. Whole(proc[q]) /\ ~Missing(q)
    BY <1>0, <1>4, <2>1 DEF ReplayAfterWait, Found, At, Sound
  <2>3. Exists(req.root) /\ ~Deadlocked(q)
    BY <1>4, <2>1, <2>2, WaitingForNothing DEF Whole, Missing, ReplayAfterWait, Found
  <2>4. Recorded(req) = "replayed"
    BY DEF Recorded
  <2>. QED BY <2>1, <2>3, <2>4
<1>5. CASE Abort(p)
  <2>1. p = q /\ proc'[q].answer = "aborted" /\ Deadlocked(q)
    BY <1>2, <1>5 DEF Abort, Rollback, Answers
  <2>. QED BY <2>1
<1>6. CASE RefuseCommand(p) \/ ApplyCommand(p)
  <2>1. p = q
    BY <1>2, <1>6 DEF RefuseCommand, ApplyCommand, Rollback, Answers, Apply
  <2>. QED BY <1>0, <1>6, <2>1 DEF RefuseCommand, ApplyCommand, Apply
<1>7. CASE \/ \E r \in Sendable(p) : ReplayAtOnce(p, r)
           \/ RefuseInsert(p) \/ RefuseRevise(p) \/ RefuseReclassify(p)
           \/ Insert(p) \/ Revise(p) \/ Reclassify(p)
  <2>1. p = q
    BY <1>2, <1>7, RecordedAnswers DEF ReplayAtOnce, RefuseInsert, RefuseRevise,
       RefuseReclassify, Insert, Revise, Reclassify, Rollback, Answers, Attach, Amend, Relocate
  <2>2. ASSUME NEW r \in Sendable(p) PROVE FALSE
    BY <1>0, <2>1, <2>2, SendableTypes DEF MayBegin, TreeInv
  <2>. QED BY <1>7, <2>1, <2>2 DEF RefuseInsert, RefuseRevise, RefuseReclassify,
              Insert, Revise, Reclassify, GatesOfRevise, At, Attach, Amend, Relocate
<1>8. CASE \E name \in Ingested : Retire(p, name) \/ Reopen(p, name)
  BY <1>0, <1>8 DEF Retire, Reopen
<1>9. ASSUME \/ LockGate(p) \/ WalkAgain(p)
             \/ \E r \in Sendable(p) : BeginCommand(p, r)
             \/ \E name \in Ingested, parent \in Parents : BeginInsert(p, name, parent)
             \/ \E i \in Sources, parent \in Parents : BeginRevise(p, i, parent)
             \/ \E i \in Sources, partition \in Partitions : BeginReclassify(p, i, partition)
             \/ LockNames(p) \/ LockOwnName(p) \/ WalkTwice(p)
      PROVE FALSE
  <2>0. proc \in [Procs -> Transactions]
    BY DEF TreeInv, TypeInv
  <2>1. CASE q # p
    <3>1. proc'[q] = proc[q]
      BY <1>9, <2>0, <2>1 DEF LockGate, WalkAgain, BeginCommand, BeginInsert, BeginRevise,
         BeginReclassify, LockNames, LockOwnName, WalkTwice, Begin, End
    <3>. QED BY <1>0, <3>1
  <2>2. CASE q = p
    <3>1. LockGate(p) \/ WalkAgain(p)
      BY <1>0, <1>9, <2>2, SendableTypes DEF BeginCommand, BeginInsert, BeginRevise,
         BeginReclassify, LockNames, LockOwnName, WalkTwice, At, MayBegin, TreeInv
    <3>2. proc[q].at = "walk"
      BY <2>2, <3>1 DEF LockGate, WalkAgain, At
    <3>3. proc'[q].at \in {"walk", "rows"}
      BY <2>0, <2>2, <3>1, <3>2 DEF LockGate, WalkAgain, Transactions
    <3>. QED BY <3>3
  <2>. QED BY <2>1, <2>2
<1>. QED BY <1>1, <1>3, <1>4, <1>5, <1>6, <1>7, <1>8, <1>9 DEF Parents

\* A delivery of a deletion command that another delivery has applied is
\* answered like it as long as the source's row is there, whatever happened in
\* between (applySourceLifecycleCommand).
THEOREM RetriesAreReplayed == TreeSpec => RetryReplaysWhileTheSourceIsThere
<1>. QED BY ReplaysRetries, TreeInvariant, PTL DEF TreeSpec, RetryReplaysWhileTheSourceIsThere

-----------------------------------------------------------------------------
(* The order of the gates.  Sources are numbered as they are created, and a *)
(* transaction that looks again for its tree finds new sources only: what it *)
(* wants is always younger than what it has.  With that, whoever is waited   *)
(* for waits for something younger still.                                    *)

\* Sources are created in the order of their numbers.
Numbered == \A i, j \in Sources : source[i].row # "none" /\ source[j].row = "none" => i < j

\* A parent was there once.
Parented ==
    \A i \in Sources : source[i].parent # Root => source[source[i].parent].row # "none"

\* What a transaction has found, has or wants was there once.  Only who walks gets
\* gates of a tree, and what begins has at most the name it inserts.
Known(t) == /\ \A g \in t.found \union t.want \union t.held : source[g].row # "none"
            /\ t.kind \in {"insert", "revise"} => t.at # "walk" /\ t.held = {}
            /\ t.at = "begun" => t.held = {} /\ (t.kind # "insert" => t.names = {})

\* What it wants is younger than what it has, and what a command has not found
\* of its tree yet is younger than both.
Ascending(t) ==
    /\ \A g \in t.want, h \in t.held : h < g
    /\ t.kind = "command" /\ t.at = "walk" =>
          \A j \in Tree(t.req.root) \ (t.want \union t.held), h \in t.want \union t.held : h < j

OrderInv == /\ Numbered /\ Parented
            /\ \A p \in Procs : Known(proc[p])
            /\ moved \/ \A p \in Procs : Ascending(proc[p])

\* What a step does to the rows, in one of four ways.
LEMMA RowsOfStep ==
    ASSUME TreeInv, NEW p \in Procs, TreeNext!(p)
    PROVE  \/ UNCHANGED source
           \/ /\ ApplyCommand(p)
              /\ \/ Erase(proc[p].found)
                 \/ Finalize(proc[p].found, "restored") \/ Finalize(proc[p].found, "purged")
           \/ Insert(p) \/ Revise(p) \/ Reclassify(p)
<1>1. CASE ApplyCommand(p)
  <2>1. proc[p].req.action \in {"tombstone", "restore", "purge"}
    BY <1>1 DEF ApplyCommand, Found, At, TreeInv, TypeInv, WellFormed, Requests, Apply
  <2>. QED BY <1>1, <2>1 DEF ApplyCommand, Apply
<1>2. CASE Insert(p) \/ Revise(p) \/ Reclassify(p)
  BY <1>2
<1>3. CASE ~(ApplyCommand(p) \/ Insert(p) \/ Revise(p) \/ Reclassify(p))
  BY <1>3 DEF LockGate, BeginCommand, ReplayAtOnce, WalkAgain, MissCommand,
     ReplayAfterWait, RefuseCommand, BeginInsert, RefuseInsert, BeginRevise, RefuseRevise,
     Retire, Reopen, BeginReclassify, LockNames, LockOwnName, WalkTwice, RefuseReclassify, Abort,
     Begin, Rollback
<1>. QED BY <1>1, <1>2, <1>3

\* One row that is inserted: the least number that is free, below a live parent.
LEMMA InsertedRow ==
    ASSUME TreeInv, NEW p \in Procs, Insert(p)
    PROVE  \E k \in Fresh, row \in Rows :
              /\ \A j \in Fresh : k <= j
              /\ source' = [source EXCEPT ![k] = row]
              /\ row.row = "live"
              /\ row.parent # Root => source[row.parent].row # "none" /\ row.parent # k
              /\ row.parent \in Parents
<1> DEFINE req == proc[p].req
<1>1. req \in Insertions /\ MayInsert(req.name, req.parent) /\ WellFormed(proc[p])
  BY DEF Insert, At, TreeInv, TypeInv, WellFormed, Attach
<1>2. PICK k \in First(Fresh) :
        source' = [source EXCEPT ![k] =
                     [row |-> "live", parent |-> req.parent, version |-> 1,
                      base |-> req.name[1], partition |-> req.name[2]]]
  BY DEF Insert, Attach
<1> DEFINE row == [row |-> "live", parent |-> req.parent, version |-> 1,
                   base |-> req.name[1], partition |-> req.name[2]]
<1>3. row \in Rows /\ row.parent = req.parent /\ row.row = "live" /\ req.parent \in Parents
  <2>1. req.parent \in Parents /\ req.name[1] \in Sources /\ req.name[2] \in Partitions
    BY <1>1 DEF Insertions, Names
  <2>. QED BY <2>1 DEF Rows
<1>4. req.parent # Root => source[req.parent].row = "live"
  BY <1>1 DEF MayInsert, MayHold, LiveSource
<1>5. k \in Fresh /\ source[k].row = "none" /\ \A j \in Fresh : k <= j
  BY <1>2 DEF First, Fresh
<1>. QED BY <1>2, <1>3, <1>4, <1>5

\* Rows stay, parents were there, and numbers are given in order.
LEMMA OrderOfRows ==
    ASSUME TreeInv, TreeInv', Numbered, Parented, NEW p \in Procs, TreeNext!(p)
    PROVE  /\ Numbered' /\ Parented'
           /\ \A i \in Sources : source[i].row # "none" => source'[i].row # "none"
<1>0. /\ source \in [Sources -> Rows] /\ source' \in [Sources -> Rows]
      /\ WellFormed(proc[p])
      /\ \A i \in Sources : source[i].parent \in Parents
  BY DEF TreeInv, TypeInv, Rows
<1>a. ASSUME \A i \in Sources : source'[i].row = "none" <=> source[i].row = "none",
             \A i \in Sources : source'[i].parent # Root =>
                 source'[i].parent \in Sources /\ source[source'[i].parent].row # "none"
      PROVE  /\ Numbered' /\ Parented'
             /\ \A i \in Sources : source[i].row # "none" => source'[i].row # "none"
  BY <1>a DEF Numbered, Parented
<1>1. CASE UNCHANGED source
  BY <1>1 DEF Numbered, Parented
<1>2. CASE ApplyCommand(p) /\ Erase(proc[p].found)
  <2>1. ASSUME NEW i \in Sources
        PROVE  source'[i].parent = source[i].parent /\ (source'[i].row = "none" <=> source[i].row = "none")
    <3>1. \/ source'[i] = source[i]
          \/ /\ source[i].row = "live"
             /\ source'[i] = [source[i] EXCEPT !.row = "erased", !.version = @ + 1]
      BY <1>2 DEF Erase
    <3>. QED BY <1>0, <3>1 DEF Rows
  <2>. QED BY <1>0, <1>a, <2>1 DEF Parented, Parents
<1>3. ASSUME NEW state, ApplyCommand(p), Finalize(proc[p].found, state)
      PROVE  /\ Numbered' /\ Parented'
             /\ \A i \in Sources : source[i].row # "none" => source'[i].row # "none"
  <2>1. \A i \in proc[p].found : source[i].row # "none"
    BY <1>3 DEF ApplyCommand, Found, Missing, Exists, Apply
  <2>2. ASSUME NEW i \in Sources
        PROVE  /\ source'[i].row = "none" <=> source[i].row = "none"
               /\ source'[i].parent \in {source[i].parent, Root}
    <3>1. \/ source'[i] = source[i]
          \/ i \in proc[p].found /\ source'[i].row = "gone" /\ source'[i].parent = Root
      BY <1>3 DEF Finalize, Blank
    <3>. QED BY <2>1, <3>1
  <2>. QED BY <1>0, <1>a, <2>2 DEF Parented, Parents
<1>4. CASE Insert(p)
  <2>1. PICK k \in Fresh, row \in Rows :
              /\ \A j \in Fresh : k <= j
              /\ source' = [source EXCEPT ![k] = row]
              /\ row.row = "live"
              /\ row.parent # Root => source[row.parent].row # "none" /\ row.parent # k
              /\ row.parent \in Parents
    BY <1>4, InsertedRow
  <2>2. k \in Sources /\ source[k].row = "none"
    BY DEF Fresh
  <2>3. /\ source'[k] = row
        /\ \A i \in Sources \ {k} : source'[i] = source[i]
    BY <1>0, <2>1, <2>2
  <2>4. ASSUME NEW i \in Sources, NEW j \in Sources, source'[i].row # "none", source'[j].row = "none"
        PROVE  i < j
    <3>1. j # k /\ source[j].row = "none" /\ k <= j
      BY <2>1, <2>3, <2>4 DEF Fresh
    <3>. QED BY <2>2, <2>3, <2>4, <3>1 DEF Numbered, Sources
  <2>5. ASSUME NEW i \in Sources, source'[i].parent # Root
        PROVE  source'[source'[i].parent].row # "none"
    <3>1. source'[i].parent \in Sources /\ source[source'[i].parent].row # "none"
      BY <1>0, <2>1, <2>3, <2>5 DEF Parented, Parents
    <3>. QED BY <2>1, <2>2, <2>3, <3>1
  <2>. QED BY <2>1, <2>2, <2>3, <2>4, <2>5 DEF Numbered, Parented
<1>5. CASE Revise(p)
  <2> DEFINE req == proc[p].req
  <2>1. /\ source' = [source EXCEPT ![req.source].parent = req.parent, ![req.source].version = @ + 1]
        /\ req \in Revisions /\ MayRevise(req)
    BY <1>0, <1>5 DEF Revise, GatesOfRevise, At, WellFormed, Amend
  <2>2. /\ req.parent \in Parents /\ req.source \in Sources
        /\ req.parent # Root => source[req.parent].row = "live"
    BY <2>1 DEF Revisions, MayRevise, MayHold, LiveSource, MayAmend
  <2>3. ASSUME NEW i \in Sources
        PROVE  source'[i].row = source[i].row /\ source'[i].parent \in {source[i].parent, req.parent}
    <3> HIDE DEF req
    <3>1. CASE i # req.source
      BY <1>0, <2>1, <3>1
    <3>2. CASE i = req.source
      <4>1. source'[i] = [source[i] EXCEPT !.parent = req.parent, !.version = @ + 1]
        BY <1>0, <2>1, <2>2, <3>2
      <4>. QED BY <1>0, <4>1 DEF Rows
    <3>. QED BY <3>1, <3>2
  <2>. QED BY <1>0, <1>a, <2>2, <2>3 DEF Parented, Parents
<1>6. CASE Reclassify(p)
  <2> DEFINE S == proc[p].found
             to == proc[p].req.to
  <2>1. ASSUME NEW i \in Sources
        PROVE  source'[i].row = source[i].row /\ source'[i].parent \in {source[i].parent, Root}
    <3>1. source'[i] = source[i] \/ source'[i] = Relocated(i, S, to)
      BY <1>6 DEF Reclassify, Relocation, Relocate
    <3> DEFINE up == IF source[i].parent \in S THEN source[i].parent ELSE Root
    <3>2. Relocated(i, S, to) = [source[i] EXCEPT !.partition = to, !.version = @ + 1, !.parent = up]
      BY Zenon DEF Relocated
    <3>3. up \in {source[i].parent, Root}
      OBVIOUS
    <3> HIDE DEF up
    <3>4. /\ Relocated(i, S, to).row = source[i].row
          /\ Relocated(i, S, to).parent = up
      BY <1>0, <3>2 DEF Rows
    <3>. QED BY <3>1, <3>3, <3>4
  <2>. QED BY <1>0, <1>a, <2>1 DEF Parented, Parents
<1>. QED BY <1>1, <1>2, <1>3, <1>4, <1>5, <1>6, RowsOfStep

\* A tree has no more members when sources go and none changes its parent.
LEMMA TreeShrinks ==
    ASSUME NEW i \in Sources,
           \A j \in Sources : Exists(j)' => Exists(j) /\ source'[j].parent = source[j].parent
    PROVE  Tree(i)' \subseteq Tree(i)
<1> SUFFICES ASSUME NEW j \in Tree(i)' PROVE j \in Tree(i)
  OBVIOUS
<1>1. j \in Sources /\ Exists(i) /\ Exists(j)
  BY DEF Tree
<1>2. ASSUME NEW S \in SUBSET Sources, i \in S, WithChildren(S) PROVE j \in S
  <2>1. WithChildren(S)'
    BY <1>2 DEF WithChildren
  <2>. QED BY <1>2, <2>1 DEF Tree
<1>. QED BY <1>1, <1>2 DEF Tree

\* A tree gains at most the row that is inserted.
LEMMA TreeGrows ==
    ASSUME NEW i \in Sources, NEW k \in Sources, NEW row, source \in [Sources -> Rows],
           source' = [source EXCEPT ![k] = row],
           Parented, source[k].row = "none", row.parent # k
    PROVE  \A j \in Tree(i)' : j \in Tree(i) \/ j = k
<1> SUFFICES ASSUME NEW j \in Tree(i)', j # k PROVE j \in Tree(i)
  OBVIOUS
<1>1. \A l \in Sources : /\ l # k => source'[l] = source[l]
                         /\ l = k => source'[l] = row
  OBVIOUS
<1>2. \A l \in Sources : source[l].parent # k
  BY DEF Parented, Root, Sources
<1>3. ASSUME NEW S \in SUBSET Sources, WithChildren(S) PROVE WithChildren(S \union {k})'
  BY <1>1, <1>2, <1>3 DEF WithChildren, Exists
<1>4. j \in Sources /\ Exists(j)
  BY <1>1 DEF Tree, Exists
<1>5. Exists(i)
  <2>1. CASE i = k
    <3>1. WithChildren({k})'
      <4>1. WithChildren({})
        <5>1. ASSUME NEW l \in Sources, source[l].parent \in {} PROVE l \in {}
          BY <5>1
        <5>. QED BY <5>1 DEF WithChildren
      <4>2. ({} \union {k}) = {k} /\ {} \in SUBSET Sources
        OBVIOUS
      <4>. QED BY <1>1, <1>2 DEF WithChildren, Exists
    <3>2. j \in {k}
      BY <2>1, <3>1 DEF Tree
    <3>. QED BY <3>2
  <2>2. CASE i # k
    BY <1>1, <2>2 DEF Tree, Exists
  <2>. QED BY <2>1, <2>2
<1>6. ASSUME NEW S \in SUBSET Sources, i \in S, WithChildren(S) PROVE j \in S
  <2>1. WithChildren(S \union {k})' /\ S \union {k} \in SUBSET Sources
    BY <1>3, <1>6
  <2>2. j \in S \union {k}
    BY <1>6, <2>1 DEF Tree
  <2>. QED BY <2>2
<1>. QED BY <1>4, <1>5, <1>6 DEF Tree

\* A revision or a move that changes no parent leaves rows and parents alone.
LEMMA RowsWithParents ==
    ASSUME TreeInv, NEW p \in Procs, Revise(p) \/ Reclassify(p), ~moved'
    PROVE  \A j \in Sources : source'[j].row = source[j].row /\ source'[j].parent = source[j].parent
<1>0. source \in [Sources -> Rows] /\ WellFormed(proc[p])
  BY DEF TreeInv, TypeInv
<1>1. CASE Revise(p)
  <2> DEFINE req == proc[p].req
  <2>1. /\ source' = [source EXCEPT ![req.source].parent = req.parent, ![req.source].version = @ + 1]
        /\ req \in Revisions /\ source[req.source].parent = req.parent
    BY <1>0, <1>1 DEF Revise, GatesOfRevise, At, WellFormed, Amend
  <2>2. req.source \in Sources
    BY <2>1 DEF Revisions
  <2>3. ASSUME NEW j \in Sources
        PROVE  source'[j].row = source[j].row /\ source'[j].parent = source[j].parent
    <3> HIDE DEF req
    <3>1. CASE j # req.source
      BY <1>0, <2>1, <3>1
    <3>2. CASE j = req.source
      <4>1. source'[j] = [source[j] EXCEPT !.parent = req.parent, !.version = @ + 1]
        BY <1>0, <2>1, <2>2, <3>2
      <4>. QED BY <1>0, <2>1, <3>2, <4>1 DEF Rows
    <3>. QED BY <3>1, <3>2
  <2>. QED BY <2>3
<1>2. CASE Reclassify(p)
  <2>1. ASSUME NEW j \in Sources
        PROVE  source'[j].row = source[j].row /\ source'[j].parent = source[j].parent
    <3> DEFINE S == proc[p].found
               to == proc[p].req.to
               up == IF source[j].parent \in S THEN source[j].parent ELSE Root
    <3>1. source'[j] = source[j] \/ source'[j] = Relocated(j, S, to)
      BY <1>2 DEF Reclassify, Relocation, Relocate
    <3>2. Relocated(j, S, to) = [source[j] EXCEPT !.partition = to, !.version = @ + 1, !.parent = up]
      BY Zenon DEF Relocated
    <3>3. source'[j].parent = source[j].parent
      BY <1>2 DEF Reclassify, Relocate
    <3> HIDE DEF up
    <3>4. Relocated(j, S, to).row = source[j].row
      BY <1>0, <3>2 DEF Rows
    <3>. QED BY <3>1, <3>3, <3>4
  <2>. QED BY <2>1
<1>. QED BY <1>1, <1>2

\* As long as no source changes its parent, what a step adds to a tree is a source
\* that was not there.
LEMMA TreesOfStep ==
    ASSUME TreeInv, TreeInv', Parented, NEW p \in Procs, TreeNext!(p), ~moved', NEW i \in Sources
    PROVE  \A j \in Tree(i)' : j \in Tree(i) \/ source[j].row = "none"
<1>0. source \in [Sources -> Rows] /\ WellFormed(proc[p])
  BY DEF TreeInv, TypeInv
<1>1. CASE UNCHANGED source
  BY <1>1 DEF Tree, WithChildren, Exists
<1>2. CASE ApplyCommand(p) /\ Erase(proc[p].found)
  <2>1. ASSUME NEW j \in Sources, Exists(j)'
        PROVE  Exists(j) /\ source'[j].parent = source[j].parent
    <3>1. \/ source'[j] = source[j]
          \/ /\ source[j].row = "live"
             /\ source'[j] = [source[j] EXCEPT !.row = "erased", !.version = @ + 1]
      BY <1>2 DEF Erase
    <3>. QED BY <1>0, <2>1, <3>1 DEF Rows, Exists
  <2>. QED BY <2>1, TreeShrinks
<1>3. ASSUME NEW state, Finalize(proc[p].found, state) PROVE Tree(i)' \subseteq Tree(i)
  <2>1. ASSUME NEW j \in Sources, Exists(j)'
        PROVE  Exists(j) /\ source'[j].parent = source[j].parent
    <3>1. source'[j] = source[j] \/ source'[j].row = "gone"
      BY <1>3 DEF Finalize, Blank
    <3>. QED BY <2>1, <3>1 DEF Exists
  <2>. QED BY <2>1, TreeShrinks
<1>4. CASE Insert(p)
  <2>1. PICK k \in Fresh, row \in Rows :
              /\ \A j \in Fresh : k <= j
              /\ source' = [source EXCEPT ![k] = row]
              /\ row.row = "live"
              /\ row.parent # Root => source[row.parent].row # "none" /\ row.parent # k
              /\ row.parent \in Parents
    BY <1>4, InsertedRow
  <2>2. k \in Sources /\ source[k].row = "none" /\ row.parent # k
    BY <2>1 DEF Fresh, Root, Sources
  <2>3. \A j \in Tree(i)' : j \in Tree(i) \/ j = k
    BY <1>0, <2>1, <2>2, TreeGrows
  <2>. QED BY <2>2, <2>3
<1>5. CASE Revise(p) \/ Reclassify(p)
  BY <1>5, RowsWithParents, TreeShrinks DEF Exists
<1>. QED BY <1>1, <1>2, <1>3, <1>4, <1>5, RowsOfStep

\* A tree is what it was while the rows are.
LEMMA TreeStays == ASSUME UNCHANGED source PROVE \A i : Tree(i)' = Tree(i)
BY DEF Tree, WithChildren, Exists

\* What moves together is there.
LEMMA WholeTreeExists ==
    ASSUME source \in [Sources -> Rows], NEW i \in Sources
    PROVE  \A j \in WholeTree(i) : j \in Sources /\ source[j].row # "none"
<1>1. \A j \in Ancestors(i) : j \in Sources /\ Exists(j)
  BY DEF Ancestors
<1>2. \A k \in Sources : \A j \in Tree(k) : j \in Sources /\ Exists(j)
  BY DEF Tree
<1>3. \A j \in WholeTree(i) : j \in Sources /\ Exists(j)
  BY <1>1, <1>2 DEF WholeTree
<1>. QED BY <1>3 DEF Exists

\* A transaction that is left alone keeps its order while another one steps.
LEMMA OrderOfOthers ==
    ASSUME TreeInv, TreeInv', OrderInv, NEW p \in Procs, TreeNext!(p),
           NEW q \in Procs, proc'[q] = proc[q]
    PROVE  Known(proc[q])' /\ (moved' \/ Ascending(proc[q])')
<1> DEFINE t == proc[q]
<1>0. /\ t \in Transactions /\ (t.kind = "command" => t.req.root \in Sources)
      /\ Known(t) /\ (moved \/ Ascending(t))
      /\ moved \in BOOLEAN
  BY DEF TreeInv, TypeInv, WellFormed, Requests, OrderInv
<1>1. /\ Numbered /\ Parented
      /\ \A i \in Sources : source[i].row # "none" => source'[i].row # "none"
  BY OrderOfRows DEF OrderInv
<1>2. Known(t)'
  BY <1>0, <1>1 DEF Known, Transactions
<1>3. ASSUME ~moved' PROVE Ascending(t)'
  <2>1. ~moved
    BY <1>0, <1>3 DEF LockGate, BeginCommand, ReplayAtOnce, WalkAgain, MissCommand,
       ReplayAfterWait, RefuseCommand, ApplyCommand, BeginInsert, Insert, RefuseInsert,
       BeginRevise, Revise, RefuseRevise, Retire, Reopen, BeginReclassify, LockNames,
       LockOwnName, WalkTwice, Reclassify, RefuseReclassify, Abort, Begin, Rollback, Apply,
       Attach, Amend, Relocate
  <2>2. Ascending(t)
    BY <1>0, <2>1
  <2>3. ASSUME t.kind = "command", t.at = "walk",
               NEW j \in Tree(t.req.root)' \ (t.want \union t.held),
               NEW h \in t.want \union t.held
        PROVE  h < j
    <3>1. h \in Sources /\ source[h].row # "none" /\ j \in Sources
      BY <1>0 DEF Known, Transactions, Tree
    <3>2. t.req.root \in Sources
      BY <1>0, <2>3
    <3>3. j \in Tree(t.req.root) \/ source[j].row = "none"
      BY <1>1, <1>3, <3>2, TreesOfStep
    <3>. QED BY <1>1, <2>2, <2>3, <3>1, <3>3 DEF Ascending, Numbered
  <2>. QED BY <2>2, <2>3 DEF Ascending
<1>. QED BY <1>2, <1>3

\* A transaction that has nothing and wants nothing is in order.
LEMMA Bare ==
    ASSUME NEW t, t.want = {}, t.held = {}, \A g \in t.found : source'[g].row # "none",
           t.at # "walk", t.at = "begun" /\ t.kind # "insert" => t.names = {}
    PROVE  Known(t)' /\ Ascending(t)'
BY DEF Known, Ascending

\* The transaction that steps keeps its order.
LEMMA OrderOfActor ==
    ASSUME TreeInv, TreeInv', OrderInv, NEW p \in Procs, TreeNext!(p)
    PROVE  Known(proc[p])' /\ (moved' \/ Ascending(proc[p])')
<1> DEFINE t == proc[p]
<1>0. /\ proc \in [Procs -> Transactions] /\ t \in Transactions
      /\ source \in [Sources -> Rows]
      /\ t.kind = "command" => t.req.root \in Sources
      /\ Known(t) /\ (moved \/ Ascending(t))
      /\ TypeInv
  BY DEF TreeInv, TypeInv, WellFormed, Requests, OrderInv
<1>a. ASSUME NEW answer \in Answers, End(p, answer)
      PROVE  Known(proc[p])' /\ (moved' \/ Ascending(proc[p])')
  <2>1. proc'[p] = [Idle EXCEPT !.answer = answer]
    BY <1>0, <1>a, Ending DEF Becomes
  <2>2. /\ proc'[p].want = {} /\ proc'[p].held = {} /\ proc'[p].found = {}
        /\ proc'[p].at = "idle"
    BY <2>1 DEF Idle
  <2>. QED BY <2>2, Bare
<1>1. CASE LockGate(p)
  <2>1. PICK g \in First(t.want) :
              proc' = [proc EXCEPT ![p].want = @ \ {g}, ![p].held = @ \union {g}]
    BY <1>1 DEF LockGate
  <2>2. /\ proc'[p].kind = t.kind /\ proc'[p].at = t.at /\ proc'[p].req = t.req
        /\ proc'[p].found = t.found /\ proc'[p].held = t.held \union {g}
        /\ proc'[p].want = t.want \ {g} /\ t.at = "walk"
    BY <1>0, <1>1, <2>1 DEF LockGate, Transactions
  <2>3. g \in t.want /\ \A h \in t.want : g <= h
    BY <2>1 DEF First
  <2>4. t.want \subseteq Sources /\ t.held \subseteq Sources
    BY <1>0 DEF Transactions
  <2>5. UNCHANGED <<source, moved>>
    BY <1>1 DEF LockGate
  <2>6. Known(proc[p])'
    BY <1>0, <2>2, <2>3, <2>5 DEF Known
  <2>7. ASSUME Ascending(t) PROVE Ascending(proc[p])'
    <3>1. \A h \in t.want \ {g} : g < h
      BY <2>3, <2>4 DEF Sources
    <3>2. Tree(proc[p].req.root)' = Tree(t.req.root)
      BY <2>2, <2>5, TreeStays
    <3>3. (t.want \ {g}) \union (t.held \union {g}) = t.want \union t.held
      BY <2>3
    <3>. QED BY <2>2, <2>7, <3>1, <3>2, <3>3 DEF Ascending
  <2>. QED BY <1>0, <2>5, <2>6, <2>7
<1>2. CASE WalkAgain(p)
  <2> DEFINE again == Tree(t.req.root)
  <2>1. t.kind = "command" /\ t.at = "walk" /\ t.want = {} /\ t.req.root \in Sources
    BY <1>0, <1>2 DEF WalkAgain, At
  <2>2. UNCHANGED <<source, moved>>
    BY <1>2 DEF WalkAgain
  <2>3. \A j \in again : j \in Sources /\ source[j].row # "none"
    BY DEF Tree, Exists
  <2>4. \A i : Tree(i)' = Tree(i)
    BY <2>2, TreeStays
  <2>5. proc' = IF again = t.found THEN [proc EXCEPT ![p].at = "rows"]
                ELSE [proc EXCEPT ![p].found = again, ![p].want = again \ t.held]
    BY <1>2 DEF WalkAgain
  <2> HIDE DEF again
  <2>6. CASE again = t.found
    <3>1. /\ proc'[p].kind = "command" /\ proc'[p].at = "rows" /\ proc'[p].want = {}
          /\ proc'[p].held = t.held /\ proc'[p].found = t.found
      BY <1>0, <2>1, <2>5, <2>6 DEF Transactions
    <3>. QED BY <1>0, <2>1, <2>2, <3>1 DEF Known, Ascending
  <2>7. CASE again # t.found
    <3>1. /\ proc'[p].kind = "command" /\ proc'[p].at = "walk" /\ proc'[p].req = t.req
          /\ proc'[p].want = again \ t.held /\ proc'[p].held = t.held
          /\ proc'[p].found = again
      BY <1>0, <2>1, <2>5, <2>7 DEF Transactions
    <3>2. Known(proc[p])'
      BY <1>0, <2>2, <2>3, <3>1 DEF Known
    <3>3. ASSUME Ascending(t) PROVE Ascending(proc[p])'
      <4>1. \A g \in again \ t.held, h \in t.held : h < g
        BY <2>1, <3>3 DEF Ascending, again
      <4>2. Tree(proc[p].req.root)' = again
        BY <2>4, <3>1 DEF again
      <4>. QED BY <3>1, <4>1, <4>2 DEF Ascending
    <3>. QED BY <1>0, <2>2, <3>2, <3>3
  <2>. QED BY <2>6, <2>7
<1>3. ASSUME NEW req \in Sendable(p), BeginCommand(p, req)
      PROVE  Known(proc[p])' /\ (moved' \/ Ascending(proc[p])')
  <2> DEFINE found == Tree(req.root)
             u == [Idle EXCEPT !.kind = "command", !.at = "walk", !.req = req,
                               !.found = found, !.want = found]
  <2>1. proc' = [proc EXCEPT ![p] = u] /\ UNCHANGED <<source, moved>>
    BY <1>3 DEF BeginCommand, Begin
  <2>2. found' = found
    BY <2>1 DEF Tree, WithChildren, Exists
  <2>3. \A j \in found : j \in Sources /\ source[j].row # "none"
    BY DEF Tree, Exists
  <2>4. /\ proc'[p].held = {} /\ proc'[p].found = found /\ proc'[p].want = found
        /\ proc'[p].req = req /\ proc'[p].at = "walk" /\ proc'[p].kind = "command"
    <3> HIDE DEF found
    <3>. QED BY <1>0, <2>1 DEF Idle
  <2>5. Tree(proc[p].req.root)' = found
    BY <2>2, <2>4
  <2> HIDE DEF found, u
  <2>. QED BY <2>1, <2>3, <2>4, <2>5 DEF Known, Ascending
<1>4. ASSUME NEW name \in Ingested, NEW parent \in Parents, BeginInsert(p, name, parent)
      PROVE  Known(proc[p])' /\ (moved' \/ Ascending(proc[p])')
  <2>1. /\ proc'[p].want = {} /\ proc'[p].held = {} /\ proc'[p].found = {}
        /\ proc'[p].kind = "insert" /\ proc'[p].at = "begun"
    BY <1>0, <1>4 DEF BeginInsert, Begin, Idle
  <2>. QED BY <2>1, Bare
<1>5. ASSUME NEW i \in Sources, NEW parent \in Parents, BeginRevise(p, i, parent)
      PROVE  Known(proc[p])' /\ (moved' \/ Ascending(proc[p])')
  <2>1. /\ proc'[p].want = {} /\ proc'[p].held = {} /\ proc'[p].found = {}
        /\ proc'[p].names = {} /\ proc'[p].at = "begun"
    BY <1>0, <1>5 DEF BeginRevise, Begin, Idle
  <2>. QED BY <2>1, Bare
<1>6. ASSUME NEW i \in Sources, NEW partition \in Partitions, BeginReclassify(p, i, partition)
      PROVE  Known(proc[p])' /\ (moved' \/ Ascending(proc[p])')
  <2> DEFINE found == WholeTree(i)
             u == [Idle EXCEPT !.kind = "reclassify", !.at = "begun", !.found = found,
                     !.req = [root |-> i, version |-> source[i].version,
                              to |-> partition, names |-> NamesOf(found, partition)]]
  <2>1. proc' = [proc EXCEPT ![p] = u] /\ UNCHANGED <<source, moved>>
    BY <1>6 DEF BeginReclassify, Begin
  <2>2. \A j \in found : source[j].row # "none"
    BY <1>0, WholeTreeExists
  <2>3. /\ proc'[p].want = {} /\ proc'[p].held = {} /\ proc'[p].found = found
        /\ proc'[p].names = {} /\ proc'[p].at = "begun"
    <3> HIDE DEF found
    <3>. QED BY <1>0, <2>1 DEF Idle
  <2>. QED BY <2>1, <2>2, <2>3, Bare
<1>7. CASE LockNames(p)
  <2>1. /\ proc'[p].want = t.found /\ proc'[p].held = t.held /\ proc'[p].found = t.found
        /\ proc'[p].kind = "reclassify" /\ proc'[p].at = "walk" /\ t.at = "begun"
        /\ UNCHANGED source
    BY <1>0, <1>7 DEF LockNames, At, Transactions
  <2>2. t.held = {}
    BY <1>0, <2>1 DEF Known
  <2>. QED BY <1>0, <2>1, <2>2 DEF Known, Ascending
<1>8. CASE WalkTwice(p)
  <2>1. CASE End(p, "none")
    BY <1>a, <2>1 DEF Answers
  <2>2. CASE proc' = [proc EXCEPT ![p].at = "rows"]
    <3>1. /\ proc'[p].want = {} /\ proc'[p].held = t.held /\ proc'[p].found = t.found
          /\ proc'[p].kind = "reclassify" /\ proc'[p].at = "rows"
          /\ UNCHANGED source
      BY <1>0, <1>8, <2>2 DEF WalkTwice, At, Transactions
    <3>. QED BY <1>0, <3>1 DEF Known, Ascending
  <2>. QED BY <1>8, <2>1, <2>2 DEF WalkTwice
<1>9. CASE \E name \in Ingested : Retire(p, name) \/ Reopen(p, name)
  <2>1. proc'[p] = proc[p]
    BY <1>9 DEF Retire, Reopen
  <2>. QED BY <2>1, OrderOfOthers
<1>10. CASE \/ \E req \in Sendable(p) : ReplayAtOnce(p, req)
            \/ MissCommand(p) \/ ReplayAfterWait(p) \/ RefuseCommand(p)
            \/ RefuseInsert(p) \/ RefuseRevise(p) \/ RefuseReclassify(p) \/ Abort(p)
  BY <1>a, <1>10, Quitting DEF Quits
<1>11. CASE ApplyCommand(p) \/ Insert(p) \/ Revise(p) \/ Reclassify(p)
  BY <1>a, <1>11 DEF ApplyCommand, Insert, Revise, Reclassify, Answers, Apply, Attach, Amend, Relocate
<1>12. CASE LockOwnName(p)
  <2>1. /\ proc'[p].want = {} /\ proc'[p].held = t.held /\ proc'[p].found = t.found
        /\ proc'[p].kind = "revise" /\ proc'[p].at = "rows" /\ t.at = "begun"
        /\ UNCHANGED source
    BY <1>0, <1>12 DEF LockOwnName, At, Transactions
  <2>2. t.held = {}
    BY <1>0, <2>1 DEF Known
  <2>. QED BY <1>0, <2>1, <2>2 DEF Known, Ascending
<1>. QED BY <1>1, <1>2, <1>3, <1>4, <1>5, <1>6, <1>7, <1>8, <1>9, <1>10, <1>11, <1>12 DEF Parents

\* The gates are in order initially: nobody has one.
LEMMA InitOrder == TreeInit => OrderInv
<1> SUFFICES ASSUME TreeInit PROVE OrderInv
  OBVIOUS
<1>1. PICK count \in 0 .. N :
          \E parent \in [1 .. count -> 0 .. N], erased \in SUBSET (1 .. count) :
             Forest(count, parent, erased)
  BY DEF TreeInit, SerialInit
<1>2. PICK parent \in [1 .. count -> 0 .. N], erased \in SUBSET (1 .. count) :
          Forest(count, parent, erased)
  BY <1>1
<1>3. ASSUME NEW i \in Sources
      PROVE  /\ i > count => source[i].row = "none" /\ source[i].parent = Root
             /\ i <= count => source[i].row # "none" /\ source[i].parent = parent[i]
  <2>1. /\ i > count => source[i] = Blank
        /\ ~(i > count) => source[i] = [Blank EXCEPT !.row = IF i \in erased THEN "erased" ELSE "live",
                                                    !.base = i, !.parent = parent[i]]
    BY <1>2 DEF Forest
  <2>2. i <= count <=> ~(i > count)
    BY DEF Sources
  <2>3. i > count => source[i].row = "none" /\ source[i].parent = Root
    BY <2>1 DEF Blank
  <2>4. i <= count => source[i].parent = parent[i]
    BY <2>1, <2>2 DEF Blank
  <2> DEFINE row == IF i \in erased THEN "erased" ELSE "live"
  <2>5. i <= count => source[i] = [Blank EXCEPT !.row = row, !.base = i, !.parent = parent[i]]
    BY <2>1, <2>2
  <2> HIDE DEF row
  <2>6. i <= count => source[i].row = row
    BY <2>5 DEF Blank
  <2>. QED BY <2>3, <2>4, <2>6 DEF row
<1>4. Numbered
  BY <1>3 DEF Numbered, Sources
<1>5. ASSUME NEW i \in Sources, source[i].parent # Root
      PROVE  source[source[i].parent].row # "none"
  <2>1. i <= count /\ source[i].parent = parent[i] /\ i \in 1 .. count
    BY <1>3, <1>5 DEF Sources
  <2>2. parent[i] < i /\ parent[i] \in 0 .. N /\ parent[i] # 0
    BY <1>2, <1>5, <2>1 DEF Forest, Root
  <2>3. parent[i] \in Sources /\ parent[i] <= count
    BY <2>1, <2>2 DEF Sources
  <2>. QED BY <1>3, <2>1, <2>3
<1>6. \A p \in Procs : Known(proc[p]) /\ Ascending(proc[p])
  BY DEF TreeInit, Idle, Known, Ascending, SerialInit
<1>. QED BY <1>4, <1>5, <1>6 DEF OrderInv, Parented

\* A step is one transaction's.
LEMMA LeftAlone ==
    ASSUME TreeInv, NEW p \in Procs, TreeNext!(p), NEW q \in Procs \ {p}
    PROVE  proc'[q] = proc[q]
<1>1. proc \in [Procs -> Transactions]
  BY DEF TreeInv, TypeInv
<1>. QED
  BY <1>1 DEF LockGate, BeginCommand, ReplayAtOnce, WalkAgain, MissCommand,
     ReplayAfterWait, RefuseCommand, ApplyCommand, BeginInsert, Insert, RefuseInsert,
     BeginRevise, Revise, RefuseRevise, Retire, Reopen, BeginReclassify, LockNames,
     LockOwnName, WalkTwice, Reclassify, RefuseReclassify, Abort, Begin, Rollback, End

\* Every step keeps the gates in order.
LEMMA NextOrder == TreeInv /\ TreeInv' /\ OrderInv /\ [TreeNext]_treeVars => OrderInv'
<1> SUFFICES ASSUME TreeInv, TreeInv', OrderInv, [TreeNext]_treeVars PROVE OrderInv'
  OBVIOUS
<1>1. CASE UNCHANGED treeVars
  <2>1. \A i : Tree(i)' = Tree(i)
    BY <1>1, TreeStays DEF treeVars
  <2>2. ASSUME NEW p \in Procs
        PROVE  Known(proc[p])' /\ (moved' \/ Ascending(proc[p])')
    BY <1>1, <2>1 DEF treeVars, OrderInv, Known, Ascending
  <2>3. Numbered' /\ Parented'
    BY <1>1 DEF treeVars, OrderInv, Numbered, Parented
  <2>. QED BY <2>2, <2>3 DEF OrderInv
<1>2. CASE TreeNext
  <2>1. PICK p \in Procs : TreeNext!(p)
    BY <1>2 DEF TreeNext
  <2>2. Numbered' /\ Parented'
    BY <2>1, OrderOfRows DEF OrderInv
  <2>3. \A q \in Procs \ {p} : proc'[q] = proc[q]
    BY <2>1, LeftAlone
  <2>4. ASSUME NEW q \in Procs PROVE Known(proc[q])' /\ (moved' \/ Ascending(proc[q])')
    BY <2>1, <2>3, OrderOfActor, OrderOfOthers
  <2>. QED BY <2>2, <2>4 DEF OrderInv
<1>. QED BY <1>1, <1>2

\* Whoever holds a gate of a tree waits, if at all, for one that is younger than
\* all it holds; whoever waits for a name has nothing, and what attaches a child has
\* only a name.  So a waiting never comes back to where it began.
LEMMA NoCircle ==
    ASSUME TreeInv, \A q \in Procs : Known(proc[q]) /\ Ascending(proc[q]), NEW p \in Procs
    PROVE  ~Deadlocked(p)
<1> DEFINE Holding == {q \in Procs : proc[q].held # {}}
           Attaching(q) == \/ proc[q].kind = "insert"
                           \/ proc[q].kind = "revise" /\ proc[q].at = "rows"
           Empty(q) == proc[q].at = "begun" /\ proc[q].kind # "insert"
<1>0. \A q \in Procs : /\ proc[q].want \subseteq Sources /\ proc[q].held \subseteq Sources
                       /\ Empty(q) => proc[q].held = {} /\ proc[q].names = {}
                       /\ Attaching(q) => proc[q].held = {}
  BY DEF TreeInv, TypeInv, Transactions, Known
<1>1. /\ \A q \in Procs : ~Empty(q) => NextNames(q) = {}
      /\ \A q \in Procs : ~Attaching(q) => NextGates(q) = First(proc[q].want)
      /\ \A q \in Holding : ~Empty(q) /\ ~Attaching(q)
  BY <1>0 DEF NextGates, NextNames
<1>2. \A q \in Procs : \A r \in WaitsFor(q) :
         r \in Procs /\ (NextNames(q) = {} => r \in Holding /\ NextGates(q) \cap proc[r].held # {})
  BY DEF WaitsFor
<1>3. ASSUME NEW S \in SUBSET Procs, p \notin S, WaitsFor(p) \subseteq S,
             \A q \in S : WaitsFor(q) \subseteq S
      PROVE  ~Deadlocked(p)
  <2>1. WithBlockers(S)
    BY <1>3 DEF WithBlockers
  <2>. QED BY <1>3, <2>1 DEF Deadlocked
<1>4. CASE Empty(p)
  <2>1. ASSUME NEW q \in Procs, NEW r \in WaitsFor(q) PROVE r \in Procs \ {p}
    <3>1. r \in Procs /\ (proc[r].held # {} \/ proc[r].names # {})
      BY <2>1 DEF WaitsFor
    <3>. QED BY <1>0, <1>4, <3>1
  <2>. QED BY <1>3, <2>1
<1>5. CASE Attaching(p) /\ ~Empty(p)
  <2>1. p \notin Holding /\ NextNames(p) = {}
    BY <1>0, <1>1, <1>5
  <2>. QED BY <1>1, <1>2, <1>3, <2>1
<1>6. CASE ~Attaching(p) /\ ~Empty(p)
  <2>0. NextGates(p) = First(proc[p].want) /\ NextNames(p) = {}
    BY <1>1, <1>6
  <2>1. CASE WaitsFor(p) = {}
    BY <1>3, <2>1
  <2>2. CASE WaitsFor(p) # {}
    <3>1. PICK g : g \in First(proc[p].want)
      BY <1>2, <2>0, <2>2
    <3>2. g \in proc[p].want /\ g \in Sources /\ \A h \in First(proc[p].want) : h = g
      BY <1>0, <3>1 DEF First, Sources
    <3> DEFINE S == {q \in Holding : \A h \in proc[q].want : g < h}
    <3>3. p \notin S
      BY <3>2 DEF Sources
    <3>4. WaitsFor(p) \subseteq S
      <4>1. \A r \in WaitsFor(p) : r \in Holding /\ g \in proc[r].held
        BY <1>2, <2>0, <3>2
      <4>. QED BY <4>1 DEF Ascending
    <3>5. ASSUME NEW q \in S, NEW r \in WaitsFor(q) PROVE r \in S
      <4>1. r \in Holding /\ First(proc[q].want) \cap proc[r].held # {}
        BY <1>1, <1>2
      <4>2. PICK k \in First(proc[q].want) : k \in proc[r].held
        BY <4>1
      <4>3. g < k /\ k \in Sources
        BY <1>0, <4>2 DEF First
      <4>4. \A h \in proc[r].want : k < h
        BY <4>1, <4>2 DEF Ascending
      <4>. QED BY <1>0, <3>2, <4>1, <4>3, <4>4 DEF Sources
    <3> HIDE DEF S
    <3>6. S \in SUBSET Procs
      BY DEF S
    <3>. QED BY <1>3, <3>3, <3>4, <3>5, <3>6
  <2>. QED BY <2>1, <2>2
<1>. QED BY <1>4, <1>5, <1>6

\* "sorting the remaining ids gives concurrent root operations a consistent lock
\* order": as long as no source changes its parent, no transactions, of any kind
\* and however many, wait for each other's gates in a circle
\* (loadAndLockSourceTree, lockSourceParentAttachmentGates,
\* lockSourceIdentityGates).
THEOREM GatesNeverWaitInACircle == TreeSpec => []NoGateCycle
<1>1. TreeSpec => []OrderInv
  BY TreeInvariant, InitOrder, NextOrder, PTL DEF TreeSpec
<1>2. TreeInv /\ OrderInv => NoGateCycle
  BY NoCircle DEF OrderInv, NoGateCycle
<1>. QED BY <1>1, <1>2, TreeInvariant, PTL

-----------------------------------------------------------------------------
(* One after the other.  Who has the gates of a tree, and has looked again   *)
(* with all of them in hand, has the tree itself until it commits, so that   *)
(* each commit changes what a serial transaction would.                      *)

\* A move has, or waits for, the gates of all it has found, its root among them;
\* what either kind goes on with is the tree as it is.
Scoped(t) ==
    /\ t.kind = "reclassify" => t.req.root \in t.found
    /\ t.kind = "reclassify" /\ t.at \in {"walk", "rows"} => t.found \subseteq t.held \union t.want
    /\ t.kind = "reclassify" /\ t.at = "rows" => t.want = {}
    /\ ~moved /\ t.at = "rows" => /\ t.kind = "command" => t.found = Tree(t.req.root)
                                  /\ t.kind = "reclassify" => t.found = WholeTree(t.req.root)

ScopeInv == \A p \in Procs : Scoped(proc[p])

\* A member of a tree that is not its root has its parent in the tree.
LEMMA ParentInside ==
    ASSUME NEW i \in Sources, NEW j \in Tree(i), j # i
    PROVE  source[j].parent \in Tree(i)
<1> DEFINE S == {l \in Tree(i) : l = i \/ source[l].parent \in Tree(i)}
<1>1. i \in S /\ S \in SUBSET Sources
  BY TreeClosed DEF Tree
<1>2. WithChildren(S)
  BY TreeClosed DEF WithChildren
<1>3. j \in S
  <2> HIDE DEF S
  <2>. QED BY <1>1, <1>2 DEF Tree
<1>. QED BY <1>3

\* A tree stays what it is while its members stay, with their parents, and nothing
\* is attached to them.
LEMMA TreeKept ==
    ASSUME NEW i \in Sources, Exists(i)' => Exists(i),
           \A j \in Tree(i) : Exists(j)' /\ source'[j].parent = source[j].parent,
           \A j \in Sources : Exists(j)' /\ source'[j].parent \in Tree(i) =>
               Exists(j) /\ source[j].parent = source'[j].parent
    PROVE  Tree(i)' = Tree(i)
<1>1. ASSUME NEW j \in Tree(i)' PROVE j \in Tree(i)
  <2>0. PICK S : S = Tree(i)
    OBVIOUS
  <2>1. i \in S /\ S \in SUBSET Sources
    BY <1>1, <2>0, TreeClosed DEF Tree
  <2>2. \A l \in Sources : Exists(l)' /\ source'[l].parent \in S => l \in S
    BY <2>0, TreeClosed
  <2>3. WithChildren(S)'
    BY <2>2 DEF WithChildren
  <2>4. j \in S
    BY <1>1, <2>1, <2>3 DEF Tree
  <2>. QED BY <2>0, <2>4
<1>2. ASSUME NEW j \in Tree(i) PROVE j \in Tree(i)'
  <2>1. Exists(i) /\ j \in Sources /\ i \in Tree(i)
    BY TreeClosed DEF Tree
  <2>2. Exists(i)' /\ Exists(j)'
    BY <1>2, <2>1
  <2>3. ASSUME NEW S \in SUBSET Sources, i \in S, WithChildren(S)' PROVE j \in S
    <3> DEFINE T == S \union (Sources \ Tree(i))
    <3>1. ASSUME NEW l \in Sources, Exists(l), source[l].parent \in T PROVE l \in T
      <4>1. CASE l = i \/ l \notin Tree(i)
        BY <2>3, <4>1
      <4>2. CASE l # i /\ l \in Tree(i)
        <5>1. source[l].parent \in Tree(i)
          BY <4>2, ParentInside
        <5>2. source'[l].parent \in S /\ Exists(l)'
          BY <3>1, <4>2, <5>1
        <5>3. l \in S
          BY <2>3, <5>2 DEF WithChildren
        <5>. QED BY <5>3
      <4>. QED BY <4>1, <4>2
    <3>2. i \in T /\ T \in SUBSET Sources
      BY <2>3
    <3> HIDE DEF T
    <3>3. WithChildren(T)
      BY <3>1 DEF WithChildren
    <3>4. j \in T
      BY <1>2, <3>2, <3>3 DEF Tree
    <3>. QED BY <1>2, <3>4 DEF T
  <2>. QED BY <2>1, <2>2, <2>3 DEF Tree
<1>. QED BY <1>1, <1>2

\* The sources above one are there, have it if it exists, and the parents of their
\* own that exist.
LEMMA AncestorsClosed ==
    ASSUME NEW i \in Sources, \A l \in Sources : source[l].parent \in Parents
    PROVE  /\ \A j \in Ancestors(i) : j \in Sources /\ Exists(j)
           /\ Exists(i) => i \in Ancestors(i)
           /\ \A j \in Ancestors(i) :
                 source[j].parent # Root /\ Exists(source[j].parent) => source[j].parent \in Ancestors(i)
<1>1. ASSUME NEW j \in Ancestors(i), source[j].parent # Root, Exists(source[j].parent)
      PROVE  source[j].parent \in Ancestors(i)
  <2>1. j \in Sources /\ Exists(j) /\ source[j].parent \in Sources
    BY <1>1 DEF Ancestors, Parents
  <2>2. ASSUME NEW S \in SUBSET Sources, i \in S, WithParents(S) PROVE source[j].parent \in S
    <3>1. j \in S
      BY <2>2 DEF Ancestors
    <3>. QED BY <1>1, <2>1, <2>2, <3>1 DEF WithParents
  <2>. QED BY <1>1, <2>1, <2>2 DEF Ancestors
<1>. QED BY <1>1 DEF Ancestors

\* The sources above one stay what they are while they stay, with their parents,
\* and no parent comes back.
LEMMA AncestorsKept ==
    ASSUME NEW i \in Sources, Exists(i)' => Exists(i),
           \A l \in Sources : source[l].parent \in Parents,
           \A j \in Ancestors(i) :
               /\ Exists(j)' /\ source'[j].parent = source[j].parent
               /\ source[j].parent # Root =>
                     (Exists(source[j].parent)' => Exists(source[j].parent))
    PROVE  Ancestors(i)' = Ancestors(i)
<1>1. ASSUME NEW j \in Ancestors(i)' PROVE j \in Ancestors(i)
  <2>0. PICK S : S = Ancestors(i) \union {l \in Sources : ~Exists(l)'}
    OBVIOUS
  <2>1. i \in S /\ S \in SUBSET Sources
    BY <2>0, AncestorsClosed DEF Ancestors
  <2>2. ASSUME NEW l \in S, Exists(l)', source'[l].parent # Root PROVE source'[l].parent \in S
    <3>1. l \in Ancestors(i) /\ source'[l].parent = source[l].parent
      BY <2>0, <2>2
    <3>2. source[l].parent \in Sources
      BY <2>2, <3>1, AncestorsClosed DEF Parents
    <3>. QED BY <2>0, <2>2, <3>1, <3>2, AncestorsClosed
  <2>3. j \in Sources /\ Exists(j)'
    BY <1>1 DEF Ancestors
  <2>4. WithParents(S)'
    BY <2>2 DEF WithParents
  <2>5. j \in S
    BY <1>1, <2>1, <2>4 DEF Ancestors
  <2>. QED BY <2>0, <2>3, <2>5
<1>2. ASSUME NEW j \in Ancestors(i) PROVE j \in Ancestors(i)'
  <2>1. j \in Sources /\ Exists(j) /\ Exists(j)'
    BY <1>2 DEF Ancestors
  <2>2. ASSUME NEW S \in SUBSET Sources, i \in S, WithParents(S)' PROVE j \in S
    <3> DEFINE T == (S \cap Ancestors(i)) \union {l \in Sources : ~Exists(l)}
    <3>1. i \in T /\ T \in SUBSET Sources
      BY <2>2, AncestorsClosed
    <3>2. ASSUME NEW l \in T, Exists(l), source[l].parent # Root PROVE source[l].parent \in T
      <4>1. l \in S /\ l \in Ancestors(i) /\ source[l].parent \in Sources
        BY <3>2, AncestorsClosed DEF Parents
      <4>2. source[l].parent \in S
        BY <2>2, <3>2, <4>1 DEF WithParents
      <4>. QED BY <3>2, <4>1, <4>2, AncestorsClosed
    <3> HIDE DEF T
    <3>3. WithParents(T)
      BY <3>2 DEF WithParents
    <3>4. j \in T
      BY <1>2, <3>1, <3>3 DEF Ancestors
    <3>. QED BY <2>1, <3>4 DEF T
  <2>. QED BY <2>1, <2>2 DEF Ancestors
<1>. QED BY <1>1, <1>2

\* What moves together stays what it is under the same conditions.
LEMMA WholeTreeKept ==
    ASSUME NEW i \in Sources, Exists(i)' => Exists(i),
           \A l \in Sources : source[l].parent \in Parents,
           \A j \in WholeTree(i) :
               /\ Exists(j)' /\ source'[j].parent = source[j].parent
               /\ source[j].parent # Root =>
                     (Exists(source[j].parent)' => Exists(source[j].parent)),
           \A j \in Sources : Exists(j)' /\ source'[j].parent \in WholeTree(i) =>
               Exists(j) /\ source[j].parent = source'[j].parent
    PROVE  WholeTree(i)' = WholeTree(i)
<1>1. \A j \in Ancestors(i) : j \in WholeTree(i) /\ j \in Sources /\ Exists(j)
  BY AncestorsClosed DEF WholeTree
<1>2. Ancestors(i)' = Ancestors(i)
  BY <1>1, AncestorsKept
<1>3. ASSUME NEW k \in Ancestors(i)
      PROVE  /\ source'[k].parent = source[k].parent
             /\ source[k].parent # Root => (Exists(source[k].parent)' <=> Exists(source[k].parent))
  <2>1. source'[k].parent = source[k].parent
    BY <1>1
  <2>2. ASSUME source[k].parent # Root, Exists(source[k].parent) PROVE Exists(source[k].parent)'
    <3>1. source[k].parent \in Ancestors(i)
      BY <2>2, AncestorsClosed
    <3>. QED BY <1>1, <3>1
  <2>. QED BY <1>1, <2>1, <2>2
<1>4. PICK T : T = {k \in Ancestors(i) : source[k].parent = Root \/ ~Exists(source[k].parent)}
  OBVIOUS
<1>5. {k \in Ancestors(i) : source[k].parent = Root \/ ~Exists(source[k].parent)}' = T
  BY <1>2, <1>3, <1>4
<1>6. \A k \in T : k \in Sources /\ Tree(k) \subseteq WholeTree(i) /\ Exists(k)
  BY <1>1, <1>4 DEF WholeTree
<1>7. ASSUME NEW k \in T PROVE Tree(k)' = Tree(k)
  <2>1. k \in Sources /\ Exists(k) /\ Tree(k) \subseteq WholeTree(i)
    BY <1>6
  <2>2. \A j \in Tree(k) : Exists(j)' /\ source'[j].parent = source[j].parent
    BY <2>1
  <2>3. \A j \in Sources : Exists(j)' /\ source'[j].parent \in Tree(k) =>
            Exists(j) /\ source[j].parent = source'[j].parent
    BY <2>1
  <2>. QED BY <2>1, <2>2, <2>3, TreeKept
<1>8. WholeTree(i) = Ancestors(i) \union UNION {Tree(k) : k \in T}
  BY <1>4 DEF WholeTree
<1>9. WholeTree(i)' = Ancestors(i)' \union UNION {Tree(k)' : k \in T}
  BY <1>5 DEF WholeTree
<1>. QED BY <1>2, <1>7, <1>8, <1>9

\* A step of one transaction, seen by another that holds gates: what these are
\* about stays, with its parents, nothing is attached to it, and nothing that was
\* there once comes back.
LEMMA StepBeside ==
    ASSUME TreeInv, TreeInv', OrderInv, NEW p \in Procs, TreeNext!(p), ~moved',
           NEW q \in Procs \ {p}
    PROVE  /\ \A j \in proc[q].held : Exists(j) => Exists(j)' /\ source'[j].parent = source[j].parent
           /\ \A j \in Sources : source[j].row # "none" /\ Exists(j)' =>
                 Exists(j) /\ source'[j].parent = source[j].parent
           /\ \A j \in Sources : source[j].row = "none" /\ Exists(j)' =>
                 source'[j].parent \notin proc[q].held
<1>0. /\ source \in [Sources -> Rows] /\ WellFormed(proc[p]) /\ WellFormed(proc[q])
      /\ proc[q].held \subseteq Sources /\ proc[p].held \cap proc[q].held = {}
  BY DEF TreeInv, TypeInv, GatesApart, WellFormed, Transactions
<1>1. CASE \A j \in Sources : source'[j].row = source[j].row /\ source'[j].parent = source[j].parent
  BY <1>0, <1>1 DEF Exists
<1>2. CASE UNCHANGED source
  BY <1>1, <1>2
<1>3. CASE ApplyCommand(p) /\ Erase(proc[p].found)
  <2>1. ASSUME NEW j \in Sources
        PROVE  source'[j].parent = source[j].parent /\ (Exists(j)' <=> Exists(j))
    <3>1. \/ source'[j] = source[j]
          \/ /\ source[j].row = "live"
             /\ source'[j] = [source[j] EXCEPT !.row = "erased", !.version = @ + 1]
      BY <1>3 DEF Erase
    <3>. QED BY <1>0, <3>1 DEF Rows, Exists
  <2>2. \A j \in Sources : source[j].row = "none" => ~Exists(j)
    BY DEF Exists
  <2>. QED BY <1>0, <2>1, <2>2
<1>4. ASSUME NEW state, ApplyCommand(p), Finalize(proc[p].found, state)
      PROVE  /\ \A j \in proc[q].held : Exists(j) => Exists(j)' /\ source'[j].parent = source[j].parent
             /\ \A j \in Sources : source[j].row # "none" /\ Exists(j)' =>
                   Exists(j) /\ source'[j].parent = source[j].parent
             /\ \A j \in Sources : source[j].row = "none" /\ Exists(j)' =>
                   source'[j].parent \notin proc[q].held
  <2>1. proc[p].found \subseteq proc[p].held
    BY <1>4 DEF ApplyCommand, Found, At, TreeInv, Sound
  <2>2. \A j \in Sources \ proc[p].found : source'[j] = source[j]
    BY <1>4 DEF Finalize
  <2>3. \A j \in Sources : source'[j] = source[j] \/ source'[j].row = "gone"
    BY <1>4 DEF Finalize, Blank
  <2>. QED BY <1>0, <2>1, <2>2, <2>3 DEF Exists
<1>5. CASE Insert(p)
  <2>1. PICK k \in Fresh, row \in Rows :
              /\ \A j \in Fresh : k <= j
              /\ source' = [source EXCEPT ![k] = row]
              /\ row.row = "live"
              /\ row.parent # Root => source[row.parent].row # "none" /\ row.parent # k
              /\ row.parent \in Parents
    BY <1>5, InsertedRow
  <2>2. k \in Sources /\ source[k].row = "none"
    BY <2>1 DEF Fresh
  <2>3. source'[k] = row /\ \A j \in Sources \ {k} : source'[j] = source[j]
    BY <1>0, <2>1, <2>2
  <2>4. \A j \in Sources \ {k} : source[j].row = "none" => ~Exists(j)'
    BY <2>3 DEF Exists
  <2>5. source'[k].parent = proc[p].req.parent
    <3>1. PICK l \in Fresh :
            source' = [source EXCEPT ![l] =
                         [row |-> "live", parent |-> proc[p].req.parent, version |-> 1,
                          base |-> proc[p].req.name[1], partition |-> proc[p].req.name[2]]]
      BY <1>5 DEF Insert, Attach, First
    <3>2. l \in Sources /\ source'[l].parent = proc[p].req.parent /\ source'[l].row = "live"
      BY <1>0, <3>1 DEF Fresh
    <3>3. l = k
      BY <2>3, <3>1, <3>2 DEF Fresh
    <3>. QED BY <3>2, <3>3
  <2>6. proc[p].req.parent \notin proc[q].held
    <3>1. proc[p].req.parent = Root \/ proc[p].req.parent \in ParentGate(proc[p].req.parent)
      BY DEF ParentGate
    <3>2. proc[q].held \cap ParentGate(proc[p].req.parent) = {}
      BY <1>5 DEF Insert, FreeGates
    <3>3. Root \notin proc[q].held
      BY <1>0 DEF Root, Sources
    <3>. QED BY <3>1, <3>2, <3>3
  <2>. QED BY <1>0, <2>2, <2>3, <2>4, <2>5, <2>6 DEF Exists
<1>6. CASE Revise(p) \/ Reclassify(p)
  BY <1>1, <1>6, RowsWithParents
<1>. QED BY <1>2, <1>3, <1>4, <1>5, <1>6, RowsOfStep

\* That a source was given another parent is never forgotten.
LEMMA MovedStays ==
    ASSUME TreeInv, NEW p \in Procs, TreeNext!(p), ~moved'
    PROVE  ~moved
<1>1. moved \in BOOLEAN
  BY DEF TreeInv, TypeInv
<1>. QED
  BY <1>1 DEF LockGate, BeginCommand, ReplayAtOnce, WalkAgain, MissCommand,
     ReplayAfterWait, RefuseCommand, ApplyCommand, BeginInsert, Insert, RefuseInsert,
     BeginRevise, Revise, RefuseRevise, Retire, Reopen, BeginReclassify, LockNames,
     LockOwnName, WalkTwice, Reclassify, RefuseReclassify, Abort, Begin, Rollback,
     Apply, Attach, Amend, Relocate

\* A transaction that is left alone keeps its tree while another one steps.
LEMMA ScopeOfOthers ==
    ASSUME TreeInv, TreeInv', OrderInv, ScopeInv, NEW p \in Procs, TreeNext!(p),
           NEW q \in Procs \ {p}, proc'[q] = proc[q]
    PROVE  Scoped(proc[q])'
<1> DEFINE t == proc[q]
<1>0. /\ Scoped(t) /\ Sound(t) /\ Known(t) /\ WellFormed(t)
      /\ source \in [Sources -> Rows]
      /\ \A l \in Sources : source[l].parent \in Parents
      /\ Parented
  BY DEF ScopeInv, TreeInv, TypeInv, OrderInv, Rows
<1>1. CASE ~(~moved' /\ t.at = "rows" /\ t.kind \in {"command", "reclassify"})
  BY <1>0, <1>1 DEF Scoped
<1>2. CASE ~moved' /\ t.at = "rows" /\ t.kind \in {"command", "reclassify"}
  <2>0. ~moved
    BY <1>2, MovedStays
  <2>1. t.found \subseteq t.held /\ t.req.root \in Sources
    BY <1>0, <1>2 DEF Scoped, Sound, Whole, WellFormed, Requests, Moves
  <2>2. source[t.req.root].row # "none"
    BY <1>0, <1>2 DEF Scoped, Sound, Known
  <2>3. /\ \A j \in t.held : Exists(j) => Exists(j)' /\ source'[j].parent = source[j].parent
        /\ \A j \in Sources : source[j].row # "none" /\ Exists(j)' =>
              Exists(j) /\ source'[j].parent = source[j].parent
        /\ \A j \in Sources : source[j].row = "none" /\ Exists(j)' =>
              source'[j].parent \notin t.held
    BY <1>2, StepBeside
  <2>4. PICK i \in Sources : i = t.req.root
    BY <2>1
  <2>5. Exists(i)' => Exists(i)
    BY <2>2, <2>3, <2>4
  <2>6. \A j \in Sources : Exists(j)' /\ source'[j].parent \in t.found =>
            Exists(j) /\ source[j].parent = source'[j].parent
    BY <2>1, <2>3
  <2>7. CASE t.kind = "command"
    <3>1. t.found = Tree(i)
      BY <1>0, <1>2, <2>0, <2>4, <2>7 DEF Scoped
    <3>2. \A j \in Tree(i) : Exists(j)' /\ source'[j].parent = source[j].parent
      BY <2>1, <2>3, <3>1 DEF Tree
    <3>3. Tree(i)' = Tree(i)
      BY <2>5, <2>6, <3>1, <3>2, TreeKept
    <3>. QED BY <1>0, <2>4, <2>7, <3>1, <3>3 DEF Scoped
  <2>8. CASE t.kind = "reclassify"
    <3>1. t.found = WholeTree(i)
      BY <1>0, <1>2, <2>0, <2>4, <2>8 DEF Scoped
    <3>2. \A j \in WholeTree(i) : j \in Sources /\ Exists(j)
      BY AncestorsClosed DEF WholeTree, Tree, Ancestors
    <3>3. ASSUME NEW j \in WholeTree(i)
          PROVE  /\ Exists(j)' /\ source'[j].parent = source[j].parent
                 /\ source[j].parent # Root =>
                       (Exists(source[j].parent)' => Exists(source[j].parent))
      <4>1. Exists(j)' /\ source'[j].parent = source[j].parent
        BY <2>1, <2>3, <3>1, <3>2
      <4>2. ASSUME source[j].parent # Root, Exists(source[j].parent)' PROVE Exists(source[j].parent)
        <5>1. PICK k : k = source[j].parent
          OBVIOUS
        <5>2. k \in Sources /\ source[k].row # "none"
          BY <1>0, <3>2, <4>2, <5>1 DEF Parents, Parented
        <5>3. source'[j].parent = k
          BY <4>1, <5>1
        <5>4. Exists(k)'
          BY <4>2, <5>3 DEF Exists
        <5>. QED BY <2>3, <5>1, <5>2, <5>4
      <4>. QED BY <4>1, <4>2
    <3>4. WholeTree(i)' = WholeTree(i)
      BY <1>0, <2>5, <2>6, <3>1, <3>3, WholeTreeKept
    <3>. QED BY <1>0, <2>4, <2>8, <3>1, <3>4 DEF Scoped
  <2>. QED BY <1>2, <2>7, <2>8
<1>. QED BY <1>1, <1>2

\* While the rows are what they were, so are the trees.
LEMMA WholeTreeStays == ASSUME UNCHANGED source PROVE \A i : WholeTree(i)' = WholeTree(i)
BY DEF WholeTree, Ancestors, Tree, WithParents, WithChildren, Exists

\* A source that is there is in the tree it would move with.
LEMMA InWholeTree ==
    ASSUME NEW i \in Sources, Exists(i), \A l \in Sources : source[l].parent \in Parents
    PROVE  i \in WholeTree(i)
BY AncestorsClosed DEF WholeTree

\* Only commands and moves have a tree, and a command has one only at the end.
LEMMA Treeless ==
    ASSUME NEW t, t.kind # "reclassify", t.kind # "command" \/ t.at # "rows"
    PROVE  Scoped(t)'
BY DEF Scoped

\* The transaction that steps keeps its tree.
LEMMA ScopeOfActor ==
    ASSUME TreeInv, ScopeInv, NEW p \in Procs, TreeNext!(p)
    PROVE  Scoped(proc[p])'
<1> DEFINE t == proc[p]
<1>0. /\ proc \in [Procs -> Transactions] /\ t \in Transactions /\ Scoped(t)
      /\ \A l \in Sources : source[l].parent \in Parents
      /\ TypeInv
  BY DEF TreeInv, TypeInv, ScopeInv, Rows
<1>a. ASSUME NEW answer \in Answers, End(p, answer) PROVE Scoped(proc[p])'
  <2>1. proc'[p] = [Idle EXCEPT !.answer = answer]
    BY <1>0, <1>a, Ending DEF Becomes
  <2>2. proc'[p].kind = "none"
    BY <2>1 DEF Idle
  <2>. QED BY <2>2, Treeless
<1>b. ASSUME UNCHANGED <<source, moved>>
      PROVE  /\ \A i : Tree(i)' = Tree(i) /\ WholeTree(i)' = WholeTree(i)
             /\ moved' = moved
  BY <1>b, TreeStays, WholeTreeStays
<1>1. CASE LockGate(p)
  <2>1. PICK g : proc' = [proc EXCEPT ![p].want = @ \ {g}, ![p].held = @ \union {g}]
    BY <1>1 DEF LockGate
  <2>2. /\ proc'[p].kind = t.kind /\ proc'[p].at = t.at /\ proc'[p].req = t.req
        /\ proc'[p].found = t.found /\ proc'[p].held = t.held \union {g}
        /\ proc'[p].want = t.want \ {g} /\ t.at = "walk"
    BY <1>0, <1>1, <2>1 DEF LockGate, Transactions
  <2>. QED BY <1>0, <2>2 DEF Scoped
<1>2. CASE WalkAgain(p)
  <2> DEFINE again == Tree(t.req.root)
  <2>1. t.kind = "command" /\ t.at = "walk" /\ UNCHANGED <<source, moved>>
    BY <1>2 DEF WalkAgain, At
  <2>2. proc' = IF again = t.found THEN [proc EXCEPT ![p].at = "rows"]
                ELSE [proc EXCEPT ![p].found = again, ![p].want = again \ t.held]
    BY <1>2 DEF WalkAgain
  <2> HIDE DEF again
  <2>3. CASE again = t.found
    <3>1. /\ proc'[p].kind = "command" /\ proc'[p].req = t.req /\ proc'[p].found = t.found
      BY <1>0, <2>1, <2>2, <2>3 DEF Transactions
    <3>2. Tree(proc[p].req.root)' = t.found
      BY <1>b, <2>1, <2>3, <3>1 DEF again
    <3>. QED BY <3>1, <3>2 DEF Scoped
  <2>4. CASE again # t.found
    <3>1. proc'[p].kind = "command" /\ proc'[p].at = "walk"
      BY <1>0, <2>1, <2>2, <2>4 DEF Transactions
    <3>. QED BY <3>1, Treeless
  <2>. QED BY <2>3, <2>4
<1>3. ASSUME NEW req \in Sendable(p), BeginCommand(p, req) PROVE Scoped(proc[p])'
  <2> DEFINE found == Tree(req.root)
  <2>1. proc' = [proc EXCEPT ![p] =
                   [Idle EXCEPT !.kind = "command", !.at = "walk", !.req = req,
                                !.found = found, !.want = found]]
    BY <1>3 DEF BeginCommand, Begin
  <2> HIDE DEF found
  <2>2. proc'[p].kind = "command" /\ proc'[p].at = "walk"
    BY <1>0, <2>1 DEF Idle
  <2>. QED BY <2>2, Treeless
<1>4. ASSUME NEW name, NEW parent, BeginInsert(p, name, parent) PROVE Scoped(proc[p])'
  <2>1. proc'[p].kind = "insert"
    BY <1>0, <1>4 DEF BeginInsert, Begin, Idle
  <2>. QED BY <2>1, Treeless
<1>5. ASSUME NEW i, NEW parent, BeginRevise(p, i, parent) PROVE Scoped(proc[p])'
  <2>1. proc'[p].kind = "revise"
    BY <1>0, <1>5 DEF BeginRevise, Begin, Idle
  <2>. QED BY <2>1, Treeless
<1>6. ASSUME NEW i \in Sources, NEW partition \in Partitions, BeginReclassify(p, i, partition)
      PROVE  Scoped(proc[p])'
  <2> DEFINE found == WholeTree(i)
             req == [root |-> i, version |-> source[i].version,
                     to |-> partition, names |-> NamesOf(found, partition)]
  <2>1. proc' = [proc EXCEPT ![p] =
                   [Idle EXCEPT !.kind = "reclassify", !.at = "begun", !.found = found,
                                !.req = req]]
    BY <1>6 DEF BeginReclassify, Begin
  <2>2. i \in found
    BY <1>0, <1>6, InWholeTree DEF BeginReclassify
  <2>3. req.root = i
    OBVIOUS
  <2> HIDE DEF found, req
  <2>4. /\ proc'[p].kind = "reclassify" /\ proc'[p].at = "begun"
        /\ proc'[p].found = found /\ proc'[p].req = req
    BY <1>0, <2>1 DEF Idle
  <2>. QED BY <2>2, <2>3, <2>4 DEF Scoped
<1>7. CASE LockNames(p)
  <2>1. /\ proc'[p].want = t.found /\ proc'[p].found = t.found /\ proc'[p].req = t.req
        /\ proc'[p].kind = "reclassify" /\ proc'[p].at = "walk" /\ t.kind = "reclassify"
    BY <1>0, <1>7 DEF LockNames, At, Transactions
  <2>. QED BY <1>0, <2>1 DEF Scoped
<1>8. CASE WalkTwice(p)
  <2>1. CASE End(p, "none")
    BY <1>a, <2>1 DEF Answers
  <2>2. CASE ~End(p, "none")
    <3>1. /\ t.kind = "reclassify" /\ t.at = "walk" /\ t.want = {}
          /\ proc' = [proc EXCEPT ![p].at = "rows"] /\ WholeTree(t.req.root) = t.found
          /\ UNCHANGED <<source, moved>>
      BY <1>8, <2>2 DEF WalkTwice, At
    <3>2. /\ proc'[p].want = {} /\ proc'[p].held = t.held /\ proc'[p].found = t.found
          /\ proc'[p].kind = "reclassify" /\ proc'[p].at = "rows" /\ proc'[p].req = t.req
      BY <1>0, <3>1 DEF Transactions
    <3>3. WholeTree(proc[p].req.root)' = t.found
      BY <1>b, <3>1, <3>2
    <3>. QED BY <1>0, <3>1, <3>2, <3>3 DEF Scoped
  <2>. QED BY <2>1, <2>2
<1>9. CASE \E name \in Ingested : Retire(p, name) \/ Reopen(p, name)
  <2>1. proc' = proc /\ UNCHANGED <<source, moved>>
    BY <1>9 DEF Retire, Reopen
  <2>. QED BY <1>0, <1>b, <2>1 DEF Scoped
<1>10. CASE \/ \E req \in Sendable(p) : ReplayAtOnce(p, req)
            \/ MissCommand(p) \/ ReplayAfterWait(p) \/ RefuseCommand(p)
            \/ RefuseInsert(p) \/ RefuseRevise(p) \/ RefuseReclassify(p) \/ Abort(p)
  BY <1>a, <1>10, Quitting DEF Quits
<1>11. CASE ApplyCommand(p) \/ Insert(p) \/ Revise(p) \/ Reclassify(p)
  BY <1>a, <1>11 DEF ApplyCommand, Insert, Revise, Reclassify, Answers
<1>12. CASE LockOwnName(p)
  <2>1. proc'[p].kind = "revise"
    BY <1>0, <1>12 DEF LockOwnName, At, Transactions
  <2>. QED BY <2>1, Treeless
<1>. QED BY <1>1, <1>2, <1>3, <1>4, <1>5, <1>6, <1>7, <1>8, <1>9, <1>10, <1>11, <1>12

\* Nobody has a tree initially.
LEMMA InitScope == TreeInit => ScopeInv
BY DEF TreeInit, Idle, ScopeInv, Scoped

\* Every step leaves everybody's tree to its owner.
LEMMA NextScope ==
    TreeInv /\ TreeInv' /\ OrderInv /\ ScopeInv /\ [TreeNext]_treeVars => ScopeInv'
<1> SUFFICES ASSUME TreeInv, TreeInv', OrderInv, ScopeInv, [TreeNext]_treeVars
             PROVE  ScopeInv'
  OBVIOUS
<1>1. CASE UNCHANGED treeVars
  <2>1. \A i : Tree(i)' = Tree(i) /\ WholeTree(i)' = WholeTree(i)
    BY <1>1, TreeStays, WholeTreeStays DEF treeVars
  <2>. QED BY <1>1, <2>1 DEF treeVars, ScopeInv, Scoped
<1>2. CASE TreeNext
  <2>1. PICK p \in Procs : TreeNext!(p)
    BY <1>2 DEF TreeNext
  <2>2. ASSUME NEW q \in Procs PROVE Scoped(proc[q])'
    <3>1. CASE q = p
      BY <2>1, <3>1, ScopeOfActor
    <3>2. CASE q # p
      BY <2>1, <3>2, LeftAlone, ScopeOfOthers
    <3>. QED BY <3>1, <3>2
  <2>. QED BY <2>2 DEF ScopeInv
<1>. QED BY <1>1, <1>2

\* What a transaction commits is what a serial one would, with the tree that was
\* found for the tree that is there.
LEMMA SerialStep == TreeInv /\ ScopeInv /\ [TreeNext]_treeVars => [SerialNext]_tables
<1> SUFFICES ASSUME TreeInv, ScopeInv, [TreeNext]_treeVars PROVE [SerialNext]_tables
  OBVIOUS
<1>1. CASE UNCHANGED treeVars
  BY <1>1 DEF treeVars, tables
<1>2. CASE TreeNext
  <2>1. PICK p \in Procs : TreeNext!(p)
    BY <1>2 DEF TreeNext
  <2> DEFINE req == proc[p].req
             found == proc[p].found
  <2>2. WellFormed(proc[p]) /\ Sound(proc[p]) /\ Scoped(proc[p]) /\ found \in SUBSET Sources
    BY DEF TreeInv, TypeInv, ScopeInv, WellFormed, Transactions
  <2>3. CASE ApplyCommand(p)
    <3>1. /\ proc[p].kind = "command" /\ proc[p].at = "rows" /\ ~Missing(p)
          /\ Apply(req, found)
      BY <2>3 DEF ApplyCommand, Found, At
    <3>2. req \in Requests /\ Whole(proc[p])
      BY <2>2, <3>1 DEF WellFormed, Sound
    <3>3. Closed(req.root, found)
      BY <3>1, <3>2 DEF Missing, Whole, Closed
    <3>4. moved \/ found = Tree(req.root)
      BY <2>2, <3>1 DEF Scoped
    <3>5. SerialCommand(req, found)
      BY <3>1, <3>3, <3>4 DEF SerialCommand
    <3> HIDE DEF req, found
    <3>. QED BY <2>2, <3>2, <3>5 DEF SerialNext
  <2>4. CASE Insert(p)
    <3>1. proc[p].kind = "insert" /\ Attach(req.name, req.parent)
      BY <2>4 DEF Insert, At
    <3>2. req \in Insertions /\ req.name \notin retired
      BY <2>2, <3>1 DEF WellFormed, Sound
    <3>3. req.name \in Names /\ req.parent \in Sources \union {Root}
      BY <3>2 DEF Insertions, Parents
    <3>4. SerialInsert(req.name, req.parent)
      BY <3>1, <3>2 DEF SerialInsert
    <3> HIDE DEF req
    <3>. QED BY <3>3, <3>4 DEF SerialNext
  <2>5. CASE Revise(p)
    <3>1. proc[p].kind = "revise" /\ MayAmend(req.source, req.parent) /\ Amend(req.source, req.parent)
      BY <2>5 DEF Revise, GatesOfRevise, At, MayRevise
    <3>2. req.source \in Sources /\ req.parent \in Sources \union {Root}
      BY <2>2, <3>1 DEF WellFormed, Revisions, Parents
    <3>3. SerialRevise(req.source, req.parent)
      BY <3>1 DEF SerialRevise
    <3> HIDE DEF req
    <3>. QED BY <3>2, <3>3 DEF SerialNext
  <2>6. CASE Reclassify(p)
    <3>1. /\ proc[p].kind = "reclassify" /\ proc[p].at = "rows"
          /\ MayMove(req.root, req.to, found) /\ Relocate(req.to, found)
      BY <2>6 DEF Reclassify, MayReclassify, At
    <3>2. req.root \in Sources /\ req.to \in Partitions
      BY <2>2, <3>1 DEF WellFormed, Moves
    <3>3. req.root \in found /\ (moved \/ found = WholeTree(req.root))
      BY <2>2, <3>1 DEF Scoped
    <3>4. SerialMove(req.root, req.to, found)
      BY <3>1, <3>3 DEF SerialMove
    <3> HIDE DEF req, found
    <3>. QED BY <2>2, <3>2, <3>4 DEF SerialNext
  <2>7. CASE \E name \in Ingested : Retire(p, name) \/ Reopen(p, name)
    <3>1. PICK name \in Ingested : Retire(p, name) \/ Reopen(p, name)
      BY <2>7
    <3>2. SerialRetirement(name)
      BY <3>1 DEF Retire, Reopen, SerialRetirement
    <3>. QED BY <3>2 DEF SerialNext
  <2>8. CASE ~(\/ ApplyCommand(p) \/ Insert(p) \/ Revise(p) \/ Reclassify(p)
               \/ \E name \in Ingested : Retire(p, name) \/ Reopen(p, name))
    <3>1. UNCHANGED tables
      BY <2>1, <2>8 DEF LockGate, BeginCommand, ReplayAtOnce, WalkAgain, MissCommand,
         ReplayAfterWait, RefuseCommand, BeginInsert, RefuseInsert, BeginRevise, RefuseRevise,
         BeginReclassify, LockNames, LockOwnName, WalkTwice, RefuseReclassify, Abort, Begin,
         Rollback, tables
    <3>. QED BY <3>1
  <2>. QED BY <2>3, <2>4, <2>5, <2>6, <2>7, <2>8
<1>. QED BY <1>1, <1>2

\* Transactions that overlap, take gates and look again change the tables as if
\* each ran alone: a deletion command closes the tree below its root as it is when
\* it commits, a move takes the tree its source is in, and nothing is attached to
\* what is closed or opened under a retired name (loadAndLockSourceTree,
\* applySourceLifecycleCommand, insertSources, reclassifySourcePartition).
THEOREM TreesAreSerial == TreeSpec => SerialSpec
<1>1. TreeInit => SerialInit
  BY DEF TreeInit
<1>2. TreeSpec => []OrderInv
  BY TreeInvariant, InitOrder, NextOrder, PTL DEF TreeSpec
<1>3. TreeSpec => []ScopeInv
  BY <1>2, TreeInvariant, InitScope, NextScope, PTL DEF TreeSpec
<1>. QED BY <1>1, <1>3, TreeInvariant, SerialStep, PTL DEF TreeSpec, SerialSpec

=============================================================================
