----------------------------- MODULE MCEvidence -----------------------------
(***************************************************************************)
(* Small instances of what memory is told: the trees of sources, and the   *)
(* passes over claims.  In the models they share no state, so a behaviour  *)
(* is one of one of them, and the other stays where it begins: `focus` is  *)
(* the story that is told of a task, empty in a behaviour of the trees.    *)
(***************************************************************************)
EXTENDS SourceTree, ClaimLifecycle

CONSTANTS PartitionA, PartitionB

VARIABLE focus

evidenceVars == <<focus, treeVars, claimVars>>

\* One external id is used in both partitions, another in one.
IngestedNames == {<<1, PartitionA>>, <<2, PartitionA>>, <<2, PartitionB>>}

Says(about, kind, mail, sign, stated) ==
    [said |-> [about |-> about, kind |-> kind, mail |-> mail, sign |-> sign], stated |-> stated]

User(t)     == Says("status", "user", 0, "none", t)
Sourced(t)  == Says("status", "sourced", 0, "none", t)
Inferred(t) == Says("status", "inferred", 0, "none", t)
Asked(m, t) == Says("status", "inferred", m, "none", t)
Done(m, t)  == Says("status", "inferred", m, "progress", t)
Removed(t)  == Says("status", "inferred", 2, "removal", t)
UserDue(t)  == Says("due", "user", 0, "none", t)
MailDue(t)  == Says("due", "inferred", 1, "none", t)

\* What is told, in this order: whom to trust, which mail is the later, also of
\* some in a circle, and dates that mail sets and takes away again.
Stories ==
    {<<User(1), Inferred(2), Done(1, 2)>>, <<Inferred(2), User(1), Sourced(2)>>,
     <<Done(1, 2), User(1), Inferred(1)>>, <<Sourced(1), Inferred(1), User(1)>>,
     <<Asked(2, 1), User(1), Done(1, 1)>>, <<Asked(2, 1), Done(1, 1), User(2)>>,
     <<MailDue(1), Removed(2), UserDue(1)>>, <<Removed(2), MailDue(1), Removed(2)>>,
     <<UserDue(2), MailDue(1), Removed(2)>>}

EverTold == {story[k].said : story \in Stories, k \in 1 .. 3}

\* A new claim is the next of the story, or replaces one that is given another end.
AsTold ==
    \A i \in DOMAIN claim' \ DOMAIN claim :
        \/ claim'[i].said = focus[i].said /\ claim'[i].stated = focus[i].stated
        \/ \E j \in DOMAIN claim : claim'[j] # claim[j]

\* A forest that is not in focus is empty.
EvidenceInit ==
    /\ focus \in {<<>>} \union Stories
    /\ TreeInit /\ ClaimInit
    /\ focus # <<>> => source = [i \in Sources |-> Blank] /\ retired = {}

EvidenceNext ==
    \/ focus = <<>> /\ TreeNext /\ UNCHANGED <<focus, claimVars>>
    \/ focus # <<>> /\ ClaimNext /\ AsTold /\ UNCHANGED <<focus, treeVars>>

EvidenceSpec == EvidenceInit /\ [][EvidenceNext]_evidenceVars

\* How many times each value occurs: callers and transactions are
\* interchangeable.
Counted(f) == {<<f[x], Cardinality({y \in DOMAIN f : f[y] = f[x]})>> : x \in DOMAIN f}

\* Nobody reads the answer to a command, nor more of a claim that is out of the
\* way than who stated what of whom.
RowView(i) ==
    CASE claim[i].status = "deleted" -> <<>>
      [] claim[i].status \in {"retracted", "contradicted"} ->
           <<claim[i].subject, claim[i].said, claim[i].stated>>
      [] OTHER -> <<claim[i]>>

View ==
    CASE focus = <<>> -> <<source, tomb, record, retired, moved, begun,
                             Counted([p \in Procs |->
                                        [proc[p] EXCEPT !.answer = "none"]])>>
      [] OTHER -> <<focus, [i \in DOMAIN claim |-> RowView(i)], Counted(call), calm>>

-----------------------------------------------------------------------------
\* Each row of the tables behind the evidence is one the code can write
\* (db/schema.ts, drizzle/0028_dizzy_norrin_radd.sql).
EvidenceTypeOK == TreeTypeOK /\ ClaimTypeOK

=============================================================================
