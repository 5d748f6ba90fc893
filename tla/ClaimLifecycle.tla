--------------------------- MODULE ClaimLifecycle ---------------------------
(***************************************************************************)
(* The claims about tasks of which one at a time counts, their status      *)
(* (HAS_TASK_STATUS) and their date (DUE_ON), and the lifecycle passes     *)
(* that keep one of them active per task.                                  *)
(*                                                                         *)
(* Every operation first commits its own change and then, outside that     *)
(* transaction, runs a pass over the topic it was about, and after a       *)
(* status one over the date: one query reads the topic's active and        *)
(* superseded claims, the chain is worked out in memory, and each row that *)
(* differs is updated by a statement of its own, in any order, on its id   *)
(* alone.  Nothing locks the task, so passes overlap with each other and   *)
(* with every other write.                                                 *)
(*                                                                         *)
(* A claim is its number in the order of creation (createdAt, then trust,  *)
(* then id).  What it says is kept as far as passes tell it apart: `about` *)
(* status or due; `mail`, for a status the rank of the message and the     *)
(* evidence it is from, for a date whether it is from mail at all, 0 if    *)
(* not; `sign`, whether the mail is explicit progress (a completion or a   *)
(* revision), and such a revision as takes the date away.  The mail about  *)
(* one task is one thread, and its sources are not deleted.  Of the kinds, *)
(* "user" is also user_confirmed, "sourced" a participant's or a document  *)
(* author's; the system's own, which passes treat alike but nothing may    *)
(* cite, are left out.  validFrom only matters in whether it is set        *)
(* (`dated`); validTo is the statedAt of the superseding claim and is left *)
(* out.                                                                    *)
(***************************************************************************)
EXTENDS Naturals, Sequences, FiniteSets, Functions

CONSTANTS
    Subjects,   \* tasks
    Told,       \* what claims are created with
    Mails,      \* ranks of mail
    Callers,    \* operations under way at the same time
    Times,      \* statedAt values
    MaxClaims,  \* claims ever created
    Crashes,    \* whether a process may die between two statements
    Nothing     \* no topic

Statements ==
    {w \in [about : {"status", "due"}, kind : {"user", "sourced", "inferred"},
            mail : 0 .. Mails, sign : {"none", "progress", "removal"}] :
        w.sign # "none" => w.about = "status" /\ w.mail # 0}

Topics == Subjects \X {"status", "due"}

\* What the constants are assumed to be.
ASSUME ClaimAssumption ==
    /\ Nothing \notin Topics
    /\ Mails \in Nat /\ Told \subseteq Statements
    /\ Times \subseteq Nat /\ MaxClaims \in Nat
    /\ Crashes \in BOOLEAN

VARIABLES
    claim,  \* the rows of claims
    call,   \* what each caller still has to do
    calm    \* topics whose latest pass nothing disturbed and nothing followed

claimVars == <<claim, call, calm>>

-----------------------------------------------------------------------------
Claims == 1 .. Len(claim)

IdleCall == [at |-> "idle", topic |-> Nothing, plan |-> {}, clean |-> FALSE]

Update == [id : 1 .. MaxClaims, status : {"active", "superseded"},
           by : 0 .. MaxClaims]

ClaimTypeOK ==
    /\ claim \in Seq([subject : Subjects, said : Statements,
                      stated : Times, by : 0 .. MaxClaims, dated : BOOLEAN,
                      status : {"active", "superseded", "retracted",
                                "contradicted", "deleted"}])
    /\ Len(claim) <= MaxClaims
    /\ call \in [Callers -> [at : {"idle", "pass", "write"},
                             topic : Topics \union {Nothing},
                             plan : SUBSET Update, clean : BOOLEAN]]
    /\ calm \subseteq Topics
    /\ \A i \in Claims :   \* the foreign key on superseded_by_claim_id
          /\ claim[i].by \in Claims \union {0}
          /\ claim[i].by # 0 => claim[claim[i].by].status # "deleted"

ClaimInit ==
    /\ claim = <<>>
    /\ call = [p \in Callers |-> IdleCall]
    /\ calm = {}

-----------------------------------------------------------------------------
(* The claims of a topic, in order.                                        *)

Topic(i) == <<claim[i].subject, claim[i].said.about>>

Of(t, statuses) == {i \in Claims : Topic(i) = t /\ claim[i].status \in statuses}

\* Slip: whatever the topic was ever told.
NotDeleted(t) == Of(t, {"active", "superseded", "retracted", "contradicted"})

LiveClaims(t) == Of(t, {"active", "superseded"})

\* The rank of the mail that a status is from.
Evidence(i) == IF claim[i].said.about = "status" THEN claim[i].said.mail ELSE 0

\* compareLifecycleOrder: mail against mail by their ranks.
Earlier(i, j) ==
    \/ claim[i].stated < claim[j].stated
    \/ /\ claim[i].stated = claim[j].stated
       /\ IF Evidence(i) # 0 /\ Evidence(j) # 0 /\ Evidence(i) # Evidence(j)
          THEN Evidence(i) < Evidence(j) ELSE i < j

\* What sorting may come to: each claim is earlier than the next.  There is one
\* way, unless some of one time are in a circle, as two of mail and another that
\* was created between them can be.
Orders(t) ==
    {place \in Bijection(LiveClaims(t), 1 .. Cardinality(LiveClaims(t))) :
        \A i, j \in LiveClaims(t) : place[j] = place[i] + 1 => Earlier(i, j)}

Progress(i) == claim[i].said.sign # "none"

\* Slip: inference wins by being later.
NobodyDemoted(t, place) == {}

\* The trust rule: an inferred claim after a user's own, unless it is explicit
\* progress.
Demoted(t, place) ==
    {i \in LiveClaims(t) :
        /\ claim[i].said.kind = "inferred" /\ ~Progress(i)
        /\ \E u \in LiveClaims(t) : claim[u].said.kind = "user" /\ place[u] < place[i]}

-----------------------------------------------------------------------------
(* The removal of a date.                                                  *)

\* Mail that took away a date which other mail had set before, whatever has
\* become of the claim since.
Removals(i) ==
    {r \in Claims :
        /\ claim[i].said.about = "due" /\ claim[i].said.kind = "inferred"
        /\ claim[i].said.mail # 0
        /\ Topic(r) = <<claim[i].subject, "status">> /\ claim[r].status # "deleted"
        /\ claim[r].said.kind = "inferred" /\ claim[r].said.sign = "removal"
        /\ claim[i].stated < claim[r].stated}

\* The first of them, one of the first, or 0.
FirstRemoval(i) ==
    IF Removals(i) = {} THEN {0}
    ELSE {r \in Removals(i) : \A q \in Removals(i) : claim[r].stated <= claim[q].stated}

-----------------------------------------------------------------------------
(* What a pass makes of them: some claims in a chain, of which `demoted`   *)
(* are left out, and what comes after the last of the chain, 0 if nothing. *)

LastOf(chain, place) == CHOOSE i \in chain : \A j \in chain : place[j] <= place[i]

NextOf(chain, place, i) ==
    CHOOSE j \in chain : /\ place[i] < place[j]
                         /\ \A k \in chain : place[i] < place[k] => place[j] <= place[k]

\* The claim that supersedes i, 0 for one that stays active.
Successor(chain, place, end, i) ==
    CASE i \notin chain -> LastOf(chain, place)
      [] i \in chain /\ i = LastOf(chain, place) -> end
      [] OTHER -> NextOf(chain, place, i)

Settlement(live, demoted, place, end) ==
    LET by(i) == Successor(live \ demoted, place, end, i)
    IN  {[id |-> i, by |-> by(i), status |-> IF by(i) = 0 THEN "active" ELSE "superseded"] :
           i \in live}

\* What may come after the last of a topic's chain.
Ends(t, place) ==
    IF LiveClaims(t) = {} THEN {0}
    ELSE FirstRemoval(LastOf(LiveClaims(t) \ Demoted(t, place), place))

Settlements(t) ==
    UNION {{Settlement(LiveClaims(t), Demoted(t, place), place, end) : end \in Ends(t, place)} :
             place \in Orders(t)}

\* Only rows that differ are written; a claim without validFrom always does.
Differing(settlement) ==
    {u \in settlement : \/ claim[u.id].status # u.status
                        \/ claim[u.id].by # u.by
                        \/ ~claim[u.id].dated}

\* And a status from mail, when what it carries forward has changed.
Carrying(settlement) == {u \in settlement : Evidence(u.id) # 0}

-----------------------------------------------------------------------------
(* A change to a topic's rows disturbs the passes that have read them.     *)

Disturbed(topics) ==
    [q \in Callers |-> IF call[q].at = "write" /\ call[q].topic \in topics
                       THEN [call[q] EXCEPT !.clean = FALSE] ELSE call[q]]

PassOn(t) == [IdleCall EXCEPT !.at = "pass", !.topic = t]

\* A revision may take away a date: a change of the status is one of the date.
Concerned(t) == {t, <<t[1], "due">>}

\* A change of caller p to a claim of topic t, that of another to `also`, and the
\* pass p goes on to.
ThenPass(p, t, also) ==
    /\ call' = [Disturbed(Concerned(t) \union also) EXCEPT ![p] = PassOn(t)]
    /\ calm' = calm \ (Concerned(t) \union also)

NewClaim(s, said, stated, dated) ==
    [subject |-> s, said |-> said, stated |-> stated, status |-> "active",
     by |-> 0, dated |-> dated]

\* createClaim, and whoever calls it: a task's status or due date set, a
\* commitment confirmed, an assertion promoted; and a claim extracted, which alone
\* may have a validFrom, unless it is from mail.
CreateClaim(p, s, said, stated, dated) ==
    /\ call[p].at = "idle"
    /\ Len(claim) < MaxClaims
    /\ dated => said.mail = 0
    /\ claim' = Append(claim, NewClaim(s, said, stated, dated))
    /\ ThenPass(p, <<s, said.about>>, {})

\* Slip: the pointers to the row stay.
RowGone(i) == [claim EXCEPT ![i].status = "deleted", ![i].by = 0]

\* The foreign key clears the pointers to a deleted row.
WithoutRow(i) ==
    [j \in Claims |->
        IF j = i THEN [claim[i] EXCEPT !.status = "deleted", !.by = 0]
        ELSE IF claim[j].by = i THEN [claim[j] EXCEPT !.by = 0]
        ELSE claim[j]]

\* Slip: no pass follows the deletion.
DeleteOnly(p, i) ==
    /\ call[p].at = "idle"
    /\ claim[i].status # "deleted"
    /\ claim' = WithoutRow(i)
    /\ call' = Disturbed(Concerned(Topic(i)))
    /\ UNCHANGED calm

\* deleteClaim.
DeleteClaim(p, i) ==
    /\ call[p].at = "idle"
    /\ claim[i].status # "deleted"
    /\ claim' = WithoutRow(i)
    /\ ThenPass(p, Topic(i), {})

\* The cleanup's retract_claim: what was inferred, whatever its status, or a date
\* whose ends are not a task and a day, whoever stated it.
RetractClaim(p, i) ==
    /\ call[p].at = "idle"
    /\ claim[i].said.kind = "inferred" \/ claim[i].said.about = "due"
    /\ claim[i].status # "deleted"
    /\ claim' = [claim EXCEPT ![i].status = "retracted"]
    /\ ThenPass(p, Topic(i), {})

\* contradict_claim cites another claim, of any topic, that is active and was not
\* inferred.
ContradictClaim(p, i) ==
    /\ call[p].at = "idle"
    /\ claim[i].status # "deleted"
    /\ \E j \in Claims \ {i} : claim[j].status = "active" /\ claim[j].said.kind # "inferred"
    /\ claim' = [claim EXCEPT ![i].status = "contradicted"]
    /\ ThenPass(p, Topic(i), {})

\* reattributeClaim gives a claim another subject or object: the original is
\* locked, must be active, and is replaced in one transaction.  The pass covers
\* the replacement's subject alone.
ReattributeClaim(p, i, s) ==
    /\ call[p].at = "idle"
    /\ claim[i].status = "active"
    /\ Len(claim) < MaxClaims
    /\ claim' = Append([claim EXCEPT ![i].status = "retracted"],
                       NewClaim(s, [claim[i].said EXCEPT !.kind = "user"],
                                claim[i].stated, claim[i].dated))
    /\ ThenPass(p, <<s, claim[i].said.about>>, {Topic(i)})

\* updateClaim retracts by id, whatever the status, and runs no pass.
UpdateClaim(i) ==
    /\ claim[i].status # "deleted"
    /\ claim' = [claim EXCEPT ![i].status = "retracted"]
    /\ call' = Disturbed({Topic(i)})
    /\ calm' = calm \ {Topic(i)}

\* dismissCommitment reads the active claims of the status and then updates them
\* one by one, by id, whatever has become of them meanwhile.  Every claim has been
\* active, so one that was read may be any of them.
DismissCommitment(i) == claim[i].said.about = "status" /\ UpdateClaim(i)

-----------------------------------------------------------------------------
(* The pass.                                                               *)

Recompute(p) ==
    /\ call[p].at = "pass"
    /\ \E settlement \in Settlements(call[p].topic) :
          \E carried \in SUBSET Carrying(settlement) :
             call' = [call EXCEPT ![p].at = "write", ![p].clean = TRUE,
                                  ![p].plan = Differing(settlement) \union carried]
    /\ UNCHANGED <<claim, calm>>

Written(row, u) == [row EXCEPT !.status = u.status, !.by = u.by, !.dated = TRUE]

\* One UPDATE by id.  A deleted row matches nothing, and a pointer to a deleted
\* row is refused by the foreign key; the other statements still run.
WriteUpdate(p, u) ==
    LET left == [call[p] EXCEPT !.plan = @ \ {u}]
        reaches == /\ claim[u.id].status # "deleted"
                   /\ u.by = 0 \/ claim[u.by].status # "deleted"
    IN  /\ call[p].at = "write"
        /\ u \in call[p].plan
        /\ IF reaches
           THEN /\ claim' = [claim EXCEPT ![u.id] = Written(@, u)]
                /\ call' = [Disturbed({call[p].topic}) EXCEPT ![p] = left]
                /\ calm' = calm \ {call[p].topic}
           ELSE /\ call' = [call EXCEPT ![p] = left]
                /\ UNCHANGED <<claim, calm>>

\* The status is followed by the date.
Return(p) ==
    LET t == call[p].topic
    IN  /\ call[p].at = "write"
        /\ call[p].plan = {}
        /\ call' = [call EXCEPT ![p] = IF t[2] = "status" THEN PassOn(<<t[1], "due">>)
                                       ELSE IdleCall]
        /\ calm' = IF call[p].clean THEN calm \union {t} ELSE calm
        /\ UNCHANGED claim

\* The process dies: what is left of the operation never happens.
Crash(p) ==
    /\ Crashes
    /\ call[p].at # "idle"
    /\ call' = [call EXCEPT ![p] = IdleCall]
    /\ UNCHANGED <<claim, calm>>

ClaimNext ==
    \/ \E p \in Callers :
          \/ \E s \in Subjects :
                \/ \E said \in Told, stated \in Times, dated \in BOOLEAN :
                      CreateClaim(p, s, said, stated, dated)
                \/ \E i \in Claims : ReattributeClaim(p, i, s)
          \/ \E i \in Claims : \/ DeleteClaim(p, i)
                               \/ RetractClaim(p, i)
                               \/ ContradictClaim(p, i)
          \/ Recompute(p)
          \/ \E u \in call[p].plan : WriteUpdate(p, u)
          \/ Return(p)
          \/ Crash(p)
    \/ \E i \in Claims : UpdateClaim(i) \/ DismissCommitment(i)

ClaimSpec == ClaimInit /\ [][ClaimNext]_claimVars

-----------------------------------------------------------------------------
\* Of two claims of a topic i is certainly the newer one: it was stated later, or
\* at the same time as nothing but mail, or as nothing from mail, and comes later
\* among those.
Newer(t, i, j) ==
    LET ties == {k \in LiveClaims(t) : claim[k].stated = claim[i].stated}
    IN  \/ claim[i].stated > claim[j].stated
        \/ /\ claim[i].stated = claim[j].stated
           /\ \/ i > j /\ \A k \in ties : Evidence(k) = Evidence(i)
              \/ Evidence(i) > Evidence(j) /\ \A k \in ties : Evidence(k) # 0

\* Whether i was inferred, without a word of progress, after a statement of the
\* user's own, or may have been.
Yields(i) == claim[i].said.kind = "inferred" /\ ~Progress(i)
Overruled(t, i) ==
    Yields(i) /\ \E u \in LiveClaims(t) : claim[u].said.kind = "user" /\ Newer(t, i, u)
MayBeOverruled(t, i) ==
    Yields(i) /\ \E u \in LiveClaims(t) \ {i} : claim[u].said.kind = "user" /\ ~Newer(t, u, i)

\* Once a pass has run from its read to its last update without another write
\* that concerns its topic, and until the next one, one claim of the topic is
\* active, unless mail took away the date that would be: no statement that may
\* count is newer, mail has not taken it away, and every superseded claim points
\* to a live one that is newer or overrules it, or to that mail - after inserts
\* out of order, deletions, retractions, contradictions and reattributions, and
\* whatever earlier passes left half done or overwrote (applyClaimLifecycle and
\* the operations that call it).
CalmIsSettled ==
    \A t \in calm :
        LET speaking == Of(t, {"active"})
        IN  /\ \A a, b \in speaking : a = b
            /\ speaking = {} /\ LiveClaims(t) # {} =>
                  \E d \in LiveClaims(t) : claim[d].by \in Removals(d)
            /\ \A a \in speaking :
                  /\ ~Overruled(t, a) /\ Removals(a) = {}
                  /\ \A i \in LiveClaims(t) : Newer(t, i, a) => MayBeOverruled(t, i)
            /\ \A i \in Of(t, {"superseded"}) :
                  \/ /\ claim[i].by \in LiveClaims(t)
                     /\ ~Newer(t, i, claim[i].by) \/ MayBeOverruled(t, i)
                  \/ claim[i].by \in Removals(i)

\* "a user/user_confirmed claim is never silently overwritten by a later
\* assistant_inferred one", but "explicit email completion and material-revision
\* evidence may update task progress": however passes overlap, what supersedes a
\* user's claim is of the same topic, and inferred only if it is explicit progress
\* from mail, of a status.
UserNeverOverwritten ==
    \A i \in Claims :
        claim[i].said.kind = "user" /\ claim[i].status = "superseded" /\ claim[i].by # 0
        => LET by == claim[i].by
           IN  /\ Topic(by) = Topic(i)
               /\ claim[by].said.kind = "inferred" => Progress(by)

\* What was retracted or contradicted speaks again only by the update of a pass
\* that had read the topic before: never by a pass, or anything else, that
\* started afterwards.
RevivedByStalePass ==
    \A i \in Claims :
        claim[i].status \in {"retracted", "contradicted"}
        /\ claim'[i].status \in {"active", "superseded"}
        => \E p \in Callers : call[p].at = "write" /\ ~call[p].clean

OnlyStalePassesRevive == [][RevivedByStalePass]_claimVars

\* "Exactly one active status claim exists per task at any time; creating a new
\* one automatically supersedes the prior": at most one, and only asked for
\* when nobody is at work.
OneActivePerSubject ==
    (\A p \in Callers : call[p].at = "idle")
    => \A s \in Subjects : Cardinality(Of(<<s, "status">>, {"active"})) <= 1

=============================================================================
