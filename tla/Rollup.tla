------------------------------- MODULE Rollup -------------------------------
(***************************************************************************)
(* The catch-up sweep that keeps one partition's day, week, month and year *)
(* summaries current (POST /rollup, runRollup, summarizePeriod).           *)
(*                                                                         *)
(* A claim dates a node to a day.  The sweep learns of a changed day only  *)
(* by a claim created after the watermark of its rollup_state row, and of  *)
(* every other period through the days below it; what it puts off it       *)
(* carries in the row's pending set.  Writers of claims, the calendar, the *)
(* route, the worker and its crashes interleave with every read and write  *)
(* of the sweep.                                                           *)
(*                                                                         *)
(* Days are numbered; weeks, months and years are runs of WeekDays,        *)
(* MonthDays and MonthDays * YearMonths of them, so that a week may feed   *)
(* two months.  A summary stands for the input it was written from, the    *)
(* empty set for no input and for no summary.  Statement order inside one  *)
(* SQL query is one step; collecting a period's input and writing its      *)
(* summary are two, with the model call between them.                      *)
(***************************************************************************)
EXTENDS Naturals, FiniteSets

CONSTANTS
    Entries,      \* claims that date something; each is inserted once
    EntryDays,    \* the days they may date it to
    WeekDays, MonthDays, YearMonths,
    FirstToday, LastToday,  \* the calendar's span
    Floor,        \* startDate: periods that end before it are left out
    Budget,       \* maxLlmCalls of this partition's share, never 0
    Poison,       \* periods whose summary always fails
    MaxAttempts,  \* attempts of the BullMQ job
    MaxFailures   \* other failures: of a model call, or of a whole attempt

ASSUME RollupAssumption ==
    /\ IsFiniteSet(Entries) /\ EntryDays \subseteq 0 .. LastToday - 1
    /\ WeekDays \in Nat \ {0} /\ MonthDays \in Nat \ {0} /\ YearMonths \in Nat \ {0}
    /\ FirstToday \in Nat /\ LastToday \in Nat \ {0} /\ FirstToday <= LastToday
    /\ Floor \in Nat /\ Budget \in Nat \ {0}
    /\ MaxAttempts \in Nat \ {0} /\ MaxFailures \in Nat

VARIABLES
    entry,        \* each claim: its day, createdAt, and what readers see of it
    clock,        \* the latest createdAt handed out
    today,
    summary,      \* each period's summary: the input it was written from
    rollupState,  \* rollup_state
    job,          \* the BullMQ job rollup:<user>
    sweep,        \* what the running sweep remembers
    unannounced,  \* days that changed without a claim newer than the watermark
    failures

rollupVars == <<entry, clock, today, summary, rollupState, job, sweep, unannounced, failures>>

-----------------------------------------------------------------------------
(* Periods.                                                                *)

Day(i) == <<"day", i>>
Week(i) == <<"week", i>>
Month(i) == <<"month", i>>
Year(i) == <<"year", i>>

Length(level) == CASE level = "day" -> 1
                   [] level = "week" -> WeekDays
                   [] level = "month" -> MonthDays
                   [] level = "year" -> MonthDays * YearMonths

Span(p) == LET n == Length(p[1]) IN n * p[2] .. n * p[2] + n - 1

PeriodEndDay(p) == LET n == Length(p[1]) IN n * p[2] + n - 1

Years == {Year(i) : i \in 0 .. (LastToday - 1) \div Length("year")}
AllDays == UNION {Span(y) : y \in Years}
Days == {Day(i) : i \in AllDays}
Weeks == {Week(i \div WeekDays) : i \in AllDays}
Months == {Month(i \div MonthDays) : i \in AllDays}
Periods == Days \union Weeks \union Months \union Years

WeekOfDay(d) == Week(d[2] \div WeekDays)
MonthsOfWeek(w) == {m \in Months : Span(m) \cap Span(w) # {}}
YearOfMonth(m) == Year(m[2] \div YearMonths)

\* Every period whose input can change with the day's summary.
AncestorsOfDay(d) ==
    LET months == MonthsOfWeek(WeekOfDay(d))
    IN  {WeekOfDay(d)} \union months \union {YearOfMonth(m) : m \in months}

AncestorsOf ==
    [p \in Periods |->
        CASE p[1] = "day" -> AncestorsOfDay(p)
          [] p[1] = "week" -> MonthsOfWeek(p) \union
                              {YearOfMonth(m) : m \in MonthsOfWeek(p)}
          [] p[1] = "month" -> {YearOfMonth(p)}
          [] p[1] = "year" -> {}]

\* The periods a summary is written from: a month from every week that
\* overlaps it.
Children ==
    [p \in Periods |->
        CASE p[1] = "day" -> {}
          [] p[1] = "week" -> {d \in Days : d[2] \in Span(p)}
          [] p[1] = "month" -> {w \in Weeks : p \in MonthsOfWeek(w)}
          [] p[1] = "year" -> {m \in Months : YearOfMonth(m) = p}]

EndOf == [p \in Periods |-> PeriodEndDay(p)]

IsComplete(p) == EndOf[p] < today

Rank(p) == CASE p[1] = "day" -> 0 [] p[1] = "week" -> 1
             [] p[1] = "month" -> 2 [] p[1] = "year" -> 3

\* sortForProcessing: bottom-up, and oldest first within a level.
First(ready) ==
    CHOOSE p \in ready : \A q \in ready :
        Rank(p) < Rank(q) \/ (Rank(p) = Rank(q) /\ p[2] <= q[2])

-----------------------------------------------------------------------------
Idle == [at |-> "idle", watermark |-> 0, ready |-> {}, pending |-> {},
         budget |-> 0, period |-> Day(0), input |-> {}]

DaySummary == SUBSET Entries
WeekSummary == SUBSET (Days \X DaySummary)
MonthSummary == SUBSET (Weeks \X WeekSummary)
YearSummary == SUBSET (Months \X MonthSummary)

SummaryOf(p) == CASE p[1] = "day" -> DaySummary
                  [] p[1] = "week" -> WeekSummary
                  [] p[1] = "month" -> MonthSummary
                  [] p[1] = "year" -> YearSummary

RollupTypeOK ==
    /\ entry \in [Entries -> [day : EntryDays, at : 0 .. Cardinality(Entries),
                              status : {"none", "open", "active", "retracted"}]]
    /\ clock \in 0 .. Cardinality(Entries)
    /\ today \in FirstToday .. LastToday
    /\ DOMAIN summary = Periods
    /\ \A p \in Periods : summary[p] \in SummaryOf(p)
    /\ rollupState \in [watermark : 0 .. clock, pending : SUBSET Periods]
    /\ job \in [state : {"none", "waiting", "active", "failed"},
                tries : 0 .. MaxAttempts]
    /\ sweep.at \in {"idle", "next", "write"}
    /\ sweep.watermark \in 0 .. clock
    /\ sweep.ready \subseteq Periods /\ sweep.pending \subseteq Periods
    /\ sweep.budget \in 0 .. Budget
    /\ sweep.period \in Periods /\ sweep.input \in SummaryOf(sweep.period)
    /\ unannounced \subseteq Days
    /\ failures \in 0 .. MaxFailures

RollupInit ==
    /\ entry \in [Entries -> [day : EntryDays, at : {0}, status : {"none"}]]
    /\ clock = 0
    /\ today = FirstToday
    /\ summary = [p \in Periods |-> {}]
    /\ rollupState = [watermark |-> 0, pending |-> {}]
    /\ job = [state |-> "none", tries |-> 0]
    /\ sweep = Idle
    /\ unannounced = {}
    /\ failures = 0

-----------------------------------------------------------------------------
(* The claims and the calendar.                                            *)

\* createdAt is assigned at the INSERT and visible at the COMMIT.
InsertEntry(e) ==
    /\ entry[e].status = "none"
    /\ clock' = clock + 1
    /\ entry' = [entry EXCEPT ![e].at = clock + 1, ![e].status = "open"]
    /\ UNCHANGED <<today, summary, rollupState, job, sweep, unannounced, failures>>

\* A commit with a createdAt the row or the running sweep has already passed
\* goes unnoticed: the limitation runRollup names.
CommitEntry(e) ==
    /\ entry[e].status = "open"
    /\ entry' = [entry EXCEPT ![e].status = "active"]
    /\ unannounced' =
          IF entry[e].at <= rollupState.watermark \/ entry[e].at <= sweep.watermark
          THEN unannounced \union {Day(entry[e].day)} ELSE unannounced
    /\ UNCHANGED <<clock, today, summary, rollupState, job, sweep, failures>>

\* A claim that leaves the active status, which the sweep is not told.
RetractEntry(e) ==
    /\ entry[e].status = "active"
    /\ entry' = [entry EXCEPT ![e].status = "retracted"]
    /\ unannounced' = unannounced \union {Day(entry[e].day)}
    /\ UNCHANGED <<clock, today, summary, rollupState, job, sweep, failures>>

NextDay ==
    /\ today < LastToday
    /\ today' = today + 1
    /\ UNCHANGED <<entry, clock, summary, rollupState, job, sweep, unannounced, failures>>

-----------------------------------------------------------------------------
(* The sweep.                                                              *)

\* POST /rollup: a job that waits or runs absorbs the trigger, a failed one is
\* removed and replaced.  A completed one removes itself.
Trigger ==
    /\ job.state \in {"none", "failed"}
    /\ job' = [state |-> "waiting", tries |-> 0]
    /\ UNCHANGED <<entry, clock, today, summary, rollupState, sweep, unannounced, failures>>

Touching(watermark) ==
    {e \in Entries : entry[e].status = "active" /\ entry[e].at > watermark}

TouchedDays(watermark) == {Day(entry[e].day) : e \in Touching(watermark)}

\* Slip: what the row carries over is not expanded to its ancestors.
TouchedAncestorsOnly ==
    LET touched == TouchedDays(rollupState.watermark)
    IN  rollupState.pending \union touched \union UNION {AncestorsOf[p] : p \in touched}

\* Touched days and what the row carries over, each with its ancestors.
WorkSet ==
    LET keys == rollupState.pending \union TouchedDays(rollupState.watermark)
    IN  keys \union UNION {AncestorsOf[p] : p \in keys}

\* The highest createdAt seen, for the row the sweep will write.
Seen == LET ats == {entry[e].at : e \in Touching(rollupState.watermark)}
        IN  IF ats = {} THEN rollupState.watermark
            ELSE CHOOSE t \in ats : \A u \in ats : u <= t

\* Steps 1 to 3 of runRollup: read the row, discover, set aside what is not
\* complete yet.
Discover ==
    /\ job.state = "waiting"
    /\ job' = [job EXCEPT !.state = "active", !.tries = @ + 1]
    /\ LET kept == {p \in WorkSet : EndOf[p] >= Floor}
       IN  sweep' = [Idle EXCEPT
                       !.at = "next", !.watermark = Seen, !.budget = Budget,
                       !.ready = {p \in kept : IsComplete(p)},
                       !.pending = {p \in kept : ~IsComplete(p)}]
    /\ unannounced' = unannounced \ WorkSet
    /\ UNCHANGED <<entry, clock, today, summary, rollupState, failures>>

\* collectPeriodInput.
Input(p) ==
    IF p[1] = "day"
    THEN {e \in Entries : entry[e].status = "active" /\ Day(entry[e].day) = p}
    ELSE {<<q, summary[q]>> : q \in {c \in Children[p] : summary[c] # {}}}

Current == First(sweep.ready)
NextPeriod == sweep.at = "next" /\ sweep.ready # {}

\* Over budget: the period stays pending.
Defer ==
    /\ NextPeriod
    /\ sweep.budget = 0
    /\ sweep' = [sweep EXCEPT !.ready = @ \ {Current},
                              !.pending = @ \union {Current}]
    /\ UNCHANGED <<entry, clock, today, summary, rollupState, job, unannounced, failures>>

Unchanged(p) == Input(p) = {} \/ Input(p) = summary[p]

\* Nothing to summarize, or the fingerprint of the input is the summary's own:
\* the charge is refunded.
Skip ==
    /\ NextPeriod
    /\ sweep.budget > 0
    /\ Unchanged(Current)
    /\ sweep' = [sweep EXCEPT !.ready = @ \ {Current}]
    /\ UNCHANGED <<entry, clock, today, summary, rollupState, job, unannounced, failures>>

\* The charge is taken before the model is called.
Collect ==
    /\ NextPeriod
    /\ sweep.budget > 0
    /\ ~Unchanged(Current)
    /\ sweep' = [sweep EXCEPT !.at = "write", !.budget = @ - 1,
                              !.ready = @ \ {Current},
                              !.period = Current, !.input = Input(Current)]
    /\ UNCHANGED <<entry, clock, today, summary, rollupState, job, unannounced, failures>>

\* Summary and fingerprint are written in one transaction, after the embedding.
Summarize ==
    /\ sweep.at = "write"
    /\ sweep.period \notin Poison
    /\ summary' = [summary EXCEPT ![sweep.period] = sweep.input]
    /\ sweep' = [sweep EXCEPT !.at = "next", !.period = Day(0), !.input = {}]
    /\ UNCHANGED <<entry, clock, today, rollupState, job, unannounced, failures>>

\* Slip: a failed period is only counted, not kept.
FailureForgotten ==
    sweep' = [sweep EXCEPT !.at = "next", !.period = Day(0), !.input = {}]

\* The period stays pending and keeps its charge; the rest goes on.
KeepPending ==
    sweep' = [sweep EXCEPT !.at = "next", !.pending = @ \union {sweep.period},
                           !.period = Day(0), !.input = {}]

SummarizeFails ==
    /\ sweep.at = "write"
    /\ \/ sweep.period \in Poison /\ UNCHANGED failures
       \/ /\ sweep.period \notin Poison
          /\ failures < MaxFailures
          /\ failures' = failures + 1
    /\ KeepPending
    /\ UNCHANGED <<entry, clock, today, summary, rollupState, job, unannounced>>

\* Step 5: the watermark always advances, pending carries the rest.
CommitState ==
    /\ sweep.at = "next" /\ sweep.ready = {}
    /\ rollupState' = [watermark |-> sweep.watermark, pending |-> sweep.pending]
    /\ job' = [state |-> "none", tries |-> 0]
    /\ sweep' = Idle
    /\ UNCHANGED <<entry, clock, today, summary, unannounced, failures>>

\* A throw or a crash outside a period ends the attempt before the row is
\* written; BullMQ runs the next attempt or gives the job up.
AttemptFails ==
    /\ job.state = "active"
    /\ failures < MaxFailures
    /\ failures' = failures + 1
    /\ job' = [job EXCEPT !.state = IF job.tries < MaxAttempts
                                    THEN "waiting" ELSE "failed"]
    /\ sweep' = Idle
    /\ UNCHANGED <<entry, clock, today, summary, rollupState, unannounced>>

SweepStep == \/ Discover \/ Defer \/ Skip \/ Collect \/ Summarize
             \/ SummarizeFails \/ CommitState

RollupNext ==
    \/ \E e \in Entries : InsertEntry(e) \/ CommitEntry(e) \/ RetractEntry(e)
    \/ NextDay
    \/ Trigger
    \/ SweepStep
    \/ AttemptFails

RollupSpec == RollupInit /\ [][RollupNext]_rollupVars

\* The worker runs what is queued, and the caller triggers a sweep again and
\* again.  Nothing makes claims arrive or days pass.
RollupFairness == WF_rollupVars(SweepStep) /\ WF_rollupVars(Trigger)

RollupFairSpec == RollupSpec /\ RollupFairness

-----------------------------------------------------------------------------
InScope(p) == EndOf[p] >= Floor /\ IsComplete(p)

Stale(p) == InScope(p) /\ Input(p) # {} /\ summary[p] # Input(p)

\* p or a period below it.
Below == [p \in Periods |-> {q \in Periods : q = p \/ p \in AncestorsOf[q]}]

\* A complete period whose input is not the one its summary was written from
\* is remembered by the row the next sweep reads: it or a period below it is
\* pending or has a claim newer than the watermark, unless the only change is
\* one no claim announces (runRollup's discovery, expansion, filter and row,
\* over failures, deferrals, crashes and a calendar that completes periods
\* one by one).
StaleIsRemembered ==
    \A p \in Periods : Stale(p) =>
        Below[p] \cap (rollupState.pending \union TouchedDays(rollupState.watermark)
                       \union unannounced) # {}

\* The cap on paid calls does not starve anybody: with a budget above the
\* number of periods that always fail, every other complete period ends up
\* with a summary of its present input, however the work was put off before
\* ("One poison period must not block the sweep").
UpToDate(p) == ~Stale(p) \/ Below[p] \cap unannounced # {}

EveryPeriodCatchesUp == \A p \in Periods \ Poison : <>[]UpToDate(p)

=============================================================================
