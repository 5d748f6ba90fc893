---------------------------- MODULE MCReadModels ----------------------------
(***************************************************************************)
(* Small instances of the components that derive something from the        *)
(* claims and must keep up with them: the rollup sweep, the change feed    *)
(* with its consumer, and the atlas with the bundles that show it.  In the *)
(* models they share no state, so a behaviour is one of one of them, the   *)
(* `focus`; the others stay where they begin.  The atlas is looked at      *)
(* twice: with two workers that may fail, and with one and a reader.       *)
(***************************************************************************)
EXTENDS Rollup, ChangeFeed, AtlasRefresh

CONSTANTS TheSource, TheClaim, TheWorker

VARIABLE focus

modelVars == <<focus, rollupVars, feedVars, atlasVars>>

\* One day's transcript breaks the model's answer every time.
PoisonDays == {Day(1)}

FedItems == {TheSource, TheClaim}
FedFrom == [i \in FedItems |-> TheSource]

\* Entries are interchangeable: it is enough to begin with their days in one
\* order, and with any one where the sweep is not in focus.
\* The last of them is on the day that has just begun.  There is no claim yet
\* that an atlas could be written from.
InOrder ==
    /\ \A i, j \in Entries : i <= j => entry[i].day <= entry[j].day
    /\ \E i \in Entries : entry[i].day = FirstToday
    /\ focus # "rollup" => \A i \in Entries : entry[i].day = FirstToday
    /\ facts = Nothing

ReadInit ==
    /\ focus \in {"rollup", "feed", "atlas", "bundle"}
    /\ RollupInit /\ FeedInit /\ AtlasInit /\ InOrder

OfRollup(A) == focus = "rollup" /\ A /\ UNCHANGED <<focus, feedVars, atlasVars>>
OfFeed(A) == focus = "feed" /\ A /\ UNCHANGED <<focus, rollupVars, atlasVars>>
OfAtlas(A) ==
    /\ focus \in {"atlas", "bundle"}
    /\ A /\ UNCHANGED <<focus, rollupVars, feedVars>>
    /\ \/ focus = "atlas" /\ UNCHANGED asking
       \/ focus = "bundle" /\ UNCHANGED faults /\ \A w \in Workers \ {TheWorker} : run'[w] = run[w]

ReadNext == OfRollup(RollupNext) \/ OfFeed(FeedNext) \/ OfAtlas(AtlasNext)

ReadSpec == ReadInit /\ [][ReadNext]_modelVars

\* The fairness of each component, where it runs.  A behaviour has one focus,
\* so that one conjunct can stand for an action of each.
ReadFairSpec ==
    /\ ReadSpec
    /\ WF_modelVars(OfRollup(SweepStep) \/ OfFeed(StartAgain))
    /\ WF_modelVars(OfRollup(Trigger) \/ OfFeed(ReadHead) \/ OfAtlas(Dream))
    /\ WF_modelVars(OfFeed(ReadRows) \/ OfAtlas(Expire))
    /\ WF_modelVars(OfFeed(Respond) \/ OfAtlas(Work(TheWorker)))
    /\ \A w \in Workers \ {TheWorker} : WF_modelVars(OfAtlas(Work(w)))

-----------------------------------------------------------------------------
\* Each row of the tables behind the read models is one the code can write
\* (db/schema.ts, drizzle/0029_calm_lifecycle_feed.sql).
ReadTypeOK == RollupTypeOK /\ FeedTypeOK /\ AtlasTypeOK

\* Once the writers are done, the consumer catches up and stays so, whatever
\* pages were lost and whatever cursors were refused
\* (docs/sdk-consumer-migration.md:156-167).
ConsumerCatchesUp == <>[](focus = "feed" => CaughtUp)

=============================================================================
