----------------------------- MODULE Experiments -----------------------------
(***************************************************************************)
(* Experiments kept and read back: `geolytics experiment` scores a grid of  *)
(* conditions, compares them, and stores the scores of each query under a    *)
(* name (experiments/chunking_grid.py, pipeline.persist_runs); GET           *)
(* /experiments/{name} compares them anew (api/routes/experiments.py).       *)
(* A condition's name is a number, 0 stands for no baseline. Nothing keeps   *)
(* a name from being stored under again.                                     *)
(***************************************************************************)
EXTENDS Statistics

CONSTANTS
    Grid,      \* build_conditions: the names, in the grid's order
    Queries,   \* the queries of a query set
    Outcomes,  \* what run_all may return: the scores of the queries by condition
    Names,     \* names an experiment is stored under
    Orgs,      \* organisations
    Baselines, \* baselines asked for, some of them of no condition
    MaxRuns    \* bound: experiments run

Conditions == Range(Grid)

\* build_conditions names no condition twice, and compare_runs takes no fewer than two.
ASSUME GridAssumption ==
    /\ Grid \in Seq(Nat \ {0}) /\ Len(Grid) >= 2
    /\ \A i, j \in DOMAIN Grid : i # j => Grid[i] # Grid[j]
    /\ Baselines \subseteq Nat

ASSUME OutcomesAssumption ==
    /\ IsFiniteSet(Queries)
    /\ Outcomes \subseteq [Conditions -> UNION {[Q -> {0, 1}] : Q \in SUBSET Queries}]

\* The test is two-sided, and holm_bonferroni refuses a p-value that is none.
ASSUME PValueAssumption ==
    \A n, wins, losses \in 0..Cardinality(Queries) : wins + losses > 0 =>
        /\ PValue(n, wins, losses) \in 0..100
        /\ PValue(n, wins, losses) = PValue(n, losses, wins)

VARIABLES
    orgs,    \* the organisations, oldest first
    cli,     \* the experiment being run: its place, scores, baseline
    rows,    \* experiment_runs and their query_records
    stored,  \* what was stored under each name: the scores, in order
    report,  \* what the last GET answered
    runs     \* experiments run so far

vars == <<orgs, cli, rows, stored, report, runs>>

NoRun == [at |-> "idle", scores |-> <<>>, baseline |-> 0, comparisons |-> <<>>]
NoReport == [status |-> 0, org |-> 0, name |-> "", baseline |-> 0, comparisons |-> <<>>]

Init ==
    /\ orgs \in {<<>>} \cup {<<o>> : o \in Orgs}
    /\ cli = NoRun
    /\ rows = <<>>
    /\ stored = [n \in Names |-> <<>>]
    /\ report = NoReport
    /\ runs = 0

CreateOrg(o) ==
    /\ o \notin Range(orgs)
    /\ orgs' = Append(orgs, o)
    /\ report' = NoReport
    /\ UNCHANGED <<cli, rows, stored, runs>>

\* ExperimentHarness.run_all: queries no chunk answers are not scored
RunAll(scores, baseline) ==
    /\ cli.at = "idle" /\ runs < MaxRuns
    /\ cli' = [at |-> "scored", scores |-> scores, baseline |-> baseline, comparisons |-> <<>>]
    /\ runs' = runs + 1
    /\ report' = NoReport
    /\ UNCHANGED <<orgs, rows, stored>>

\* compare_runs, which raises without a shared query or for a baseline that is no
\* condition: the command ends, before anything was saved.
CompareRuns ==
    /\ cli.at = "scored"
    /\ cli' = IF Shared(cli.scores) = {} \/ cli.baseline \notin {0} \cup Conditions THEN NoRun
              ELSE [cli EXCEPT !.at = "compared",
                               !.comparisons = Compare(cli.scores, Grid, cli.baseline)]
    /\ report' = NoReport
    /\ UNCHANGED <<orgs, rows, stored, runs>>

\* _default_org_id
DefaultOrg == orgs[1]

\* persist_runs: one transaction, for the oldest organisation; refused when there is none
PersistRuns(name) ==
    /\ cli.at = "compared"
    /\ IF orgs = <<>> THEN UNCHANGED <<rows, stored>>
       ELSE /\ rows' = rows \o [i \in DOMAIN Grid |->
                                   [experiment |-> name, org |-> DefaultOrg, condition |-> Grid[i],
                                    metrics |-> cli.scores[Grid[i]]]]
            /\ stored' = [stored EXCEPT ![name] = Append(@, cli.scores)]
    /\ cli' = NoRun
    /\ report' = NoReport
    /\ UNCHANGED <<orgs, runs>>

-----------------------------------------------------------------------------
\* A slip: the runs of every organisation are read.
SelectedOfAll(name, org) == SelectSeq(rows, LAMBDA r : r.experiment = name)

\* Ordered by condition; of two rows of one, in the order they were stored
Selected(name, org) ==
    LET found == {i \in DOMAIN rows : rows[i].experiment = name /\ rows[i].org = org}
        order == {<<rows[i].condition, i>> : i \in found}
        nth(k) == CHOOSE x \in order : Cardinality(UpTo(order, x)) = k
    IN [k \in 1..Cardinality(found) |-> rows[nth(k)[2]]]

\* get_experiment. Rows are never changed, so reading the records of the rows it has
\* read is one step. Of the rows of one condition, in no set order, the last counts.
GetExperiment(name, org, baseline) ==
    LET found == Selected(name, org)
        Answer(status, comparisons) ==
            report' = [status |-> status, org |-> org, name |-> name, baseline |-> baseline,
                       comparisons |-> comparisons]
    IN /\ org \in Range(orgs)
       /\ IF found = <<>> THEN Answer(404, <<>>)
          ELSE \E last \in [Conditions -> Range(found)] :
                 /\ \A c \in Conditions : last[c].condition = c
                 /\ LET scores == [c \in Conditions |-> last[c].metrics]
                    IN IF Shared(scores) = {} THEN Answer(409, <<>>)
                       ELSE IF baseline \notin {0} \cup DOMAIN scores THEN Answer(400, <<>>)
                       ELSE Answer(200, Compare(scores, [i \in DOMAIN found |-> found[i].condition],
                                                baseline))
       /\ UNCHANGED <<orgs, cli, rows, stored, runs>>

Next ==
    \/ \E o \in Orgs : CreateOrg(o)
    \/ \E s \in Outcomes, b \in Baselines : RunAll(s, b)
    \/ CompareRuns
    \/ \E n \in Names : PersistRuns(n)
    \/ \E n \in Names, o \in Orgs, b \in Baselines : GetExperiment(n, o, b)

Spec == Init /\ [][Next]_vars

-----------------------------------------------------------------------------
(***************************************************************************)
(* The comparisons control the family: each adjusted p-value is that of the *)
(* closed test, the largest Bonferroni p-value of the sets of comparisons it *)
(* is in, and the effect size is the share of pairs of queries won less the  *)
(* share lost, though both are computed by sorting.                          *)
(***************************************************************************)
Bonferroni(S, c) == Min({100, Cardinality(S) * Min({c[j].p : j \in S})})
Dominance(x, y) ==
    LET pairs == (DOMAIN x) \X (DOMAIN y)
    IN Cardinality({k \in pairs : x[k[1]] > y[k[2]]}) - Cardinality({k \in pairs : x[k[1]] < y[k[2]]})

FamilyWise ==
    LET c == cli.comparisons
        ids == SetToSeq(Shared(cli.scores))
        vector(k) == [i \in DOMAIN ids |-> cli.scores[k][ids[i]]]
    IN \A i \in DOMAIN c :
          /\ c[i].adjusted = Max({Bonferroni(S, c) : S \in {T \in SUBSET DOMAIN c : i \in T}})
          /\ c[i].effect = Dominance(vector(c[i].a), vector(c[i].b))

\* A comparison without its direction
Undirected(c) ==
    [pair |-> {c.a, c.b}, n |-> c.n, p |-> c.p, adjusted |-> c.adjusted,
     diff |-> IF c.a < c.b THEN c.diff ELSE -c.diff,
     effect |-> IF c.a < c.b THEN c.effect ELSE -c.effect]

Directionless(comparisons) == {Undirected(comparisons[i]) : i \in DOMAIN comparisons}

(***************************************************************************)
(* What was stored once is read back as it was reported: the oldest          *)
(* organisation has the comparisons compare_runs made of the same scores,     *)
(* an unknown baseline is refused, and nobody else finds the name.            *)
(***************************************************************************)
ReadBack ==
    report.status # 0 =>
        LET kept == stored[report.name]
            owner == kept # <<>> /\ report.org = DefaultOrg
        IN /\ report.status = 404 <=> ~owner
           /\ owner /\ Len(kept) = 1 =>
                 /\ report.status # 409
                 /\ report.status = 400 <=> report.baseline \notin {0} \cup Conditions
                 /\ report.status = 200 =>
                       Directionless(report.comparisons)
                           = Directionless(Compare(kept[1], Grid, report.baseline))

(***************************************************************************)
(* Storing a run again never makes a difference of it significant: when      *)
(* all that is stored under a name are the same scores, every pair of        *)
(* conditions is reported with the p-value it had and an adjusted one that    *)
(* is no lower, though the family has grown.                                 *)
(***************************************************************************)
RerunsNeverOverstate ==
    report.status = 200 /\ Cardinality(Range(stored[report.name])) = 1 =>
        LET first == Compare(stored[report.name][1], Grid, report.baseline)
            again == report.comparisons
        IN \A i \in DOMAIN first : \E j \in DOMAIN again :
              /\ {again[j].a, again[j].b} = {first[i].a, first[i].b}
              /\ \A k \in DOMAIN again : {again[k].a, again[k].b} = {first[i].a, first[i].b} =>
                     again[k].p = first[i].p /\ again[k].adjusted >= first[i].adjusted
=============================================================================
