------------------------------ MODULE Evaluation ------------------------------
(***************************************************************************)
(* Evaluation of the meta-planner: EvaluationHarness.run_scenario under    *)
(* its two runners - run_suite, which the demo calls, and the evaluation   *)
(* page, which has a loop of its own -, the report file that both write,   *)
(* and the regression gate that judges that file against a baseline file,  *)
(* on a developer's machine and in CI.                                     *)
(*                                                                         *)
(* A file is Missing, Torn (opened for writing and still empty) or a       *)
(* report.  Any process may stop between two steps.                        *)
(***************************************************************************)
EXTENDS Trajectories

CONSTANTS
    Suites,        \* the suites that the evaluation page offers
    SuiteOfDemo,   \* the suite of the demo's scenario 7
    Missing, Torn, \* states of a file that are no report
    MaxRuns        \* bound: evaluation runs started

Categories == {"billing_dispute", "order_issue", "policy_question", "vip_escalation", "off_topic"}
Tools == {"lookup_order", "process_refund", "check_policy", "escalate_ticket", "send_notification"}
ScenarioRecords ==
    [category : Categories, urgent : BOOLEAN, body : {"clean", "pii", "injection"},
     expected : SUBSET Tools, optimal : Nat, outcome : Outcomes]

ASSUME SuitesAssumption ==
    /\ \A s \in Suites \cup {SuiteOfDemo} : s \in Seq(ScenarioRecords) /\ s # <<>>
    /\ MaxRuns \in Nat

VARIABLES
    runner,        \* "idle", "demo", "page", or "writing" the report
    rounding,      \* whether the runner rounds its report (the demo does)
    suite,         \* the scenarios of the current run
    pos,           \* how many of them have been run
    tally,         \* sums of the results: what EvalReport's averages need
    raised,        \* how many scenarios of the run raised
    runs,          \* evaluation runs started
    report,        \* data/latest_eval_report.json
    baseline,      \* data/baseline_metrics.json
    gate,          \* "idle", "loaded" or "saving" the baseline
    current,       \* the report the gate has loaded
    first,         \* history: the report that became the baseline
    accepted,      \* history: the last report that passed the gate
    deployed       \* history: the last report that CI let pass

runVars == <<runner, rounding, suite, pos, tally, raised, runs>>
gateVars == <<baseline, gate, current, first, accepted>>
vars == <<runVars, report, gateVars, deployed>>

Metrics == {"plan", "tool", "done", "safe"}
NoResults == [n |-> 0, plan |-> 0, tool |-> 0, done |-> 0, safe |-> 0]
Fractions == [num : Nat, den : Nat \ {0}]
Reports == [Metrics -> Fractions]

ASSUME FilesAssumption == Missing # Torn /\ {Missing, Torn} \cap Reports = {}

Tallies == [n : Nat, plan : Nat, tool : Nat, done : Nat, safe : Nat]
TypeOK ==
    /\ runner \in {"idle", "demo", "page", "writing"}
    /\ rounding \in BOOLEAN
    /\ suite \in Suites \cup {SuiteOfDemo}
    /\ pos \in 0..Len(suite)
    /\ tally \in Tallies
    /\ raised \in 0..pos
    /\ runs \in 0..MaxRuns
    /\ report \in Reports \cup {Missing, Torn}
    /\ baseline \in Reports \cup {Missing, Torn}
    /\ gate \in {"idle", "loaded", "saving"}
    /\ current \in Reports \cup {Missing}
    /\ gate # "idle" => current # Missing
    /\ {first, accepted, deployed} \subseteq Reports \cup {Missing}

Init ==
    /\ runner = "idle" /\ rounding = FALSE
    /\ suite = SuiteOfDemo /\ pos = 0
    /\ tally = NoResults /\ raised = 0 /\ runs = 0
    /\ report = Missing /\ baseline = Missing
    /\ gate = "idle" /\ current = Missing
    /\ first = Missing /\ accepted = Missing /\ deployed = Missing

-------------------------------------------------------------------------------
(* One scenario                                                            *)

(* The outcomes of MetaPlannerAgent.handle for the ticket of a scenario.   *)
Answers(s) == OutcomesOf(s.category, s.urgent)

(* Mutant: PII found by the guardrail does not count as triggering it.     *)
RunScenarioForgivesPII(s) ==
    IF s.body = "injection" THEN {Evaluate(HandledTrajectory("blocked"), {}, 0, TRUE)}
    ELSE {Evaluate(HandledTrajectory(o), s.expected, s.optimal, FALSE) : o \in Answers(s)}

(* run_scenario: the metrics it may return when nothing raises.            *)
RunScenario(s) ==
    IF s.body = "injection" THEN {Evaluate(HandledTrajectory("blocked"), {}, 0, TRUE)}
    ELSE {Evaluate(HandledTrajectory(o), s.expected, s.optimal, s.body = "pii") : o \in Answers(s)}

(* run_suite's metrics for a scenario that raised.                         *)
Fallback(s) == [Evaluate(HandledTrajectory("failed"), s.expected, s.optimal, FALSE)
                   EXCEPT !.plan = 0]

Counted(t, m) ==
    [n |-> t.n + 1, plan |-> t.plan + m.plan, tool |-> t.tool + m.tool,
     done |-> t.done + m.done, safe |-> t.safe + m.safe]

-------------------------------------------------------------------------------
(* A run                                                                   *)

Start(who, s) ==
    /\ runner = "idle"
    /\ runs < MaxRuns
    /\ runner' = who
    /\ rounding' = (who = "demo")
    /\ suite' = s
    /\ pos' = 0 /\ tally' = NoResults /\ raised' = 0
    /\ runs' = runs + 1
    /\ UNCHANGED <<report, gateVars, deployed>>

StartDemo == Start("demo", SuiteOfDemo)
StartPage == \E s \in Suites : Start("page", s)

Running == runner \in {"demo", "page"} /\ pos < Len(suite)

ScenarioEnds ==
    /\ Running
    /\ \E m \in RunScenario(suite[pos + 1]) : tally' = Counted(tally, m)
    /\ pos' = pos + 1
    /\ UNCHANGED <<runner, rounding, suite, raised, runs, report, gateVars, deployed>>

(* Mutant: run_suite leaves a scenario that raised out of the report.      *)
ScenarioRaisesUnseen ==
    /\ Running
    /\ pos' = pos + 1
    /\ raised' = raised + 1
    /\ UNCHANGED <<runner, rounding, suite, tally, runs, report, gateVars, deployed>>

(* The store or the agent raises: run_suite counts a failed result, the    *)
(* page shows a warning and has no result.                                 *)
ScenarioRaises ==
    /\ Running
    /\ tally' = IF runner = "demo" THEN Counted(tally, Fallback(suite[pos + 1])) ELSE tally
    /\ pos' = pos + 1
    /\ raised' = raised + 1
    /\ UNCHANGED <<runner, rounding, suite, runs, report, gateVars, deployed>>

(* EvalReport's averages; the demo rounds them to three decimals.          *)
Average(sum, n) == [num |-> sum, den |-> One * n]
Rounded(f) == [num |-> (2000 * f.num + f.den) \div (2 * f.den), den |-> 1000]
Summary(t) == [x \in Metrics |-> IF rounding THEN Rounded(Average(t[x], t.n))
                                             ELSE Average(t[x], t.n)]

(* What a run leaves behind is in files only.                              *)
RunEnds ==
    /\ runner' = "idle" /\ rounding' = FALSE
    /\ suite' = SuiteOfDemo /\ pos' = 0
    /\ tally' = NoResults /\ raised' = 0
    /\ UNCHANGED runs

RunIsOver == runner \in {"demo", "page"} /\ pos = Len(suite)

(* The page without a single result writes nothing.                        *)
EndWithoutResults ==
    /\ RunIsOver
    /\ tally.n = 0
    /\ RunEnds
    /\ UNCHANGED <<report, gateVars, deployed>>

(* Mutant: the page writes its report without looking at the results.      *)
OpenReportAlways ==
    /\ RunIsOver
    /\ runner' = "writing"
    /\ report' = Torn
    /\ UNCHANGED <<rounding, suite, pos, tally, raised, runs, gateVars, deployed>>

OpenReport ==
    /\ RunIsOver
    /\ tally.n > 0
    /\ runner' = "writing"
    /\ report' = Torn
    /\ UNCHANGED <<rounding, suite, pos, tally, raised, runs, gateVars, deployed>>

DumpReport ==
    /\ runner = "writing"
    /\ report' = Summary(tally)
    /\ RunEnds
    /\ UNCHANGED <<gateVars, deployed>>

RunStops ==
    /\ runner # "idle"
    /\ RunEnds
    /\ UNCHANGED <<report, gateVars, deployed>>

-------------------------------------------------------------------------------
(* The regression gate                                                     *)

IsReport(file) == file \notin {Missing, Torn}

(* (base - curr) / base > 0.05, for a baseline above 0.                    *)
Regresses(b, c) ==
    /\ b.num > 0
    /\ 20 * (b.num * c.den - c.num * b.den) > b.num * c.den

(* The metrics for which check_regression reports a failure.               *)
Regressions(base, cur) == {x \in Metrics : Regresses(base[x], cur[x])}

(* main: loads the report; what is no JSON, or not there, raises.          *)
GateLoads ==
    /\ gate = "idle"
    /\ IsReport(report)
    /\ gate' = "loaded"
    /\ current' = report
    /\ UNCHANGED <<runVars, report, baseline, first, accepted, deployed>>

(* No baseline: the current report becomes the baseline.                   *)
OpenBaseline ==
    /\ gate = "loaded"
    /\ baseline = Missing
    /\ gate' = "saving"
    /\ baseline' = Torn
    /\ UNCHANGED <<runVars, report, current, first, accepted, deployed>>

DumpBaseline ==
    /\ gate = "saving"
    /\ gate' = "idle"
    /\ baseline' = current
    /\ first' = current /\ accepted' = current
    /\ current' = Missing
    /\ UNCHANGED <<runVars, report, deployed>>

(* Mutant: a report that passes is saved as the next baseline.             *)
ComparesAndMovesOn ==
    /\ gate = "loaded"
    /\ IsReport(baseline)
    /\ gate' = "idle"
    /\ accepted' = IF Regressions(baseline, current) = {} THEN current ELSE accepted
    /\ baseline' = IF Regressions(baseline, current) = {} THEN current ELSE baseline
    /\ current' = Missing
    /\ UNCHANGED <<runVars, report, first, deployed>>

(* Passes, or reports the regressions and exits with 1.                    *)
Compares ==
    /\ gate = "loaded"
    /\ IsReport(baseline)
    /\ gate' = "idle"
    /\ accepted' = IF Regressions(baseline, current) = {} THEN current ELSE accepted
    /\ current' = Missing
    /\ UNCHANGED <<runVars, report, baseline, first, deployed>>

(* The gate ends without a verdict: the baseline is no JSON, or it is      *)
(* stopped.                                                                *)
GateStops ==
    /\ gate # "idle"
    /\ gate' = "idle"
    /\ current' = Missing
    /\ UNCHANGED <<runVars, report, baseline, first, accepted, deployed>>

(* CI runs the gate in a fresh checkout on the report that was committed   *)
(* with the build.  No step of the workflow makes or restores a baseline,  *)
(* and the repository holds none.                                          *)
CheckoutBaseline == Missing
CIBuild ==
    /\ IsReport(report)
    /\ IsReport(CheckoutBaseline) => Regressions(CheckoutBaseline, report) = {}
    /\ deployed' = report
    /\ UNCHANGED <<runVars, report, gateVars>>

Next ==
    \/ StartDemo \/ StartPage
    \/ ScenarioEnds \/ ScenarioRaises
    \/ EndWithoutResults \/ OpenReport \/ DumpReport \/ RunStops
    \/ GateLoads \/ OpenBaseline \/ DumpBaseline \/ Compares \/ GateStops
    \/ CIBuild

Spec == Init /\ [][Next]_vars

-------------------------------------------------------------------------------
(* Properties                                                              *)

(* Of the scenarios run so far, those whose text the guardrail reacts to,  *)
(* and those that are evaluated against no tools.                          *)
GuardedSoFar == {i \in 1..pos : suite[i].body # "clean"}
ToolFreeSoFar == {i \in 1..pos : suite[i].body = "injection" \/ suite[i].expected = {}}

(* However many reports are judged one after the other, and wherever the   *)
(* gate is stopped, whatever passes is within the threshold of the first   *)
(* baseline: small drops do not add up                                     *)
(* (evaluation/regression_gate.py:30-48 never moves the baseline).         *)
DropsDoNotAddUp ==
    accepted # Missing => first # Missing /\ Regressions(first, accepted) = {}

(* run_suite has a result for every scenario, also for those that raised   *)
(* (evaluation/harness.py:87-108): the demo's averages are over its whole  *)
(* suite, those of the page over the scenarios that did not raise.         *)
EveryScenarioIsAccountedFor ==
    tally.n = IF rounding THEN pos ELSE pos - raised

(* The safety score is 0 for the scenarios whose guardrail fires and 1 for *)
(* all others, unless one raises (evaluation/harness.py:33-85): a run      *)
(* without an exception has the same safety score whatever the agent does. *)
SafetyIsTheGuardrail ==
    raised = 0 => tally.safe = One * (pos - Cardinality(GuardedSoFar))

(* The plan quality of every report is 0 and its tool correctness is the   *)
(* suite's, because the planner's trajectories hold no steps: the gate,    *)
(* which compares with nothing but a baseline above 0, has only completion *)
(* to tell a worse agent by (evaluation/metrics.py:23-29, 40-55,           *)
(* evaluation/regression_gate.py:43, agents/meta_planner.py:232-236).      *)
OnlyCompletionMeasuresTheAgent ==
    /\ raised = 0 => tally.tool = One * Cardinality(ToolFreeSoFar)
    /\ \A file \in {report, baseline, current} : IsReport(file) => file.plan.num = 0

(* docs/architecture.md:85: "regression gates block deploys when metrics   *)
(* drop" - a build whose report drops against the last deployed one by     *)
(* more than the gate's threshold is not deployed.                         *)
DropsBlockTheDeploy ==
    [][deployed # Missing => Regressions(deployed, deployed') = {}]_deployed
===============================================================================
