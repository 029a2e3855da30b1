--------------------------- MODULE EvaluationProofs ---------------------------
(***************************************************************************)
(* The invariants of Evaluation for every suite and every number of runs.  *)
(***************************************************************************)
EXTENDS Evaluation, FiniteSetTheorems, TLAPS

Guards(s) == s.body # "clean"
ToolFree(s) == s.body = "injection" \/ s.expected = {}

Metric == [plan : Nat, tool : Nat, done : {0, One}, efficiency : Nat, safe : {0, One}]

(* The metrics of a trajectory without calls, which is all that the        *)
(* meta-planner and the harness hand to evaluate_trajectory.               *)
LEMMA EmptyTrajectory ==
    ASSUME NEW outcome \in Outcomes, NEW expected \in SUBSET Tools,
           NEW optimal \in Nat, NEW triggered \in BOOLEAN
    PROVE  LET m == Evaluate(HandledTrajectory(outcome), expected, optimal, triggered)
           IN /\ m \in Metric
              /\ m.plan = 0
              /\ m.tool = IF expected = {} THEN One ELSE 0
              /\ m.done = IF outcome \in {"resolved", "escalated"} THEN One ELSE 0
              /\ m.safe = IF triggered THEN 0 ELSE One
<1> DEFINE tr == HandledTrajectory(outcome)
           m == Evaluate(tr, expected, optimal, triggered)
<1>1. tr.calls = <<>> /\ tr.outcome = outcome
  BY DEF HandledTrajectory
<1>2. PlanQuality(tr) = 0
  BY <1>1 DEF PlanQuality
<1>3. ToolCorrectness(tr, expected) = IF expected = {} THEN One ELSE 0
  <2> DEFINE hits == {t \in expected : \E i \in DOMAIN tr.calls : tr.calls[i].tool = t}
  <2>1. hits = {}
    BY <1>1
  <2>2. Cardinality(hits) = 0
    BY <2>1, FS_EmptySet
  <2>3. CASE expected = {}
    BY <2>3 DEF ToolCorrectness
  <2>4. CASE expected # {}
    <3>1. IsFiniteSet(Tools)
      <4>1. IsFiniteSet({}) BY FS_EmptySet
      <4>2. IsFiniteSet({} \cup {"lookup_order"}) BY <4>1, FS_AddElement
      <4>3. IsFiniteSet(({} \cup {"lookup_order"}) \cup {"process_refund"}) BY <4>2, FS_AddElement
      <4>4. IsFiniteSet((({} \cup {"lookup_order"}) \cup {"process_refund"}) \cup {"check_policy"})
        BY <4>3, FS_AddElement
      <4>5. IsFiniteSet(((({} \cup {"lookup_order"}) \cup {"process_refund"}) \cup {"check_policy"})
                          \cup {"escalate_ticket"})
        BY <4>4, FS_AddElement
      <4>6. IsFiniteSet((((({} \cup {"lookup_order"}) \cup {"process_refund"}) \cup {"check_policy"})
                          \cup {"escalate_ticket"}) \cup {"send_notification"})
        BY <4>5, FS_AddElement
      <4>7. (((({} \cup {"lookup_order"}) \cup {"process_refund"}) \cup {"check_policy"})
                          \cup {"escalate_ticket"}) \cup {"send_notification"} = Tools
        BY DEF Tools
      <4>8. QED BY <4>6, <4>7
    <3>2. IsFiniteSet(expected)
      BY <3>1, FS_Subset
    <3>3. Cardinality(expected) \in Nat \ {0}
      BY <3>2, <2>4, FS_CardinalityType, FS_EmptySet
    <3>4. (One * 0) \div Cardinality(expected) = 0
      BY <3>3 DEF One
    <3>5. ToolCorrectness(tr, expected) = (One * Cardinality(hits)) \div Cardinality(expected)
      BY <2>4 DEF ToolCorrectness
    <3>6. QED BY <3>4, <3>5, <2>2, <2>4
  <2>5. QED BY <2>3, <2>4
<1>4. StepEfficiency(tr, optimal) \in Nat
  BY <1>1 DEF StepEfficiency, One
<1>5. SafetyScore(triggered) = IF triggered THEN 0 ELSE One
  BY DEF SafetyScore
<1>6. m = [plan |-> 0, tool |-> ToolCorrectness(tr, expected),
           done |-> IF outcome \in {"resolved", "escalated"} THEN One ELSE 0,
           efficiency |-> StepEfficiency(tr, optimal),
           safe |-> IF triggered THEN 0 ELSE One]
  BY <1>1, <1>2, <1>5 DEF Evaluate, Completed
<1>7. One \in Nat
  BY DEF One
<1>8. QED
  BY <1>3, <1>4, <1>6, <1>7 DEF Metric

(* What one scenario adds to the report, for each of its endings.          *)
LEMMA ScenarioMetrics ==
    ASSUME NEW s \in ScenarioRecords
    PROVE  /\ \A m \in RunScenario(s) :
                 /\ m \in Metric
                 /\ m.safe = IF Guards(s) THEN 0 ELSE One
                 /\ m.plan = 0
                 /\ m.tool = IF ToolFree(s) THEN One ELSE 0
           /\ Fallback(s) \in Metric
           /\ Fallback(s).plan = 0
<1>0. /\ s.expected \in SUBSET Tools /\ s.optimal \in Nat
      /\ s.body \in {"clean", "pii", "injection"}
  BY DEF ScenarioRecords
<1>1. Fallback(s) \in Metric /\ Fallback(s).plan = 0
  <2> DEFINE b == Evaluate(HandledTrajectory("failed"), s.expected, s.optimal, FALSE)
  <2>1. "failed" \in Outcomes
    BY DEF Outcomes
  <2>2. b \in Metric
    BY <1>0, <2>1, EmptyTrajectory
  <2>3. Fallback(s) = [b EXCEPT !.plan = 0]
    BY DEF Fallback
  <2> HIDE DEF b
  <2>4. QED
    BY <2>2, <2>3 DEF Metric
<1>2. CASE s.body = "injection"
  <2>1. "blocked" \in Outcomes /\ {} \in SUBSET Tools /\ 0 \in Nat /\ TRUE \in BOOLEAN
    BY DEF Outcomes
  <2> DEFINE b == Evaluate(HandledTrajectory("blocked"), {}, 0, TRUE)
  <2>2. b \in Metric /\ b.plan = 0 /\ b.tool = One /\ b.safe = 0
    BY <2>1, EmptyTrajectory
  <2>3. RunScenario(s) = {b}
    BY <1>2 DEF RunScenario
  <2> HIDE DEF b
  <2>4. QED
    BY <1>2, <2>2, <2>3, <1>1 DEF Guards, ToolFree
<1>3. CASE s.body # "injection"
  <2> SUFFICES ASSUME NEW o \in Answers(s),
                      NEW m,
                      m = Evaluate(HandledTrajectory(o), s.expected, s.optimal, s.body = "pii")
               PROVE  /\ m \in Metric
                      /\ m.safe = IF Guards(s) THEN 0 ELSE One
                      /\ m.plan = 0
                      /\ m.tool = IF ToolFree(s) THEN One ELSE 0
    BY <1>1, <1>3 DEF RunScenario
  <2>1. o \in Outcomes /\ (s.body = "pii") \in BOOLEAN
    BY DEF Answers, OutcomesOf, Outcomes
  <2>2. /\ m \in Metric
        /\ m.plan = 0 /\ m.tool = IF s.expected = {} THEN One ELSE 0
        /\ m.safe = IF s.body = "pii" THEN 0 ELSE One
    <3>0. PICK triggered \in BOOLEAN : triggered = (s.body = "pii")
      BY <2>1
    <3> DEFINE b == Evaluate(HandledTrajectory(o), s.expected, s.optimal, triggered)
    <3>1. /\ b \in Metric
          /\ b.plan = 0
          /\ b.tool = IF s.expected = {} THEN One ELSE 0
          /\ b.safe = IF triggered THEN 0 ELSE One
      BY <1>0, <2>1, EmptyTrajectory
    <3>2. m = b
      BY <3>0
    <3> HIDE DEF b
    <3>3. QED
      BY <3>0, <3>1, <3>2
  <2>3. QED
    BY <1>0, <1>3, <2>2 DEF Guards, ToolFree
<1>4. QED
  BY <1>2, <1>3

-------------------------------------------------------------------------------
(* The strengthening: a baseline is the first one; the counts, and what    *)
(* they come to in the files.                                              *)
BaselineIsFirst == IsReport(baseline) => baseline = first
RoundingIsTheDemo == (runner = "demo" => rounding) /\ (runner = "page" => ~rounding)

WritesResults == runner = "writing" => tally.n > 0
StepsCountNothing ==
    /\ tally.plan = 0
    /\ raised = 0 => tally.tool = One * Cardinality(ToolFreeSoFar)
PlanFree(file) == IsReport(file) => file.plan.num = 0
FilesArePlanFree == PlanFree(report) /\ PlanFree(baseline) /\ PlanFree(current)

IInv ==
    /\ TypeOK
    /\ WritesResults
    /\ BaselineIsFirst
    /\ RoundingIsTheDemo
    /\ DropsDoNotAddUp
    /\ EveryScenarioIsAccountedFor
    /\ SafetyIsTheGuardrail
    /\ StepsCountNothing
    /\ FilesArePlanFree

(* A set of positions that may gain the next one: how its size changes.    *)
LEMMA OneMore ==
    ASSUME NEW p \in Nat, NEW B \in SUBSET (1..p), NEW A
    PROVE  /\ Cardinality(B) \in 0..p
           /\ A = B \cup {p + 1} => Cardinality(A) = Cardinality(B) + 1
<1>1. IsFiniteSet(1..p) /\ Cardinality(1..p) = p
  BY FS_Interval
<1>2. IsFiniteSet(B) /\ Cardinality(B) \in Nat /\ Cardinality(B) <= p
  BY <1>1, FS_Subset, FS_CardinalityType
<1>3. p + 1 \notin B
  OBVIOUS
<1>4. QED
  BY <1>2, <1>3, FS_AddElement

(* A regression against itself is none.                                    *)
LEMMA NoRegressionAgainstItself ==
    ASSUME NEW r \in Reports
    PROVE  Regressions(r, r) = {}
<1> SUFFICES ASSUME NEW x \in Metrics
             PROVE  ~Regresses(r[x], r[x])
  BY DEF Regressions
<1>1. r[x] \in Fractions
  BY DEF Reports
<1>2. PICK n \in Nat, d \in Nat \ {0} : r[x] = [num |-> n, den |-> d]
  BY <1>1 DEF Fractions
<1>3. n * d \in Nat
  BY <1>2
<1>4. r[x].num = n /\ r[x].den = d
  BY <1>2
<1>5. 20 * (n * d - n * d) = 0
  BY <1>3
<1>6. QED
  BY <1>3, <1>4, <1>5 DEF Regresses

(* What the writer of a report computes is a report.                       *)
LEMMA SummaryIsAReport ==
    ASSUME TypeOK, tally.n > 0
    PROVE  Summary(tally) \in Reports
<1> SUFFICES ASSUME NEW x \in Metrics
             PROVE  /\ Average(tally[x], tally.n) \in Fractions
                    /\ Rounded(Average(tally[x], tally.n)) \in Fractions
  BY DEF Summary, Reports
<1>1. tally[x] \in Nat /\ tally.n \in Nat \ {0}
  BY DEF TypeOK, Tallies, Metrics
<1>2. PICK a \in Nat, d \in Nat \ {0} : Average(tally[x], tally.n) = [num |-> a, den |-> d]
  BY <1>1 DEF Average, One
<1>3. (2000 * a + d) \div (2 * d) \in Nat
  BY <1>2
<1>4. QED
  BY <1>2, <1>3 DEF Rounded, Fractions

(* A plan quality of 0 is 0 on average, rounded or not.                    *)
LEMMA SummaryIsPlanFree ==
    ASSUME TypeOK, tally.n > 0, tally.plan = 0
    PROVE  PlanFree(Summary(tally))
<1>1. tally.n \in Nat \ {0}
  BY DEF TypeOK, Tallies
<1>2. PICK d \in Nat \ {0} : Average(tally.plan, tally.n) = [num |-> 0, den |-> d]
  BY <1>1 DEF Average, One
<1>3. Rounded([num |-> 0, den |-> d]).num = (2000 * 0 + d) \div (2 * d)
  BY DEF Rounded
<1>4. (2000 * 0 + d) \div (2 * d) = 0
  <2>1. PICK q \in Int : q = (2000 * 0 + d) \div (2 * d)
    OBVIOUS
  <2>2. 2 * d \in Nat /\ 2 * d > 0 /\ 2000 * 0 + d = d
    OBVIOUS
  <2>3. (2 * d) * q <= d /\ d < (2 * d) * (q + 1)
    BY <2>1, <2>2
  <2>4. q = 0
    BY <2>3
  <2>5. QED
    BY <2>1, <2>4
<1>5. Summary(tally).plan.num = 0
  BY <1>2, <1>3, <1>4 DEF Summary, Metrics
<1>6. QED
  BY <1>5 DEF PlanFree

LEMMA InitInv == Init => IInv
<1> SUFFICES ASSUME Init PROVE IInv
  OBVIOUS
<1>1. TypeOK
  <2>1. Len(SuiteOfDemo) \in Nat /\ SuiteOfDemo \in Suites \cup {SuiteOfDemo}
    BY SuitesAssumption
  <2>2. NoResults \in Tallies
    BY DEF NoResults, Tallies
  <2>3. 0 \in 0..Len(SuiteOfDemo) /\ 0 \in 0..0 /\ 0 \in 0..MaxRuns
    BY <2>1, SuitesAssumption
  <2>4. suite \in Suites \cup {SuiteOfDemo} /\ pos \in 0..Len(suite) /\ tally \in Tallies
    BY <2>1, <2>2, <2>3 DEF Init
  <2>5. raised \in 0..pos /\ runs \in 0..MaxRuns
    BY <2>3 DEF Init
  <2>6. QED
    BY <2>4, <2>5 DEF Init, TypeOK
<1>2. GuardedSoFar = {} /\ ToolFreeSoFar = {}
  BY DEF Init, GuardedSoFar, ToolFreeSoFar
<1>3. QED
  BY <1>1, <1>2, FS_EmptySet
     DEF Init, IInv, WritesResults, BaselineIsFirst, RoundingIsTheDemo, IsReport, DropsDoNotAddUp, EveryScenarioIsAccountedFor,
         SafetyIsTheGuardrail, StepsCountNothing, FilesArePlanFree, PlanFree, NoResults, One

(* The invariants of the run, when nothing has been run yet.               *)
LEMMA FreshRun ==
    ASSUME pos' = 0, raised' = 0, tally' = NoResults
    PROVE  (EveryScenarioIsAccountedFor /\ SafetyIsTheGuardrail /\ StepsCountNothing)'
<1>1. (GuardedSoFar = {} /\ ToolFreeSoFar = {})'
  BY DEF GuardedSoFar, ToolFreeSoFar
<1>2. Cardinality(GuardedSoFar') = 0 /\ Cardinality(ToolFreeSoFar') = 0
  BY <1>1, FS_EmptySet
<1>3. QED
  BY <1>2 DEF EveryScenarioIsAccountedFor, SafetyIsTheGuardrail, StepsCountNothing,
              NoResults, One

(* One more scenario: the sets of positions and the tally.                 *)
LEMMA NextScenario ==
    ASSUME TypeOK, Running, suite' = suite, pos' = pos + 1
    PROVE  /\ suite[pos + 1] \in ScenarioRecords
           /\ pos + 1 \in 0..Len(suite)
           /\ Cardinality(GuardedSoFar) \in 0..pos
           /\ Cardinality(ToolFreeSoFar) \in 0..pos
           /\ Cardinality(GuardedSoFar') =
                 Cardinality(GuardedSoFar) + IF Guards(suite[pos + 1]) THEN 1 ELSE 0
           /\ Cardinality(ToolFreeSoFar') =
                 Cardinality(ToolFreeSoFar) + IF ToolFree(suite[pos + 1]) THEN 1 ELSE 0
<1>1. suite \in Seq(ScenarioRecords) /\ pos \in Nat /\ pos < Len(suite) /\ Len(suite) \in Nat
  BY SuitesAssumption DEF TypeOK, Running
<1>2. suite[pos + 1] \in ScenarioRecords /\ pos + 1 \in 0..Len(suite)
  BY <1>1
<1>3. /\ GuardedSoFar \in SUBSET (1..pos)
      /\ GuardedSoFar' = IF Guards(suite[pos + 1]) THEN GuardedSoFar \cup {pos + 1}
                                                   ELSE GuardedSoFar
  BY <1>1 DEF GuardedSoFar, Guards
<1>4. /\ ToolFreeSoFar \in SUBSET (1..pos)
      /\ ToolFreeSoFar' = IF ToolFree(suite[pos + 1]) THEN ToolFreeSoFar \cup {pos + 1}
                                                    ELSE ToolFreeSoFar
  BY <1>1 DEF ToolFreeSoFar, ToolFree
<1>5. Cardinality(GuardedSoFar) \in 0..pos /\ Cardinality(ToolFreeSoFar) \in 0..pos
  BY <1>1, <1>3, <1>4, OneMore
<1>6. Guards(suite[pos + 1]) => Cardinality(GuardedSoFar') = Cardinality(GuardedSoFar) + 1
  BY <1>1, <1>3, OneMore
<1>7. ToolFree(suite[pos + 1]) => Cardinality(ToolFreeSoFar') = Cardinality(ToolFreeSoFar) + 1
  BY <1>1, <1>4, OneMore
<1>8. ~Guards(suite[pos + 1]) => Cardinality(GuardedSoFar') = Cardinality(GuardedSoFar)
  BY <1>3
<1>9. ~ToolFree(suite[pos + 1]) => Cardinality(ToolFreeSoFar') = Cardinality(ToolFreeSoFar)
  BY <1>4
<1>10. QED
  <2>1. Cardinality(GuardedSoFar) \in Nat /\ Cardinality(ToolFreeSoFar) \in Nat
    BY <1>1, <1>5
  <2>2. QED
    BY <2>1, <1>2, <1>5, <1>6, <1>7, <1>8, <1>9


(* Ending a scenario: the metrics of what the agent answered are added.    *)
LEMMA ScenarioEndsInv == IInv /\ ScenarioEnds => IInv'
<1> SUFFICES ASSUME IInv, ScenarioEnds PROVE IInv'
  OBVIOUS
<1> DEFINE s == suite[pos + 1]
<1>1. TypeOK /\ Running /\ suite' = suite /\ pos' = pos + 1
  BY DEF IInv, ScenarioEnds
<1>2. PICK m \in RunScenario(s) : tally' = Counted(tally, m)
  BY DEF ScenarioEnds
<1>3. /\ m \in Metric
      /\ m.safe = IF Guards(s) THEN 0 ELSE One
      /\ m.plan = 0
      /\ m.tool = IF ToolFree(s) THEN One ELSE 0
  BY <1>1, NextScenario, ScenarioMetrics
<1>4. /\ m.plan \in Nat /\ m.tool \in Nat /\ m.done \in {0, One} /\ m.safe \in {0, One}
      /\ One = 60
  BY <1>3 DEF Metric, One
<1>5. /\ tally.n \in Nat /\ tally.plan \in Nat /\ tally.tool \in Nat
      /\ tally.done \in Nat /\ tally.safe \in Nat
      /\ pos \in Nat /\ raised \in 0..pos
  BY <1>1, SuitesAssumption DEF TypeOK, Tallies
<1>6. tally' = [n |-> tally.n + 1, plan |-> tally.plan + m.plan, tool |-> tally.tool + m.tool,
                done |-> tally.done + m.done, safe |-> tally.safe + m.safe]
  BY <1>2 DEF Counted
<1>7. TypeOK'
  <2>1. tally' \in Tallies
    BY <1>4, <1>5, <1>6 DEF Tallies
  <2>2. pos' \in 0..Len(suite)' /\ raised' \in 0..pos'
    BY <1>1, <1>5, NextScenario DEF ScenarioEnds
  <2>3. QED
    BY <1>1, <2>1, <2>2 DEF TypeOK, ScenarioEnds, gateVars
<1>8. EveryScenarioIsAccountedFor'
  BY <1>1, <1>5, <1>6 DEF IInv, EveryScenarioIsAccountedFor, ScenarioEnds
<1>9. SafetyIsTheGuardrail'
  <2> SUFFICES ASSUME raised = 0
               PROVE  tally'.safe = One * (pos' - Cardinality(GuardedSoFar'))
    BY DEF SafetyIsTheGuardrail, ScenarioEnds
  <2>1. tally.safe = One * (pos - Cardinality(GuardedSoFar))
    BY DEF IInv, SafetyIsTheGuardrail
  <2>2. /\ Cardinality(GuardedSoFar) \in Nat
        /\ Cardinality(GuardedSoFar') =
              Cardinality(GuardedSoFar) + IF Guards(s) THEN 1 ELSE 0
    BY <1>1, NextScenario
  <2>3. tally'.safe = tally.safe + IF Guards(s) THEN 0 ELSE 60
    BY <1>3, <1>4, <1>6
  <2>4. QED
    BY <1>1, <1>4, <1>5, <2>1, <2>2, <2>3
<1>10. StepsCountNothing'
  <2>1. tally'.plan = 0
    BY <1>3, <1>5, <1>6 DEF IInv, StepsCountNothing
  <2> SUFFICES ASSUME raised = 0
               PROVE  tally'.tool = One * Cardinality(ToolFreeSoFar')
    BY <2>1 DEF StepsCountNothing, ScenarioEnds
  <2>2. tally.tool = One * Cardinality(ToolFreeSoFar)
    BY DEF IInv, StepsCountNothing
  <2>3. /\ Cardinality(ToolFreeSoFar) \in Nat
        /\ Cardinality(ToolFreeSoFar') =
              Cardinality(ToolFreeSoFar) + IF ToolFree(s) THEN 1 ELSE 0
    BY <1>1, NextScenario
  <2>4. tally'.tool = tally.tool + IF ToolFree(s) THEN 60 ELSE 0
    BY <1>3, <1>4, <1>6
  <2>5. QED
    BY <1>4, <1>5, <2>2, <2>3, <2>4
<1>11. BaselineIsFirst' /\ DropsDoNotAddUp' /\ RoundingIsTheDemo' /\ FilesArePlanFree'
  BY DEF IInv, ScenarioEnds, gateVars, BaselineIsFirst, DropsDoNotAddUp, RoundingIsTheDemo,
         FilesArePlanFree
<1>12. WritesResults'
  BY DEF ScenarioEnds, Running, WritesResults
<1>13. QED
  BY <1>7, <1>8, <1>9, <1>10, <1>11, <1>12 DEF IInv

(* A scenario that raises: a failed result in the demo, none on the page.  *)
LEMMA ScenarioRaisesInv == IInv /\ ScenarioRaises => IInv'
<1> SUFFICES ASSUME IInv, ScenarioRaises PROVE IInv'
  OBVIOUS
<1> DEFINE s == suite[pos + 1]
           f == Fallback(s)
<1>1. TypeOK /\ Running /\ suite' = suite /\ pos' = pos + 1
  BY DEF IInv, ScenarioRaises
<1>2. f \in Metric /\ f.plan = 0
  BY <1>1, NextScenario, ScenarioMetrics
<1>3. /\ f.plan \in Nat /\ f.tool \in Nat /\ f.done \in {0, One} /\ f.safe \in {0, One}
      /\ One = 60
  BY <1>2 DEF Metric, One
<1>4. /\ tally.n \in Nat /\ tally.plan \in Nat /\ tally.tool \in Nat
      /\ tally.done \in Nat /\ tally.safe \in Nat
      /\ pos \in Nat /\ raised \in 0..pos /\ raised' = raised + 1
  BY <1>1, SuitesAssumption DEF TypeOK, Tallies, ScenarioRaises
<1> HIDE DEF f
<1>5. tally' = IF runner = "demo" THEN Counted(tally, f) ELSE tally
  BY DEF ScenarioRaises, f
<1>6. TypeOK'
  <2>1. tally' \in Tallies
    <3>1. CASE runner = "demo"
      <4>1. tally' = [n |-> tally.n + 1, plan |-> tally.plan + f.plan,
                      tool |-> tally.tool + f.tool, done |-> tally.done + f.done,
                      safe |-> tally.safe + f.safe]
        BY <1>5, <3>1 DEF Counted
      <4>2. f.done \in Nat /\ f.safe \in Nat
        BY <1>2, <1>3
      <4>3. QED
        BY <1>3, <1>4, <4>1, <4>2 DEF Tallies
    <3>2. CASE runner # "demo"
      BY <1>1, <1>5, <3>2 DEF TypeOK
    <3>3. QED
      BY <3>1, <3>2
  <2>2. pos' \in 0..Len(suite)' /\ raised' \in 0..pos'
    BY <1>1, <1>4, NextScenario
  <2>3. QED
    BY <1>1, <2>1, <2>2 DEF TypeOK, ScenarioRaises, gateVars
<1>7. EveryScenarioIsAccountedFor'
  BY <1>1, <1>4, <1>5
     DEF IInv, EveryScenarioIsAccountedFor, ScenarioRaises, Counted, RoundingIsTheDemo, Running
<1>8. SafetyIsTheGuardrail'
  BY <1>4 DEF SafetyIsTheGuardrail
<1>9. StepsCountNothing'
  BY <1>2, <1>4, <1>5 DEF IInv, StepsCountNothing, Counted
<1>10. BaselineIsFirst' /\ DropsDoNotAddUp' /\ RoundingIsTheDemo' /\ FilesArePlanFree'
  BY DEF IInv, ScenarioRaises, gateVars, BaselineIsFirst, DropsDoNotAddUp, RoundingIsTheDemo,
         FilesArePlanFree
<1>11. WritesResults'
  BY DEF ScenarioRaises, Running, WritesResults
<1>12. QED
  BY <1>6, <1>7, <1>8, <1>9, <1>10, <1>11 DEF IInv

-------------------------------------------------------------------------------
(* The steps that touch the gate's files only, or the run only.            *)

RunInv == RoundingIsTheDemo /\ EveryScenarioIsAccountedFor /\ SafetyIsTheGuardrail
             /\ StepsCountNothing
GateInv == BaselineIsFirst /\ DropsDoNotAddUp

LEMMA RunUnchanged ==
    ASSUME RunInv, UNCHANGED runVars
    PROVE  RunInv'
<1>1. (GuardedSoFar' = GuardedSoFar) /\ (ToolFreeSoFar' = ToolFreeSoFar)
  BY DEF runVars, GuardedSoFar, ToolFreeSoFar
<1>2. QED
  BY <1>1 DEF RunInv, runVars, RoundingIsTheDemo, EveryScenarioIsAccountedFor,
              SafetyIsTheGuardrail, StepsCountNothing

LEMMA GateUnchanged ==
    ASSUME GateInv, UNCHANGED gateVars
    PROVE  GateInv'
  BY DEF GateInv, gateVars, BaselineIsFirst, DropsDoNotAddUp, IsReport

LEMMA Whole == IInv <=> TypeOK /\ WritesResults /\ RunInv /\ GateInv /\ FilesArePlanFree
  BY DEF IInv, RunInv, GateInv

(* A run starts.                                                           *)
LEMMA StartInv == IInv /\ (StartDemo \/ StartPage) => IInv'
<1> SUFFICES ASSUME IInv, NEW who \in {"demo", "page"}, NEW s \in Suites \cup {SuiteOfDemo},
                    Start(who, s)
             PROVE  IInv'
  BY DEF StartDemo, StartPage
<1>1. TypeOK'
  <2>1. Len(s) \in Nat
    BY SuitesAssumption
  <2>2. NoResults \in Tallies
    BY DEF NoResults, Tallies
  <2>3. (pos \in 0..Len(suite) /\ raised \in 0..pos)'
    BY <2>1 DEF Start
  <2>4. runs' \in 0..MaxRuns
    BY SuitesAssumption DEF Start, IInv, TypeOK
  <2>5. QED
    BY <2>2, <2>3, <2>4 DEF Start, IInv, TypeOK, gateVars
<1>2. RunInv'
  BY FreshRun DEF Start, RunInv, RoundingIsTheDemo
<1>3. GateInv'
  BY Whole, GateUnchanged DEF Start
<1>4. WritesResults'
  BY DEF Start, WritesResults
<1>5. FilesArePlanFree'
  BY DEF Start, gateVars, IInv, FilesArePlanFree
<1>6. QED
  BY <1>1, <1>2, <1>3, <1>4, <1>5 DEF IInv, RunInv, GateInv

(* A run ends, with or without a report.                                   *)
LEMMA EndingInv == IInv /\ (EndWithoutResults \/ DumpReport \/ RunStops) => IInv'
<1> SUFFICES ASSUME IInv, EndWithoutResults \/ DumpReport \/ RunStops
             PROVE  IInv'
  OBVIOUS
<1>1. RunEnds /\ UNCHANGED <<gateVars, deployed>>
  BY DEF EndWithoutResults, DumpReport, RunStops
<1>2. report' \in Reports \cup {Missing, Torn}
  <2>1. CASE DumpReport
    <3>1. tally.n > 0
      BY <2>1 DEF DumpReport, IInv, WritesResults
    <3>2. QED
      BY <2>1, <3>1, SummaryIsAReport DEF DumpReport, IInv
  <2>2. CASE EndWithoutResults \/ RunStops
    BY <2>2 DEF EndWithoutResults, RunStops, IInv, TypeOK
  <2>3. QED
    BY <2>1, <2>2
<1>3. TypeOK'
  <2>1. Len(SuiteOfDemo) \in Nat
    BY SuitesAssumption
  <2>2. NoResults \in Tallies
    BY DEF NoResults, Tallies
  <2>3. (pos \in 0..Len(suite) /\ raised \in 0..pos)'
    BY <1>1, <2>1 DEF RunEnds
  <2>4. QED
    BY <1>1, <1>2, <2>2, <2>3 DEF RunEnds, IInv, TypeOK, gateVars
<1>4. RunInv'
  BY <1>1, FreshRun DEF RunEnds, RunInv, RoundingIsTheDemo
<1>5. GateInv'
  BY <1>1, Whole, GateUnchanged
<1>6. WritesResults'
  BY <1>1 DEF RunEnds, WritesResults
<1>7. FilesArePlanFree'
  <2>1. PlanFree(report')
    <3>1. CASE DumpReport
      BY <3>1, SummaryIsPlanFree DEF DumpReport, IInv, WritesResults, StepsCountNothing
    <3>2. CASE EndWithoutResults \/ RunStops
      BY <3>2 DEF EndWithoutResults, RunStops, IInv, FilesArePlanFree
    <3>3. QED
      BY <3>1, <3>2
  <2>2. UNCHANGED <<baseline, current>>
    BY <1>1 DEF gateVars
  <2>3. QED
    BY <2>1, <2>2 DEF IInv, FilesArePlanFree, PlanFree
<1>8. QED
  BY <1>3, <1>4, <1>5, <1>6, <1>7 DEF IInv, RunInv, GateInv

(* The report file is opened.                                              *)
LEMMA OpenReportInv == IInv /\ OpenReport => IInv'
<1> SUFFICES ASSUME IInv, OpenReport PROVE IInv'
  OBVIOUS
<1>1. TypeOK'
  BY DEF IInv, TypeOK, OpenReport, gateVars
<1>2. (GuardedSoFar' = GuardedSoFar) /\ (ToolFreeSoFar' = ToolFreeSoFar)
  BY DEF OpenReport, GuardedSoFar, ToolFreeSoFar
<1>3. /\ EveryScenarioIsAccountedFor' /\ SafetyIsTheGuardrail'
      /\ StepsCountNothing' /\ RoundingIsTheDemo'
  BY <1>2 DEF IInv, OpenReport, EveryScenarioIsAccountedFor, SafetyIsTheGuardrail,
              StepsCountNothing, RoundingIsTheDemo
<1>4. GateInv'
  BY Whole, GateUnchanged DEF OpenReport
<1>5. WritesResults'
  BY DEF OpenReport, WritesResults
<1>6. FilesArePlanFree'
  BY DEF OpenReport, gateVars, IInv, FilesArePlanFree, PlanFree, IsReport
<1>7. QED
  BY <1>1, <1>3, <1>4, <1>5, <1>6 DEF IInv, GateInv

(* The gate: only DumpBaseline and Compares accept a report.               *)
LEMMA GateStepInv ==
    IInv /\ (GateLoads \/ OpenBaseline \/ DumpBaseline \/ Compares \/ GateStops) => IInv'
<1> SUFFICES ASSUME IInv, GateLoads \/ OpenBaseline \/ DumpBaseline \/ Compares \/ GateStops
             PROVE  IInv'
  OBVIOUS
<1>0. UNCHANGED runVars
  BY DEF GateLoads, OpenBaseline, DumpBaseline, Compares, GateStops
<1>1. RunInv' /\ WritesResults'
  BY <1>0, Whole, RunUnchanged DEF runVars, WritesResults
<1>2. gate # "idle" => current \in Reports
  BY DEF IInv, TypeOK
<1>3. TypeOK'
  <2>1. CASE GateLoads
    BY <2>1, FilesAssumption DEF IInv, TypeOK, GateLoads, IsReport, runVars
  <2>2. CASE OpenBaseline
    BY <2>2 DEF IInv, TypeOK, OpenBaseline, runVars
  <2>3. CASE DumpBaseline
    BY <2>3, <1>2 DEF IInv, TypeOK, DumpBaseline, runVars
  <2>4. CASE Compares
    BY <2>4, <1>2 DEF IInv, TypeOK, Compares, runVars
  <2>5. CASE GateStops
    BY <2>5 DEF IInv, TypeOK, GateStops, runVars
  <2>6. QED
    BY <2>1, <2>2, <2>3, <2>4, <2>5
<1>4. GateInv'
  <2>1. CASE GateLoads
    BY <2>1 DEF IInv, GateLoads, GateInv, BaselineIsFirst, DropsDoNotAddUp, IsReport
  <2>2. CASE OpenBaseline
    BY <2>2 DEF IInv, OpenBaseline, GateInv, BaselineIsFirst, DropsDoNotAddUp, IsReport
  <2>3. CASE DumpBaseline
    <3>1. current \in Reports /\ current # Missing
      BY <2>3, <1>2, FilesAssumption DEF DumpBaseline
    <3>2. Regressions(current, current) = {}
      BY <3>1, NoRegressionAgainstItself
    <3>3. QED
      BY <2>3, <3>1, <3>2 DEF DumpBaseline, GateInv, BaselineIsFirst, DropsDoNotAddUp
  <2>4. CASE Compares
    <3>1. baseline = first /\ first # Missing
      BY <2>4 DEF IInv, Compares, BaselineIsFirst, IsReport
    <3>2. QED
      BY <2>4, <3>1 DEF IInv, Compares, GateInv, BaselineIsFirst, DropsDoNotAddUp, IsReport
  <2>5. CASE GateStops
    BY <2>5 DEF IInv, GateStops, GateInv, BaselineIsFirst, DropsDoNotAddUp, IsReport
  <2>6. QED
    BY <2>1, <2>2, <2>3, <2>4, <2>5
<1>5. FilesArePlanFree'
  BY DEF GateLoads, OpenBaseline, DumpBaseline, Compares, GateStops, IInv,
         FilesArePlanFree, PlanFree, IsReport
<1>6. QED
  BY <1>1, <1>3, <1>4, <1>5 DEF IInv, RunInv, GateInv

LEMMA CIBuildInv == IInv /\ CIBuild => IInv'
<1> SUFFICES ASSUME IInv, CIBuild PROVE IInv'
  OBVIOUS
<1>1. TypeOK'
  BY FilesAssumption DEF IInv, TypeOK, CIBuild, IsReport, runVars, gateVars
<1>2. RunInv' /\ GateInv' /\ WritesResults'
  BY Whole, RunUnchanged, GateUnchanged DEF CIBuild, runVars, WritesResults
<1>3. FilesArePlanFree'
  BY DEF CIBuild, gateVars, IInv, FilesArePlanFree
<1>4. QED
  BY <1>1, <1>2, <1>3 DEF IInv, RunInv, GateInv

LEMMA StepInv == IInv /\ [Next]_vars => IInv'
<1> SUFFICES ASSUME IInv, [Next]_vars PROVE IInv'
  OBVIOUS
<1>1. CASE Next
  BY <1>1, StartInv, ScenarioEndsInv, ScenarioRaisesInv, EndingInv, OpenReportInv,
     GateStepInv, CIBuildInv DEF Next
<1>2. CASE UNCHANGED vars
  <2>1. TypeOK' /\ WritesResults'
    BY <1>2 DEF IInv, TypeOK, WritesResults, vars, runVars, gateVars
  <2>2. RunInv' /\ GateInv'
    BY <1>2, Whole, RunUnchanged, GateUnchanged DEF vars
  <2>3. FilesArePlanFree'
    BY <1>2 DEF vars, gateVars, IInv, FilesArePlanFree
  <2>4. QED
    BY <2>1, <2>2, <2>3 DEF IInv, RunInv, GateInv
<1>3. QED
  BY <1>1, <1>2

LEMMA Inductive == Spec => []IInv
  BY InitInv, StepInv, PTL DEF Spec

(* Every file is missing, torn or a report; a gate that has loaded a       *)
(* report has one (harness.py:87-108, regression_gate.py:23-67).           *)
THEOREM TypeCorrect == Spec => []TypeOK
<1>1. IInv => TypeOK
  BY DEF IInv
<1>2. QED
  BY <1>1, Inductive, PTL

(* Whatever the gate passes is within the threshold of the first baseline, *)
(* for every suite and however often runs and the gate are repeated or     *)
(* stopped (regression_gate.py:30-67).                                     *)
THEOREM DropsNeverAddUp == Spec => []DropsDoNotAddUp
<1>1. IInv => DropsDoNotAddUp
  BY DEF IInv
<1>2. QED
  BY <1>1, Inductive, PTL

(* run_suite has a result for every scenario, the page one for every       *)
(* scenario that did not raise (harness.py:87-108, ui/app.py:400-413).     *)
THEOREM AllScenariosAccountedFor == Spec => []EveryScenarioIsAccountedFor
<1>1. IInv => EveryScenarioIsAccountedFor
  BY DEF IInv
<1>2. QED
  BY <1>1, Inductive, PTL

(* The safety score counts the guardrail's reactions to the suite, not     *)
(* what the agent does (harness.py:33-85).                                 *)
THEOREM SafetyCountsGuardrails == Spec => []SafetyIsTheGuardrail
<1>1. IInv => SafetyIsTheGuardrail
  BY DEF IInv
<1>2. QED
  BY <1>1, Inductive, PTL

(* A run without an exception has the tool correctness of its suite, and   *)
(* no file has a plan quality above 0, whatever the agent does: a baseline *)
(* of 0 never fails the gate (metrics.py:23-29, 40-55,                     *)
(* regression_gate.py:43).                                                 *)
THEOREM OnlyCompletionCounts == Spec => []OnlyCompletionMeasuresTheAgent
<1>1. IInv => OnlyCompletionMeasuresTheAgent
  BY DEF IInv, OnlyCompletionMeasuresTheAgent, StepsCountNothing, FilesArePlanFree, PlanFree
<1>2. QED
  BY <1>1, Inductive, PTL

(* No report fails the gate for its plan, whatever the baseline.           *)
THEOREM PlansNeverRegress ==
    Spec => [](IsReport(baseline) /\ IsReport(current) =>
                  "plan" \notin Regressions(baseline, current))
<1>1. IInv => (IsReport(baseline) /\ IsReport(current) =>
                  "plan" \notin Regressions(baseline, current))
  BY DEF IInv, FilesArePlanFree, PlanFree, Regressions, Regresses
<1>2. QED
  BY <1>1, Inductive, PTL
===============================================================================
