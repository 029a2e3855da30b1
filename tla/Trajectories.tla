----------------------------- MODULE Trajectories -----------------------------
(***************************************************************************)
(* What the program measures of a trajectory: the layered metrics of       *)
(* evaluation/metrics.py and the training reward of                        *)
(* rl_pipeline/reward_functions.py.                                        *)
(*                                                                         *)
(* ExecutionEngine gives every AgentStep exactly one ToolCall, so that the *)
(* steps of a trajectory are its calls: the tool's name and whether its    *)
(* error is set.  Fractions stay exact: a metric counts 60ths (One stands  *)
(* for 1.0), a reward is a number of thousandths over a denominator.       *)
(***************************************************************************)
EXTENDS Integers, Sequences, FiniteSets

One == 60

Outcomes == {"resolved", "escalated", "failed", "clarification_needed", "blocked"}
Latencies == {"fast", "fair", "slow"}   \* <= 2 s, <= 10 s, longer

(* The planner's trajectory holds no steps: those of a specialist stay in  *)
(* the specialist's, and _self_handle_node plans none for what reaches it. *)
HandledTrajectory(outcome) == [calls |-> <<>>, outcome |-> outcome, latency |-> "fast"]

(* What handle may answer: an off-topic ticket is always asked for         *)
(* clarification, any other one if the LLM says so; a delegated one is     *)
(* resolved or failed.  TicketPipelineProofs derives it from the graph.    *)
OutcomesOf(category, urgent) ==
    IF category = "off_topic" /\ ~urgent THEN {"clarification_needed"}
    ELSE {"resolved", "failed", "clarification_needed"}

Failures(tr) == {i \in DOMAIN tr.calls : tr.calls[i].failed}
Lesser(a, b) == IF a <= b THEN a ELSE b

-------------------------------------------------------------------------------
(* evaluation/metrics.py                                                   *)

Completed(tr) == tr.outcome \in {"resolved", "escalated"}

(* Mutant: a plan without steps is a plan without errors.                  *)
PlanQualityOfNone(tr) ==
    30 + (IF Failures(tr) = {} THEN 18 ELSE 0) + (IF Completed(tr) THEN 12 ELSE 0)

(* In 60ths: 0.5 for having steps, 0.3 without errors, 0.2 if completed.   *)
PlanQuality(tr) ==
    IF tr.calls = <<>> THEN 0
    ELSE 30 + (IF Failures(tr) = {} THEN 18 ELSE 0) + (IF Completed(tr) THEN 12 ELSE 0)

(* The share of the expected tools that were called, failed or not.        *)
ToolCorrectness(tr, expected) ==
    LET hits == {t \in expected : \E i \in DOMAIN tr.calls : tr.calls[i].tool = t}
    IN IF expected = {} THEN One
       ELSE (One * Cardinality(hits)) \div Cardinality(expected)

StepEfficiency(tr, optimal) ==
    IF tr.calls = <<>> THEN (IF optimal = 0 THEN One ELSE 0)
    ELSE Lesser(One, (One * optimal) \div Len(tr.calls))

SafetyScore(triggered) == IF triggered THEN 0 ELSE One

Evaluate(tr, expected, optimal, triggered) ==
    [plan |-> PlanQuality(tr),
     tool |-> ToolCorrectness(tr, expected),
     done |-> IF Completed(tr) THEN One ELSE 0,
     efficiency |-> StepEfficiency(tr, optimal),
     safe |-> SafetyScore(triggered)]

-------------------------------------------------------------------------------
(* rl_pipeline/reward_functions.py, in thousandths, weights applied        *)

ResolutionSuccess(tr) ==
    CASE tr.outcome = "resolved" -> 500
      [] tr.outcome = "escalated" -> 250
      [] OTHER -> 0

ErrorPenalty(tr) == -40 * Cardinality(Failures(tr))

LatencyReward(tr) ==
    CASE tr.latency = "fast" -> 10
      [] tr.latency = "slow" -> -10
      [] OTHER -> 0

(* Mutant: efficiency_reward divides by the calls, none or not.            *)
RewardBaseUnguarded(tr) == Len(tr.calls)

(* efficiency_reward divides by the calls, at least 1: the common          *)
(* denominator of the reward.                                              *)
RewardBase(tr) == IF tr.calls = <<>> THEN 1 ELSE Len(tr.calls)

Clamped(x, limit) == IF x > limit THEN limit ELSE IF x < -limit THEN -limit ELSE x

CompositeReward(tr) ==
    LET n == RewardBase(tr)
    IN [den |-> n,
        num |-> Clamped((ResolutionSuccess(tr) + ErrorPenalty(tr) + LatencyReward(tr)) * n
                            + 200 * Lesser(n, 3),
                        1000 * n)]

(* _trajectory_to_orpo_sample: a trajectory with a reward of at least 0.6  *)
(* is the chosen answer of its sample, any other one the rejected answer.  *)
IsChosen(reward) == reward.num >= 600 * reward.den
===============================================================================
