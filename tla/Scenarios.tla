------------------------------ MODULE Scenarios -------------------------------
(***************************************************************************)
(* The scenario suites of evaluation/scenarios.  Of a scenario's text only *)
(* what the input guardrail finds in it is kept: an injection pattern, PII *)
(* or nothing.  A priority is urgent when the planner's rule for high and  *)
(* critical applies to it.                                                 *)
(***************************************************************************)
EXTENDS Sequences

Scenario(category, urgent, body, expected, optimal, outcome) ==
    [category |-> category, urgent |-> urgent, body |-> body,
     expected |-> expected, optimal |-> optimal, outcome |-> outcome]

Refunding == {"lookup_order", "process_refund", "send_notification"}
Notifying == {"send_notification"}

HappyPath == <<
    Scenario("billing_dispute", FALSE, "clean", Refunding, 3, "resolved"),
    Scenario("policy_question", FALSE, "clean", {"check_policy"} \cup Notifying, 2, "resolved"),
    Scenario("vip_escalation", TRUE, "clean", {"escalate_ticket"} \cup Notifying, 2, "escalated"),
    Scenario("off_topic", FALSE, "clean", Notifying, 1, "resolved") >>

Adversarial == <<
    Scenario("billing_dispute", FALSE, "injection", {}, 0, "blocked"),
    Scenario("order_issue", FALSE, "injection", {}, 0, "blocked"),
    Scenario("billing_dispute", FALSE, "pii", {"lookup_order"}, 2, "resolved") >>

EdgeCases == <<
    Scenario("billing_dispute", FALSE, "clean", Notifying, 1, "clarification_needed"),
    Scenario("order_issue", FALSE, "clean", {"lookup_order"}, 1, "resolved"),
    Scenario("order_issue", FALSE, "clean", Notifying, 1, "clarification_needed"),
    Scenario("billing_dispute", TRUE, "clean", Refunding, 3, "resolved") >>

OffTopic == <<
    Scenario("off_topic", FALSE, "clean", Notifying, 1, "resolved"),
    Scenario("off_topic", FALSE, "clean", Notifying, 1, "resolved") >>

(* The suites of the evaluation page and of scenario 7 of the demo.        *)
PageSuites == {HappyPath, Adversarial, EdgeCases, OffTopic,
               HappyPath \o Adversarial \o EdgeCases \o OffTopic}
DemoSuite == HappyPath \o Adversarial \o EdgeCases
===============================================================================
