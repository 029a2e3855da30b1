---------------------------- MODULE TicketPipeline ----------------------------
(***************************************************************************)
(* One ticket from submission to answer: submit_ticket (api/main.py), the  *)
(* planner's graph (agents/meta_planner.py), A2A delegation (a2a/), the    *)
(* specialists (agents/*_agent.py) and the execution engine that runs      *)
(* their plans of skills (skills/execution_engine.py, skills/builtin/).    *)
(*                                                                         *)
(* The code is sequential per ticket; what makes it hard is that each of   *)
(* its calls may fail or come back late while earlier effects stay.  The   *)
(* shared memory behaves as SharedTicketMemory and TicketNotes show for a  *)
(* ticket with one writer: a call lands, or raises, or lands and raises.   *)
(***************************************************************************)
EXTENDS Naturals, Sequences

CONSTANTS
    Requests,      \* the tickets that may be submitted
    Answers,       \* what the LLM may answer to the planner's prompt; a task type
                   \* that an agent advertises is named by its agent
    MaxAttempts,   \* max_attempts of _invoke_with_retry, 3 in the code
    Unreliable     \* may shared memory, the log and clocks misbehave?

Categories == {"billing_dispute", "order_issue", "policy_question", "vip_escalation",
               "off_topic"}

\* amount: of context["amount"], "zero" when it is missing or not positive,
\* "null" for None, "text" for what cannot be compared with 0
RequestRecords ==
    [blocked : BOOLEAN, category : Categories, urgent : BOOLEAN, order : BOOLEAN,
     amount : {"zero", "null", "positive", "text"}]

Specialists == {"billing", "policy", "escalation"}

ASSUME RequestsAssumption == Requests \subseteq RequestRecords
ASSUME AnswersAssumption ==
    Answers \subseteq [clarify : BOOLEAN, to : Specialists \cup {"self", "unknown"}]
ASSUME MaxAttemptsAssumption == MaxAttempts \in Nat \ {0}

VARIABLES
    pc,        \* what runs next
    request,   \* the submitted ticket
    memory,    \* its shared state: notes and tool_results
    task,      \* delegate_task of the planner's graph
    agent,     \* the specialist that handles the delegated ticket
    ran,       \* the trajectory: the plan's steps so far and how they ended
    attempt,   \* of the current step's skill
    effects,   \* history: what the skills did to the outside world
    pending,   \* the planner's notes that are not logged yet
    outcome,   \* outcome of the planner's graph
    response   \* what submit_ticket answers

vars == <<pc, request, memory, task, agent, ran, attempt, effects, pending, outcome, response>>

Skills == {"lookup_order", "process_refund", "check_policy", "escalate_ticket",
           "send_notification"}

Endings == {"done", "refused", "raised"}

Notes == {"decomposed", "clarification", "delegated"} \cup Specialists

Notice ==
    [billing    |-> "refund notice",
     policy     |-> "policy notice",
     escalation |-> "escalation notice"]

Effects == {"refund", "escalation"} \cup {Notice[a] : a \in Specialists}

Outcomes == {"resolved", "failed", "clarification_needed"}

TypeOK ==
    /\ pc \in {"received", "decompose", "clarify", "self_handle", "delegate", "engine",
               "hand_back", "planner_notes", "answered"}
    /\ request \in Requests
    /\ memory \in [notes : Seq(Notes), results : SUBSET Skills]
    /\ task \in Specialists \cup {"none", "self", "unknown"}
    /\ agent \in Specialists \cup {"none"}
    /\ ran \in Seq([skill : Skills, ending : Endings])
    /\ attempt \in 1 .. MaxAttempts
    /\ effects \subseteq Effects
    /\ pending \in Seq(Notes)
    /\ outcome \in Outcomes \cup {"none"}
    /\ response \in Outcomes \cup {"none", "blocked", "error"}

Init ==
    /\ pc = "received"
    /\ request \in Requests
    /\ memory = [notes |-> <<>>, results |-> {}]
    /\ task = "none"
    /\ agent = "none"
    /\ ran = <<>>
    /\ attempt = 1
    /\ effects = {}
    /\ pending = <<>>
    /\ outcome = "none"
    /\ response = "none"

--------------------------------------------------------------------------------
(* A call of the shared memory that returns has landed; one that raises    *)
(* may have.                                                               *)
Update(state, returned) ==
    /\ returned \/ Unreliable
    /\ memory' \in {state} \cup (IF returned THEN {} ELSE {memory})

Answer(what) ==
    /\ pc' = "answered"
    /\ response' = what

(* submit_ticket: a guarded ticket is refused before anything is stored.   *)
Submit ==
    /\ pc = "received"
    /\ \/ request.blocked /\ Answer("blocked")
       \/ ~request.blocked /\ pc' = "decompose" /\ UNCHANGED response
       \/ ~request.blocked /\ Unreliable /\ Answer("error")
    /\ UNCHANGED <<request, memory, task, agent, ran, attempt, effects, pending, outcome>>

(* Mutant: the category is looked at before the priority.                  *)
DelegateToByCategory(answer) ==
    CASE request.category = "billing_dispute" -> "billing"
      [] request.category = "policy_question" -> "policy"
      [] request.category = "vip_escalation" \/
         (request.urgent /\ request.category \in {"order_issue", "off_topic"}) -> "escalation"
      [] OTHER -> answer.to

(* The category and the priority override what the LLM wants.              *)
DelegateTo(answer) ==
    CASE request.urgent \/ request.category = "vip_escalation" -> "escalation"
      [] ~request.urgent /\ request.category = "billing_dispute" -> "billing"
      [] ~request.urgent /\ request.category = "policy_question" -> "policy"
      [] OTHER -> answer.to

ClarificationNeeded(answer) ==
    answer.clarify \/ (request.category = "off_topic" /\ ~request.urgent)

(* _decompose_node and _route_after_decompose; an LLM that fails or does   *)
(* not answer JSON counts as the empty answer.                             *)
Decompose ==
    /\ pc = "decompose"
    /\ \E answer \in Answers \cup {[clarify |-> FALSE, to |-> "self"]} :
          /\ task' = DelegateTo(answer)
          /\ pc' = CASE ClarificationNeeded(answer) -> "clarify"
                     [] ~ClarificationNeeded(answer) /\ task' = "self" -> "self_handle"
                     [] OTHER -> "delegate"
    /\ pending' = <<"decomposed">>
    /\ UNCHANGED <<request, memory, agent, ran, attempt, effects, outcome, response>>

Clarify ==
    /\ pc = "clarify"
    /\ outcome' = "clarification_needed"
    /\ pending' = Append(pending, "clarification")
    /\ pc' = "planner_notes"
    /\ UNCHANGED <<request, memory, task, agent, ran, attempt, effects, response>>

(* _self_handle_node.  Its off-topic branch with a plan of one step is     *)
(* left out: DelegateTo and ClarificationNeeded never let such a ticket    *)
(* through to it.                                                          *)
SelfHandle ==
    /\ pc = "self_handle"
    /\ outcome' = "resolved"
    /\ pc' = "planner_notes"
    /\ UNCHANGED <<request, memory, task, agent, ran, attempt, effects, pending, response>>

--------------------------------------------------------------------------------
(* Mutant: the graph's notes are replaced where they should be extended.   *)
DelegationEndsAfresh(success) ==
    /\ outcome' = IF success THEN "resolved" ELSE "failed"
    /\ pending' = <<"delegated">>
    /\ pc' = "planner_notes"

(* How delegate returns to _delegate_node.                                 *)
DelegationEnds(success) ==
    /\ outcome' = IF success THEN "resolved" ELSE "failed"
    /\ pending' = Append(pending, "delegated")
    /\ pc' = "planner_notes"

(* CapabilityRegistry.find: is the task type advertised by an agent?        *)
Found == task \in Specialists

(* A2AProtocol.delegate and handle_delegation's read of the ticket, which  *)
(* submit_ticket created and nothing deletes.                              *)
Delegate ==
    /\ pc = "delegate"
    /\ \/ /\ Found
          /\ agent' = task
          /\ pc' = "engine"
          /\ UNCHANGED <<pending, outcome>>
       \/ /\ ~Found \/ Unreliable
          /\ DelegationEnds(FALSE)
          /\ UNCHANGED agent
    /\ UNCHANGED <<request, memory, task, ran, attempt, effects, response>>

BillingPlan == <<"lookup_order", "process_refund", "send_notification">>
PolicyPlan == <<"check_policy", "send_notification">>
EscalationPlan == <<"escalate_ticket", "send_notification">>

Plan == [billing |-> BillingPlan, policy |-> PolicyPlan, escalation |-> EscalationPlan]

Failed == ran # <<>> /\ ran[Len(ran)].ending = "raised"

(* Mutant: the engine goes on after a step that raised.                    *)
PlanIsOverAtItsEnd == Len(ran) = Len(Plan[agent])

PlanIsOver == Failed \/ Len(ran) = Len(Plan[agent])

Skill == Plan[agent][Len(ran) + 1]

(* How an invocation may end.  A refusal is a returned {"success": False}  *)
(* or {"found": False}; the engine does not look into what is returned.    *)

(* The order is found; there is none, or no file; the id is no text.       *)
LookUpOrder == {"done", "refused", "raised"}

ProcessRefund ==
    CASE ~request.order \/ request.amount = "zero" -> {"refused"}
      [] request.order /\ request.amount = "text" -> {"raised"}
      [] OTHER -> {"done"}

(* A query that is no text.                                                *)
CheckPolicy == {"done", "raised"}

(* A queue that is no key of a dict.                                       *)
EscalateTicket == {"done", "raised"}

(* Its log file cannot be written.                                         *)
SendNotification == {"done", "raised"}

Invocation(skill) ==
    CASE skill = "lookup_order" -> LookUpOrder
      [] skill = "process_refund" -> ProcessRefund
      [] skill = "check_policy" -> CheckPolicy
      [] skill = "escalate_ticket" -> EscalateTicket
      [] skill = "send_notification" -> SendNotification

Effect(skill) ==
    CASE skill = "process_refund" -> {"refund"}
      [] skill = "escalate_ticket" -> {"escalation"}
      [] skill = "send_notification" -> {Notice[agent]}
      [] OTHER -> {}

(* Mutant: one count of attempts for the whole plan.                       *)
FinishCountsOn(skill, ending) ==
    /\ ran' = Append(ran, [skill |-> skill, ending |-> ending])
    /\ attempt' = attempt + 1

(* Mutant: a step that used up its attempts is started over.               *)
FinishStartsOver(skill, ending) ==
    /\ ran' = IF ending = "raised" THEN ran
                                   ELSE Append(ran, [skill |-> skill, ending |-> ending])
    /\ attempt' = 1

Finish(skill, ending) ==
    /\ ran' = Append(ran, [skill |-> skill, ending |-> ending])
    /\ attempt' = 1

(* _execute_step with _invoke_with_retry: an exception is retried, a       *)
(* refusal is not.  send_notification may raise after its line is written. *)
(* The engine stops at an error that has a message; the exceptions of the  *)
(* built-in skills have one.                                               *)
Invoke ==
    /\ pc = "engine"
    /\ ~PlanIsOver
    /\ \E ending \in Invocation(Skill) :
          \/ /\ ending \in {"done", "refused"}
             /\ effects' = effects \cup (IF ending = "done" THEN Effect(Skill) ELSE {})
             /\ Finish(Skill, ending)
          \/ /\ ending = "raised"
             /\ effects' \in {effects} \cup (IF Skill = "send_notification"
                                             THEN {effects \cup Effect(Skill)} ELSE {})
             /\ \/ attempt < MaxAttempts /\ attempt' = attempt + 1 /\ UNCHANGED ran
                \/ attempt = MaxAttempts /\ Finish(Skill, "raised")
    /\ UNCHANGED <<pc, request, memory, task, agent, pending, outcome, response>>

(* execute returns to the specialist's handle, which logs its note.        *)
SpecialistNote ==
    /\ pc = "engine"
    /\ PlanIsOver
    /\ \E returned \in BOOLEAN :
          /\ Update([memory EXCEPT !.notes = Append(@, agent)], returned)
          /\ \/ returned /\ pc' = "hand_back" /\ UNCHANGED <<pending, outcome>>
             \/ ~returned /\ DelegationEnds(FALSE)
    /\ UNCHANGED <<request, task, agent, ran, attempt, effects, response>>

Outputs == {ran[i].skill : i \in {j \in DOMAIN ran : ran[j].ending \in {"done", "refused"}}}

(* Mutant: every specialist inherits the escalation agent's verdict.       *)
SucceededAlways == agent \in Specialists

(* The specialist's own verdict; an escalation always succeeds.            *)
Succeeded == agent = "escalation" \/ ~Failed

(* The deadline is looked at when the handler has returned, and only then  *)
(* are the outputs written.                                                *)
HandBack ==
    /\ pc = "hand_back"
    /\ \/ Unreliable /\ DelegationEnds(FALSE) /\ UNCHANGED memory
       \/ /\ ~Succeeded \/ Outputs = {}
          /\ DelegationEnds(Succeeded)
          /\ UNCHANGED memory
       \/ /\ Succeeded /\ Outputs # {}
          /\ \E returned \in BOOLEAN :
                /\ Update([memory EXCEPT !.results = @ \cup Outputs], returned)
                /\ DelegationEnds(returned)
    /\ UNCHANGED <<request, task, agent, ran, attempt, effects, response>>

--------------------------------------------------------------------------------
(* MetaPlannerAgent.handle logs the graph's notes one by one; an exception *)
(* leaves submit_ticket without an answer for the customer.                *)
PlannerNote ==
    /\ pc = "planner_notes"
    /\ pending # <<>>
    /\ \E returned \in BOOLEAN :
          /\ Update([memory EXCEPT !.notes = Append(@, Head(pending))], returned)
          /\ \/ returned /\ pending' = Tail(pending) /\ UNCHANGED <<pc, response>>
             \/ ~returned /\ Answer("error") /\ UNCHANGED pending
    /\ UNCHANGED <<request, task, agent, ran, attempt, effects, outcome>>

(* The trajectory is scored and logged, which may fail, then answered.     *)
Respond ==
    /\ pc = "planner_notes"
    /\ pending = <<>>
    /\ \/ Answer(outcome)
       \/ Unreliable /\ Answer("error")
    /\ UNCHANGED <<request, memory, task, agent, ran, attempt, effects, pending, outcome>>

Next ==
    \/ Submit \/ Decompose \/ Clarify \/ SelfHandle
    \/ Delegate \/ Invoke \/ SpecialistNote \/ HandBack
    \/ PlannerNote \/ Respond

Spec == Init /\ [][Next]_vars

(* Every call of a request thread returns or raises: timeouts of the LLM   *)
(* client and of Redis are exceptions.                                     *)
FairSpec == Spec /\ WF_vars(Next)

--------------------------------------------------------------------------------
Urgent == request.urgent \/ request.category = "vip_escalation"

(* A VIP or urgent ticket goes to a human: whatever the LLM answers, no    *)
(* refund is made for it (_decompose_node, meta_planner.py:82-84).         *)
UrgentTicketsAreNeverRefunded == Urgent => "refund" \notin effects

(* The customer hears from a specialist only when no earlier step of the   *)
(* plan raised: the engine stops at the first error                        *)
(* (execution_engine.py:42-48), also when the outcome is forced later.     *)
NoticesFollowTheWork ==
    (\E a \in Specialists : Notice[a] \in effects) =>
        /\ Len(ran) >= Len(Plan[agent]) - 1
        /\ \A i \in 1 .. Len(Plan[agent]) - 1 : ran[i].ending # "raised"

(* Results reach the ticket complete or not at all, and a billing or       *)
(* policy ticket answered as resolved has its whole plan run, its results  *)
(* in the shared state and the specialist's note with them, whatever calls *)
(* failed on the way (protocol.py:77-94, base_agent.py:65-78).             *)
ResolvedMeansDone ==
    /\ memory.results \in {{}, Outputs}
    /\ response = "resolved" /\ agent \in {"billing", "policy"} =>
          /\ [i \in DOMAIN ran |-> ran[i].skill] = Plan[agent]
          /\ memory.results = {Plan[agent][i] : i \in DOMAIN Plan[agent]}
          /\ agent \in {memory.notes[i] : i \in DOMAIN memory.notes}

(* The notes of an answered ticket tell its story in order: what the       *)
(* specialist wrote comes before what the planner collected in its graph,  *)
(* and nothing is missing (meta_planner.py:261-262).                       *)
Story ==
    CASE response = "clarification_needed" -> {<<"decomposed", "clarification">>}
      [] response = "failed" -> {<<"decomposed", "delegated">>, <<agent, "decomposed", "delegated">>}
      [] response = "resolved" /\ task = "self" -> {<<"decomposed">>}
      [] OTHER -> {<<agent, "decomposed", "delegated">>}

AnswerIsDocumented == response \in Outcomes => memory.notes \in Story

(* How many steps there can be before the answer: the attempts that are    *)
(* left of the plan, and what follows it.                                  *)
StepsLeft ==
    CASE pc = "received" -> Len(BillingPlan) * MaxAttempts + 8
      [] pc = "decompose" -> Len(BillingPlan) * MaxAttempts + 7
      [] pc = "delegate" -> Len(BillingPlan) * MaxAttempts + 6
      [] pc = "engine" -> (Len(Plan[agent]) - Len(ran)) * MaxAttempts + 6 - attempt
      [] pc \in {"clarify", "self_handle", "hand_back"} -> 4
      [] pc = "planner_notes" -> Len(pending) + 1
      [] pc = "answered" -> 0

(* Every step brings the answer nearer, whatever the LLM answers and       *)
(* whichever calls fail: a retry uses up an attempt, no node of the graph  *)
(* is entered again, and each note is logged once                          *)
(* (execution_engine.py:117-130, meta_planner.py:199-208, 261-262).        *)
WorkIsBounded == [][StepsLeft' < StepsLeft]_vars

(* Every submitted ticket is answered, retries included.                   *)
EveryTicketIsAnswered == <>(pc = "answered")

--------------------------------------------------------------------------------
(* What the documents say, and the code does not.                          *)

(* "Your refund has been processed" (billing_agent.py:50) is sent to       *)
(* "Notify customer of refund outcome" (billing_agent.py:54).              *)
RefundNoticesAreTrue == "refund notice" \in effects => "refund" \in effects

(* Scenario hp_004 expects an off-topic ticket to be resolved              *)
(* (happy_path.py:20, 56-65): "Meta-planner handles simple / off-topic     *)
(* tickets directly" (meta_planner.py:118).  hp_003 expects an escalated   *)
(* one to end as escalated (happy_path.py:54): "Escalated tickets resolve  *)
(* with ESCALATED outcome" (escalation_agent.py:56).                       *)
HappyPathEndsAsExpected ==
    /\ response \in Outcomes /\ request.category = "off_topic" /\ ~request.urgent =>
          response = "resolved"
    /\ response = "resolved" => "escalation notice" \notin effects

(* "the sub-agent writes results to shared memory and signals completion   *)
(* or failure" (docs/architecture.md:61).                                  *)
RefundsAreHandedBack ==
    response \in Outcomes /\ "refund" \in effects => "process_refund" \in memory.results

================================================================================
