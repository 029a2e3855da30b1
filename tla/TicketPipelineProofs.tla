------------------------- MODULE TicketPipelineProofs -------------------------
(* Proofs about TicketPipeline, for every set of requests, every set of    *)
(* answers of the LLM and every number of attempts.                        *)
EXTENDS TicketPipeline, SequenceTheorems, TLAPS

LEMMA PlansAre ==
    /\ Plan["billing"] = <<"lookup_order", "process_refund", "send_notification">>
    /\ Plan["policy"] = <<"check_policy", "send_notification">>
    /\ Plan["escalation"] = <<"escalate_ticket", "send_notification">>
  BY DEF Plan, BillingPlan, PolicyPlan, EscalationPlan

LEMMA NoticesAre ==
    /\ Notice["billing"] = "refund notice"
    /\ Notice["policy"] = "policy notice"
    /\ Notice["escalation"] = "escalation notice"
  BY DEF Notice

LEMMA PlanTyped ==
    ASSUME NEW a \in Specialists
    PROVE  /\ Plan[a] \in Seq(Skills)
           /\ Len(Plan[a]) \in {2, 3}
           /\ \A i \in 1 .. Len(Plan[a]) :
                 /\ Plan[a][i] \in Skills
                 /\ Plan[a][i] = "send_notification" <=> i = Len(Plan[a])
                 /\ Plan[a][i] = "process_refund" => a = "billing"
                 /\ Plan[a][i] = "escalate_ticket" => a = "escalation"
  <1>1. CASE a = "billing" BY <1>1, PlansAre DEF Skills
  <1>2. CASE a = "policy" BY <1>2, PlansAre DEF Skills
  <1>3. CASE a = "escalation" BY <1>3, PlansAre DEF Skills
  <1> QED BY <1>1, <1>2, <1>3 DEF Specialists

LEMMA NoticeTyped ==
    ASSUME NEW a \in Specialists
    PROVE  Notice[a] \in Effects /\ Notice[a] # "refund" /\ Notice[a] # "escalation"
  BY NoticesAre DEF Specialists, Effects

--------------------------------------------------------------------------------
(* The strengthening.  Who acts is decided by the route; an urgent ticket  *)
(* has only one.                                                           *)
RouteIsKept ==
    /\ pc \in {"received", "decompose"} => task = "none"
    /\ pc \in {"received", "decompose", "clarify", "self_handle", "delegate"} => agent = "none"
    /\ pc \in {"engine", "hand_back"} => agent \in Specialists
    /\ agent \in {"none", task}
    /\ Urgent => task \in {"none", "escalation"}

(* What ran is a prefix of the specialist's plan that raised at its end,   *)
(* if it did.                                                              *)
RunFollowsPlan ==
    /\ agent = "none" => ran = <<>>
    /\ agent \in Specialists =>
          /\ Len(ran) <= Len(Plan[agent])
          /\ \A i \in 1 .. Len(ran) : ran[i].skill = Plan[agent][i]
    /\ \A i \in 1 .. Len(ran) : i < Len(ran) => ran[i].ending # "raised"

(* Only the specialist at work has touched the world, in its own way.      *)
EffectsAreItsOwn ==
    \A e \in effects :
        /\ agent \in Specialists
        /\ \/ e = Notice[agent]
           \/ e = "refund" /\ agent = "billing"
           \/ e = "escalation" /\ agent = "escalation"

IInv ==
    /\ TypeOK
    /\ RouteIsKept
    /\ RunFollowsPlan
    /\ EffectsAreItsOwn
    /\ NoticesFollowTheWork

LEMMA InitInvariant == Init => IInv
  <1> SUFFICES ASSUME Init PROVE IInv
    OBVIOUS
  <1> USE DEF Init
  <1>1. TypeOK
    BY MaxAttemptsAssumption DEF TypeOK
  <1>2. RouteIsKept /\ RunFollowsPlan /\ EffectsAreItsOwn
    BY DEF RouteIsKept, RunFollowsPlan, EffectsAreItsOwn, Specialists
  <1>3. NoticesFollowTheWork
    BY DEF NoticesFollowTheWork
  <1> QED BY <1>1, <1>2, <1>3 DEF IInv

--------------------------------------------------------------------------------
(* The steps that leave the run of the plan alone.                         *)
LEMMA UpdateTyped ==
    ASSUME TypeOK, NEW note \in Notes, NEW returned \in BOOLEAN,
           Update([memory EXCEPT !.notes = Append(@, note)], returned)
    PROVE  /\ memory' \in [notes : Seq(Notes), results : SUBSET Skills]
           /\ memory'.results = memory.results
  <1> DEFINE state == [memory EXCEPT !.notes = Append(@, note)]
  <1>1. memory \in [notes : Seq(Notes), results : SUBSET Skills]
    BY DEF TypeOK
  <1>2. Append(memory.notes, note) \in Seq(Notes)
    BY <1>1
  <1>3. state \in [notes : Seq(Notes), results : SUBSET Skills] /\ state.results = memory.results
    BY <1>1, <1>2
  <1>4. memory' \in {state, memory}
    BY DEF Update
  <1> QED BY <1>1, <1>3, <1>4

LEMMA RunUntouched ==
    ASSUME RunFollowsPlan, EffectsAreItsOwn, NoticesFollowTheWork,
           UNCHANGED <<agent, ran, effects>>
    PROVE  RunFollowsPlan' /\ EffectsAreItsOwn' /\ NoticesFollowTheWork'
  BY DEF RunFollowsPlan, EffectsAreItsOwn, NoticesFollowTheWork

LEMMA SubmitInvariant == IInv /\ Submit => IInv'
  <1> SUFFICES ASSUME IInv, Submit PROVE IInv'
    OBVIOUS
  <1>1. TypeOK'
    BY DEF IInv, TypeOK, Submit, Answer
  <1>2. RouteIsKept'
    BY DEF IInv, RouteIsKept, Submit, Answer, Urgent
  <1> QED BY <1>1, <1>2, RunUntouched DEF IInv, Submit

LEMMA DecomposeInvariant == IInv /\ Decompose => IInv'
  <1> SUFFICES ASSUME IInv, Decompose PROVE IInv'
    OBVIOUS
  <1> PICK answer \in Answers \cup {[clarify |-> FALSE, to |-> "self"]} :
          /\ task' = DelegateTo(answer)
          /\ pc' = CASE ClarificationNeeded(answer) -> "clarify"
                     [] ~ClarificationNeeded(answer) /\ task' = "self" -> "self_handle"
                     [] OTHER -> "delegate"
    BY DEF Decompose
  <1>1. pc' \in {"clarify", "self_handle", "delegate"}
    OBVIOUS
  <1>2. answer.to \in Specialists \cup {"self", "unknown"}
    BY AnswersAssumption
  <1>3. /\ task' \in Specialists \cup {"self", "unknown"}
        /\ Urgent => task' = "escalation"
    BY <1>2 DEF DelegateTo, Urgent, Specialists
  <1>4. TypeOK'
    BY <1>1, <1>3 DEF IInv, TypeOK, Decompose, Notes
  <1>5. RouteIsKept'
    BY <1>1, <1>3 DEF IInv, RouteIsKept, Decompose, Urgent
  <1> QED BY <1>4, <1>5, RunUntouched DEF IInv, Decompose

LEMMA ClarifyInvariant == IInv /\ Clarify => IInv'
  <1> SUFFICES ASSUME IInv, Clarify PROVE IInv'
    OBVIOUS
  <1>1. TypeOK'
    BY DEF IInv, TypeOK, Clarify, Notes, Outcomes
  <1>2. RouteIsKept'
    BY DEF IInv, RouteIsKept, Clarify, Urgent
  <1> QED BY <1>1, <1>2, RunUntouched DEF IInv, Clarify

LEMMA SelfHandleInvariant == IInv /\ SelfHandle => IInv'
  <1> SUFFICES ASSUME IInv, SelfHandle PROVE IInv'
    OBVIOUS
  <1>1. TypeOK'
    BY DEF IInv, TypeOK, SelfHandle, Outcomes
  <1>2. RouteIsKept'
    BY DEF IInv, RouteIsKept, SelfHandle, Urgent
  <1> QED BY <1>1, <1>2, RunUntouched DEF IInv, SelfHandle

LEMMA DelegationEndsTyped ==
    ASSUME TypeOK, NEW success \in BOOLEAN, DelegationEnds(success)
    PROVE  outcome' \in Outcomes /\ pending' \in Seq(Notes) /\ pc' = "planner_notes"
  BY DEF TypeOK, DelegationEnds, Outcomes, Notes

LEMMA DelegateInvariant == IInv /\ Delegate => IInv'
  <1> SUFFICES ASSUME IInv, Delegate PROVE IInv'
    OBVIOUS
  <1>1. CASE /\ task \in Specialists
             /\ agent' = task
             /\ pc' = "engine"
             /\ UNCHANGED <<pending, outcome>>
    <2>1. ran = <<>> /\ effects = {}
      BY DEF IInv, RouteIsKept, RunFollowsPlan, EffectsAreItsOwn, Delegate, Found, Specialists
    <2>2. TypeOK'
      BY <1>1 DEF IInv, TypeOK, Delegate, Found
    <2>3. RouteIsKept'
      BY <1>1 DEF IInv, RouteIsKept, Delegate, Found, Urgent
    <2>4. RunFollowsPlan'
      BY <1>1, <2>1, PlanTyped DEF RunFollowsPlan, Delegate, Found, Specialists
    <2>5. EffectsAreItsOwn' /\ NoticesFollowTheWork'
      BY <2>1 DEF EffectsAreItsOwn, NoticesFollowTheWork, Delegate, Found
    <2> QED BY <2>2, <2>3, <2>4, <2>5 DEF IInv
  <1>2. CASE DelegationEnds(FALSE) /\ UNCHANGED agent
    <2>1. TypeOK'
      BY <1>2, DelegationEndsTyped DEF IInv, TypeOK, Delegate, Found
    <2>2. RouteIsKept'
      BY <1>2 DEF IInv, RouteIsKept, Delegate, Found, DelegationEnds, Urgent
    <2> QED BY <1>2, <2>1, <2>2, RunUntouched DEF IInv, Delegate, Found
  <1> QED BY <1>1, <1>2 DEF Delegate, Found

--------------------------------------------------------------------------------
(* The engine.                                                             *)
LEMMA SkillTyped ==
    ASSUME IInv, pc = "engine", ~PlanIsOver
    PROVE  /\ agent \in Specialists
           /\ Len(ran) \in Nat
           /\ Len(ran) + 1 \in 1 .. Len(Plan[agent])
           /\ Skill \in Skills
           /\ Skill = "send_notification" <=> Len(ran) + 1 = Len(Plan[agent])
           /\ Skill = "process_refund" => agent = "billing"
           /\ Skill = "escalate_ticket" => agent = "escalation"
           /\ Effect(Skill) \subseteq Effects
           /\ \A i \in 1 .. Len(ran) : ran[i].ending # "raised"
  <1>1. agent \in Specialists
    BY DEF IInv, RouteIsKept
  <1>2. Len(ran) \in Nat /\ Len(Plan[agent]) \in Nat
    BY <1>1, PlanTyped DEF IInv, TypeOK
  <1>3. Len(ran) + 1 \in 1 .. Len(Plan[agent])
    BY <1>1, <1>2 DEF IInv, RunFollowsPlan, PlanIsOver
  <1>4. /\ Skill \in Skills
        /\ Skill = "send_notification" <=> Len(ran) + 1 = Len(Plan[agent])
        /\ Skill = "process_refund" => agent = "billing"
        /\ Skill = "escalate_ticket" => agent = "escalation"
    BY <1>1, <1>3, PlanTyped DEF Skill
  <1>5. Effect(Skill) \subseteq Effects
    BY <1>1, NoticeTyped DEF Effect, Effects
  <1>6. \A i \in 1 .. Len(ran) : ran[i].ending # "raised"
    BY <1>2 DEF IInv, TypeOK, RunFollowsPlan, PlanIsOver, Failed
  <1> QED BY <1>1, <1>2, <1>3, <1>4, <1>5, <1>6

(* A step of the plan ends.                                                *)
LEMMA FinishPreserves ==
    ASSUME IInv, pc = "engine", ~PlanIsOver, NEW ending \in Endings,
           Finish(Skill, ending), UNCHANGED agent
    PROVE  /\ ran' \in Seq([skill : Skills, ending : Endings])
           /\ attempt' \in 1 .. MaxAttempts
           /\ Len(ran') = Len(ran) + 1
           /\ \A i \in 1 .. Len(ran) : ran'[i] = ran[i]
           /\ RunFollowsPlan'
  <1> DEFINE step == [skill |-> Skill, ending |-> ending]
  <1>1. ran \in Seq([skill : Skills, ending : Endings]) /\ step \in [skill : Skills, ending : Endings]
    BY SkillTyped DEF IInv, TypeOK
  <1>2. ran' = Append(ran, step)
    BY DEF Finish
  <1>3. ran' \in Seq([skill : Skills, ending : Endings])
    BY <1>1, <1>2
  <1>4. /\ Len(ran') = Len(ran) + 1
        /\ \A i \in 1 .. Len(ran) : ran'[i] = ran[i]
        /\ ran'[Len(ran) + 1] = step
    BY <1>1, <1>2
  <1>5. attempt' \in 1 .. MaxAttempts
    BY MaxAttemptsAssumption DEF Finish
  <1>6. /\ agent' # "none"
        /\ Len(ran') <= Len(Plan[agent'])
    BY <1>4, SkillTyped DEF Specialists
  <1>7. ASSUME NEW i \in 1 .. Len(ran')
        PROVE  /\ ran'[i].skill = Plan[agent'][i]
               /\ i < Len(ran') => ran'[i].ending # "raised"
    <2>1. CASE i \in 1 .. Len(ran)
      BY <1>4, <2>1, SkillTyped DEF IInv, RunFollowsPlan
    <2>2. CASE i = Len(ran) + 1
      BY <1>4, <2>2, SkillTyped DEF Skill
    <2> QED BY <1>4, <2>1, <2>2, SkillTyped
  <1> QED BY <1>3, <1>4, <1>5, <1>6, <1>7 DEF RunFollowsPlan

LEMMA InvokeInvariant == IInv /\ Invoke => IInv'
  <1> SUFFICES ASSUME IInv, Invoke PROVE IInv'
    OBVIOUS
  <1>1. /\ pc = "engine" /\ ~PlanIsOver
        /\ UNCHANGED <<pc, request, memory, task, agent, pending, outcome, response>>
    BY DEF Invoke
  <1>2. RouteIsKept'
    BY <1>1 DEF IInv, RouteIsKept, Urgent
  <1>3. ASSUME effects' \in {effects, effects \cup Effect(Skill)}
        PROVE  effects' \in SUBSET Effects /\ EffectsAreItsOwn'
    <2>1. \A e \in Effect(Skill) : \/ e = Notice[agent]
                                   \/ e = "refund" /\ agent = "billing"
                                   \/ e = "escalation" /\ agent = "escalation"
      BY <1>1, SkillTyped DEF Effect
    <2> QED BY <1>1, <1>3, <2>1, SkillTyped DEF IInv, TypeOK, EffectsAreItsOwn
  <1>4. ASSUME NEW a \in Specialists, Notice[a] \in effects', Notice[a] \notin effects,
               effects' \in {effects, effects \cup Effect(Skill)}
        PROVE  Skill = "send_notification"
    <2>1. Notice[a] \in Effect(Skill)
      BY <1>4
    <2> QED BY <2>1, NoticeTyped DEF Effect
  <1>5. PICK ending \in Invocation(Skill) :
          \/ /\ ending \in {"done", "refused"}
             /\ effects' = effects \cup (IF ending = "done" THEN Effect(Skill) ELSE {})
             /\ Finish(Skill, ending)
          \/ /\ ending = "raised"
             /\ effects' \in {effects} \cup (IF Skill = "send_notification"
                                             THEN {effects \cup Effect(Skill)} ELSE {})
             /\ \/ attempt < MaxAttempts /\ attempt' = attempt + 1 /\ UNCHANGED ran
                \/ attempt = MaxAttempts /\ Finish(Skill, "raised")
    BY DEF Invoke
  <1>6. effects' \in {effects, effects \cup Effect(Skill)}
    BY <1>5
  <1>7. CASE attempt < MaxAttempts /\ attempt' = attempt + 1 /\ UNCHANGED ran
    <2>1. attempt' \in 1 .. MaxAttempts
      BY <1>7, MaxAttemptsAssumption DEF IInv, TypeOK
    <2>2. TypeOK'
      BY <1>1, <1>3, <1>6, <1>7, <2>1 DEF IInv, TypeOK
    <2>3. RunFollowsPlan'
      BY <1>1, <1>7 DEF IInv, RunFollowsPlan
    <2>4. NoticesFollowTheWork'
      BY <1>1, <1>4, <1>6, <1>7, SkillTyped DEF IInv, NoticesFollowTheWork
    <2> QED BY <1>2, <1>3, <1>6, <2>2, <2>3, <2>4 DEF IInv
  <1>8. CASE \E e \in Endings : Finish(Skill, e)
    <2> PICK e \in Endings : Finish(Skill, e)
      BY <1>8
    <2>1. /\ ran' \in Seq([skill : Skills, ending : Endings])
          /\ attempt' \in 1 .. MaxAttempts
          /\ Len(ran') = Len(ran) + 1
          /\ \A i \in 1 .. Len(ran) : ran'[i] = ran[i]
          /\ RunFollowsPlan'
      BY <1>1, FinishPreserves
    <2>2. TypeOK'
      BY <1>1, <1>3, <1>6, <2>1 DEF IInv, TypeOK
    <2>3. NoticesFollowTheWork'
      <3> SUFFICES ASSUME NEW a \in Specialists, Notice[a] \in effects'
                   PROVE  /\ Len(ran') >= Len(Plan[agent]) - 1
                          /\ \A i \in 1 .. Len(Plan[agent]) - 1 : ran'[i].ending # "raised"
        BY <1>1 DEF NoticesFollowTheWork
      <3>1. Len(ran) >= Len(Plan[agent]) - 1
        BY <1>1, <1>4, <1>6, SkillTyped DEF IInv, NoticesFollowTheWork
      <3> QED BY <1>1, <2>1, <3>1, SkillTyped
    <2> QED BY <1>2, <1>3, <1>6, <2>1, <2>2, <2>3 DEF IInv
  <1> QED BY <1>5, <1>7, <1>8 DEF Endings

--------------------------------------------------------------------------------
(* What follows the run of the plan.                                       *)
LEMMA SpecialistNoteInvariant == IInv /\ SpecialistNote => IInv'
  <1> SUFFICES ASSUME IInv, SpecialistNote PROVE IInv'
    OBVIOUS
  <1> PICK returned \in BOOLEAN :
          /\ Update([memory EXCEPT !.notes = Append(@, agent)], returned)
          /\ \/ returned /\ pc' = "hand_back" /\ UNCHANGED <<pending, outcome>>
             \/ ~returned /\ DelegationEnds(FALSE)
    BY DEF SpecialistNote
  <1>1. agent \in Notes /\ agent \in Specialists
    BY DEF IInv, RouteIsKept, SpecialistNote, Notes
  <1>2. memory' \in [notes : Seq(Notes), results : SUBSET Skills]
    BY <1>1, UpdateTyped DEF IInv
  <1>3. TypeOK'
    BY <1>2, DelegationEndsTyped DEF IInv, TypeOK, SpecialistNote
  <1>4. RouteIsKept'
    BY <1>1 DEF IInv, RouteIsKept, SpecialistNote, DelegationEnds, Urgent
  <1> QED BY <1>3, <1>4, RunUntouched DEF IInv, SpecialistNote

LEMMA ElementOfSequence ==
    ASSUME NEW S, NEW s \in Seq(S), NEW i \in DOMAIN s
    PROVE  s[i] \in S
  OBVIOUS

LEMMA OutputsTyped == ASSUME TypeOK PROVE Outputs \in SUBSET Skills
  <1>1. \A i \in DOMAIN ran : ran[i].skill \in Skills
    <2>1. ran \in Seq([skill : Skills, ending : Endings])
      BY DEF TypeOK
    <2>2. \A i \in DOMAIN ran : ran[i] \in [skill : Skills, ending : Endings]
      BY <2>1, ElementOfSequence
    <2> QED BY <2>2
  <1> QED BY <1>1 DEF Outputs

LEMMA HandBackInvariant == IInv /\ HandBack => IInv'
  <1> SUFFICES ASSUME IInv, HandBack PROVE IInv'
    OBVIOUS
  <1>1. memory' \in {memory, [memory EXCEPT !.results = @ \cup Outputs]}
    BY DEF HandBack, Update
  <1>2. memory' \in [notes : Seq(Notes), results : SUBSET Skills]
    BY <1>1, OutputsTyped DEF IInv, TypeOK
  <1>3. \E success \in BOOLEAN : DelegationEnds(success)
    BY DEF HandBack, Succeeded, Failed
  <1>4. outcome' \in Outcomes /\ pending' \in Seq(Notes) /\ pc' = "planner_notes"
    BY <1>3, DelegationEndsTyped DEF IInv
  <1>5. TypeOK'
    BY <1>2, <1>4 DEF IInv, TypeOK, HandBack
  <1>6. RouteIsKept'
    BY <1>4 DEF IInv, RouteIsKept, HandBack, Urgent
  <1> QED BY <1>5, <1>6, RunUntouched DEF IInv, HandBack

LEMMA PlannerNoteInvariant == IInv /\ PlannerNote => IInv'
  <1> SUFFICES ASSUME IInv, PlannerNote PROVE IInv'
    OBVIOUS
  <1> PICK returned \in BOOLEAN :
          /\ Update([memory EXCEPT !.notes = Append(@, Head(pending))], returned)
          /\ \/ returned /\ pending' = Tail(pending) /\ UNCHANGED <<pc, response>>
             \/ ~returned /\ Answer("error") /\ UNCHANGED pending
    BY DEF PlannerNote
  <1>1. Head(pending) \in Notes /\ Tail(pending) \in Seq(Notes)
    BY DEF IInv, TypeOK, PlannerNote
  <1>2. memory' \in [notes : Seq(Notes), results : SUBSET Skills]
    BY <1>1, UpdateTyped DEF IInv
  <1>3. TypeOK'
    BY <1>1, <1>2 DEF IInv, TypeOK, PlannerNote, Answer
  <1>4. RouteIsKept'
    BY DEF IInv, RouteIsKept, PlannerNote, Answer, Urgent
  <1> QED BY <1>3, <1>4, RunUntouched DEF IInv, PlannerNote

LEMMA RespondInvariant == IInv /\ Respond => IInv'
  <1> SUFFICES ASSUME IInv, Respond PROVE IInv'
    OBVIOUS
  <1>1. TypeOK'
    BY DEF IInv, TypeOK, Respond, Answer
  <1>2. RouteIsKept'
    BY DEF IInv, RouteIsKept, Respond, Answer, Urgent
  <1> QED BY <1>1, <1>2, RunUntouched DEF IInv, Respond

LEMMA StutterInvariant == IInv /\ UNCHANGED vars => IInv'
  <1> SUFFICES ASSUME IInv, UNCHANGED vars PROVE IInv'
    OBVIOUS
  <1>1. TypeOK'
    BY DEF IInv, TypeOK, vars
  <1>2. RouteIsKept'
    BY DEF IInv, RouteIsKept, vars, Urgent
  <1> QED BY <1>1, <1>2, RunUntouched DEF IInv, vars

--------------------------------------------------------------------------------
(* The inductive invariant holds of every run of the pipeline.             *)
THEOREM Invariance == Spec => []IInv
  <1>1. IInv /\ [Next]_vars => IInv'
    BY SubmitInvariant, DecomposeInvariant, ClarifyInvariant, SelfHandleInvariant,
       DelegateInvariant, InvokeInvariant, SpecialistNoteInvariant, HandBackInvariant,
       PlannerNoteInvariant, RespondInvariant, StutterInvariant DEF Next
  <1> QED BY InitInvariant, <1>1, PTL DEF Spec

(* Every variable of the pipeline keeps its type.                          *)
THEOREM TypeCorrect == Spec => []TypeOK
  <1>1. IInv => TypeOK
    BY DEF IInv
  <1> QED BY Invariance, <1>1, PTL

(* Whatever the LLM answers and whatever fails, no refund is made for a    *)
(* VIP or urgent ticket: only the billing specialist refunds, and such a   *)
(* ticket has no specialist but the escalation agent.                      *)
THEOREM UrgentIsNeverRefunded == Spec => []UrgentTicketsAreNeverRefunded
  <1>1. IInv => UrgentTicketsAreNeverRefunded
    <2> SUFFICES ASSUME IInv, Urgent, "refund" \in effects PROVE FALSE
      BY DEF UrgentTicketsAreNeverRefunded
    <2>1. agent \in Specialists /\ agent = "billing"
      BY NoticeTyped DEF IInv, EffectsAreItsOwn
    <2> QED BY <2>1 DEF IInv, RouteIsKept
  <1> QED BY Invariance, <1>1, PTL

(* A customer is notified only after every earlier step of the plan ended  *)
(* without an exception, for every number of attempts.                     *)
THEOREM NoticesComeLast == Spec => []NoticesFollowTheWork
  <1>1. IInv => NoticesFollowTheWork
    BY DEF IInv
  <1> QED BY Invariance, <1>1, PTL


--------------------------------------------------------------------------------
(* Hand-back.  Before it the ticket holds no result and has no outcome;    *)
(* after it the results are all of the outputs or none, and a plan that    *)
(* counts as resolved ran to its end and left its specialist's note.       *)
Noted(a) == a \in {memory.notes[i] : i \in DOMAIN memory.notes}

HandOver ==
    /\ pc \notin {"planner_notes", "answered"} => memory.results = {} /\ outcome = "none"
    /\ memory.results \in {{}, Outputs}
    /\ pc = "hand_back" => PlanIsOver /\ Noted(agent)
    /\ outcome = "resolved" /\ agent \in {"billing", "policy"} =>
          ~Failed /\ Len(ran) = Len(Plan[agent]) /\ memory.results = Outputs /\ Noted(agent)
    /\ response \in {"none", "blocked", "error", outcome}

LEMMA NotesOnlyGrow ==
    ASSUME TypeOK, NEW note \in Notes, NEW returned \in BOOLEAN,
           Update([memory EXCEPT !.notes = Append(@, note)], returned)
    PROVE  /\ memory'.results = memory.results
           /\ \A a : Noted(a) => Noted(a)'
           /\ returned => Noted(note)'
  <1> DEFINE longer == Append(memory.notes, note)
  <1>1. memory \in [notes : Seq(Notes), results : SUBSET Skills] /\ memory.notes \in Seq(Notes)
    BY DEF TypeOK
  <1>2. /\ DOMAIN longer = 1 .. Len(memory.notes) + 1
        /\ DOMAIN memory.notes = 1 .. Len(memory.notes)
        /\ Len(memory.notes) \in Nat
        /\ \A i \in 1 .. Len(memory.notes) : longer[i] = memory.notes[i]
        /\ longer[Len(memory.notes) + 1] = note
    BY <1>1
  <1>3. \/ memory'.notes = longer
        \/ memory' = memory /\ ~returned
    BY <1>1 DEF Update
  <1>4. CASE memory'.notes = longer
    <2>1. ASSUME NEW a, Noted(a) PROVE Noted(a)'
      <3> PICK i \in DOMAIN memory.notes : memory.notes[i] = a
        BY <2>1 DEF Noted
      <3>1. i \in DOMAIN memory'.notes /\ memory'.notes[i] = a
        BY <1>2, <1>4
      <3> QED BY <3>1 DEF Noted
    <2>2. Noted(note)'
      <3>1. Len(memory.notes) + 1 \in DOMAIN memory'.notes
        BY <1>2, <1>4
      <3> QED BY <1>2, <1>4, <3>1 DEF Noted
    <2> QED BY <2>1, <2>2, UpdateTyped
  <1>5. CASE memory' = memory /\ ~returned
    BY <1>5 DEF Noted
  <1> QED BY <1>3, <1>4, <1>5

LEMMA RunKept ==
    ASSUME UNCHANGED <<agent, ran>>
    PROVE  Outputs' = Outputs /\ Failed' = Failed /\ PlanIsOver' = PlanIsOver
  BY DEF Outputs, Failed, PlanIsOver

LEMMA HandOverStep ==
    ASSUME IInv, HandOver, [Next]_vars
    PROVE  HandOver'
  <1> USE DEF IInv
  <1>1. CASE Submit \/ Decompose \/ Clarify \/ SelfHandle
    <2>1. /\ UNCHANGED <<memory, agent, ran>>
          /\ agent = "none"
          /\ pc' # "hand_back"
          /\ pc' \notin {"planner_notes", "answered"} => outcome' = "none"
          /\ pc \notin {"planner_notes", "answered"}
          /\ response' \in {"none", "blocked", "error", outcome'}
      BY <1>1 DEF HandOver, RouteIsKept, Submit, Decompose, Clarify, SelfHandle, Answer, TypeOK
    <2> QED BY <2>1, RunKept DEF HandOver, Noted
  <1>2. CASE Delegate
    <2>1. memory.results = {} /\ outcome = "none" /\ memory' = memory /\ response' = response /\ ran' = ran
      BY <1>2 DEF HandOver, Delegate, Found
    <2>2. CASE pc' = "engine" /\ outcome' = outcome
      BY <2>1, <2>2 DEF HandOver
    <2>3. CASE DelegationEnds(FALSE) /\ agent' = agent
      BY <2>1, <2>3 DEF HandOver, DelegationEnds
    <2> QED BY <1>2, <2>2, <2>3 DEF Delegate, Found
  <1>3. CASE Invoke
    BY <1>3 DEF HandOver, Invoke
  <1>4. CASE SpecialistNote
    <2> PICK returned \in BOOLEAN :
            /\ Update([memory EXCEPT !.notes = Append(@, agent)], returned)
            /\ \/ returned /\ pc' = "hand_back" /\ UNCHANGED <<pending, outcome>>
               \/ ~returned /\ DelegationEnds(FALSE)
      BY <1>4 DEF SpecialistNote
    <2>1. PICK a \in Notes : a = agent /\ a = agent'
      BY <1>4 DEF RouteIsKept, SpecialistNote, Notes
    <2>2. memory'.results = memory.results /\ (returned => Noted(a)')
      BY <2>1, NotesOnlyGrow
    <2>3. /\ memory.results = {} /\ outcome = "none" /\ UNCHANGED <<agent, ran, response>>
          /\ PlanIsOver
      BY <1>4 DEF HandOver, SpecialistNote
    <2>4. CASE returned /\ pc' = "hand_back" /\ UNCHANGED <<pending, outcome>>
      <3>1. PlanIsOver' /\ agent' \in {memory'.notes[i] : i \in DOMAIN memory'.notes}
        BY <2>1, <2>2, <2>3, <2>4, RunKept DEF Noted
      <3> QED BY <2>2, <2>3, <2>4, <3>1 DEF HandOver, Noted
    <2>5. CASE DelegationEnds(FALSE)
      BY <2>2, <2>3, <2>5 DEF HandOver, DelegationEnds
    <2> QED BY <2>4, <2>5
  <1>5. CASE HandBack
    <2>1. /\ UNCHANGED <<agent, ran, response>>
          /\ memory.results = {} /\ outcome = "none" /\ PlanIsOver /\ Noted(agent)
          /\ memory \in [notes : Seq(Notes), results : SUBSET Skills]
      BY <1>5 DEF HandOver, HandBack, TypeOK
    <2>2. Outputs' = Outputs /\ Failed' = Failed
      BY <2>1, RunKept
    <2>3. /\ memory'.notes = memory.notes
          /\ memory'.results \in {{}, Outputs}
          /\ Noted(agent)'
      BY <1>5, <2>1 DEF HandBack, Update, Noted
    <2>4. /\ pc' = "planner_notes" /\ outcome' \in {"resolved", "failed"}
          /\ outcome' = "resolved" => Succeeded /\ memory'.results = Outputs
      BY <1>5, <2>1 DEF HandBack, Update, DelegationEnds
    <2>5. Succeeded /\ agent \in {"billing", "policy"} => ~Failed /\ Len(ran) = Len(Plan[agent])
      BY <2>1 DEF Succeeded, PlanIsOver
    <2> QED BY <2>1, <2>2, <2>3, <2>4, <2>5 DEF HandOver
  <1>6. CASE PlannerNote
    <2> PICK returned \in BOOLEAN :
            /\ Update([memory EXCEPT !.notes = Append(@, Head(pending))], returned)
            /\ \/ returned /\ pending' = Tail(pending) /\ UNCHANGED <<pc, response>>
               \/ ~returned /\ Answer("error") /\ UNCHANGED pending
      BY <1>6 DEF PlannerNote
    <2>1. Head(pending) \in Notes
      BY <1>6 DEF TypeOK, PlannerNote
    <2>2. memory'.results = memory.results /\ \A a : Noted(a) => Noted(a)'
      BY <2>1, NotesOnlyGrow
    <2>3. UNCHANGED <<agent, ran, outcome>> /\ pc = "planner_notes"
          /\ pc' \in {"planner_notes", "answered"} /\ response' \in {response, "error"}
      BY <1>6 DEF PlannerNote, Answer
    <2> QED BY <2>2, <2>3, RunKept DEF HandOver
  <1>7. CASE Respond
    <2>1. /\ UNCHANGED <<memory, agent, ran, outcome>>
          /\ pc' = "answered" /\ pc = "planner_notes" /\ response' \in {outcome, "error"}
      BY <1>7 DEF Respond, Answer
    <2> QED BY <2>1, RunKept DEF HandOver, Noted
  <1>8. CASE UNCHANGED vars
    BY <1>8, RunKept DEF HandOver, Noted, vars
  <1> QED BY <1>1, <1>2, <1>3, <1>4, <1>5, <1>6, <1>7, <1>8 DEF Next

(* What a complete run leaves behind.                                      *)
LEMMA CompleteRun ==
    ASSUME IInv, agent \in Specialists, ~Failed, Len(ran) = Len(Plan[agent])
    PROVE  /\ [i \in DOMAIN ran |-> ran[i].skill] = Plan[agent]
           /\ Outputs = {Plan[agent][i] : i \in DOMAIN Plan[agent]}
  <1> USE DEF IInv
  <1>1. /\ ran \in Seq([skill : Skills, ending : Endings])
        /\ Plan[agent] \in Seq(Skills)
    BY PlanTyped DEF TypeOK
  <1>2. DOMAIN ran = 1 .. Len(ran) /\ DOMAIN Plan[agent] = 1 .. Len(ran) /\ Len(ran) \in Nat
    BY <1>1
  <1>3. \A i \in DOMAIN ran : ran[i].skill = Plan[agent][i]
    BY <1>2 DEF RunFollowsPlan
  <1>4. \A i \in DOMAIN ran : ran[i].ending \in {"done", "refused"}
    <2>1. \A i \in DOMAIN ran : ran[i] \in [skill : Skills, ending : Endings]
      BY <1>1, ElementOfSequence
    <2>2. \A i \in DOMAIN ran : ran[i].ending # "raised"
      BY <1>2 DEF RunFollowsPlan, Failed
    <2> QED BY <2>1, <2>2 DEF Endings
  <1>5. [i \in DOMAIN ran |-> ran[i].skill] = Plan[agent]
    <2>1. Plan[agent] = [i \in DOMAIN Plan[agent] |-> Plan[agent][i]]
      BY <1>1
    <2> QED BY <1>2, <1>3, <2>1
  <1>6. Outputs = {Plan[agent][i] : i \in DOMAIN Plan[agent]}
    BY <1>2, <1>3, <1>4 DEF Outputs
  <1> QED BY <1>5, <1>6

(* A billing or policy ticket answered as resolved had its whole plan run  *)
(* without an exception, its results are in the shared state, all of them, *)
(* and the specialist's note with them, whichever calls failed.            *)
THEOREM ResolvedIsDone == Spec => []ResolvedMeansDone
  <1>1. Init => HandOver
    BY DEF Init, HandOver
  <1>2. IInv /\ HandOver /\ [Next]_vars => HandOver'
    BY HandOverStep
  <1>3. IInv /\ HandOver => ResolvedMeansDone
    <2> SUFFICES ASSUME IInv, HandOver PROVE ResolvedMeansDone
      OBVIOUS
    <2>1. ASSUME response = "resolved", agent \in {"billing", "policy"}
          PROVE  /\ [i \in DOMAIN ran |-> ran[i].skill] = Plan[agent]
                 /\ memory.results = {Plan[agent][i] : i \in DOMAIN Plan[agent]}
                 /\ Noted(agent)
      <3>1. /\ ~Failed /\ Len(ran) = Len(Plan[agent])
            /\ memory.results = Outputs /\ Noted(agent)
        BY <2>1 DEF HandOver
      <3> QED BY <2>1, <3>1, CompleteRun DEF Specialists
    <2> QED BY <2>1 DEF HandOver, ResolvedMeansDone, Noted
  <1> QED BY Invariance, <1>1, <1>2, <1>3, PTL DEF Spec

--------------------------------------------------------------------------------
(* The notes.  Until the planner logs them, what the graph has collected   *)
(* is pending, and the shared state holds the specialist's note at most;   *)
(* from then on stored and pending notes together tell the ticket's story. *)
Told ==
    CASE outcome = "clarification_needed" -> {<<"decomposed", "clarification">>}
      [] outcome = "failed" -> {<<"decomposed", "delegated">>, <<agent, "decomposed", "delegated">>}
      [] outcome = "resolved" /\ task = "self" -> {<<"decomposed">>}
      [] OTHER -> {<<agent, "decomposed", "delegated">>}

Documented ==
    /\ pc \in {"received", "decompose", "clarify", "self_handle", "delegate", "engine"} =>
          memory.notes = <<>>
    /\ pc = "hand_back" => memory.notes = <<agent>>
    /\ pc \in {"clarify", "self_handle", "delegate", "engine", "hand_back"} =>
          pending = <<"decomposed">>
    /\ pc = "self_handle" => task = "self"
    /\ pc \in {"delegate", "engine", "hand_back"} => task # "self"
    /\ pc = "planner_notes" => memory.notes \o pending \in Told
    /\ pc # "answered" => response = "none"
    /\ response \in Outcomes => response = outcome /\ memory.notes \in Told

(* Moving the first pending note to the end of the stored ones.            *)
LEMMA MoveOver ==
    ASSUME NEW S, NEW s \in Seq(S), NEW t \in Seq(S), t # <<>>
    PROVE  Append(s, Head(t)) \o Tail(t) = s \o t
  <1>1. /\ Append(s, Head(t)) \o Tail(t) \in Seq(S)
        /\ s \o t \in Seq(S)
        /\ Len(Append(s, Head(t)) \o Tail(t)) = Len(s \o t)
    OBVIOUS
  <1>2. \A i \in 1 .. Len(s \o t) : (Append(s, Head(t)) \o Tail(t))[i] = (s \o t)[i]
    OBVIOUS
  <1> QED BY <1>1, <1>2, SeqEqual

LEMMA TwoNotes ==
    ASSUME NEW a \in Notes, NEW b \in Notes
    PROVE  Append(<<a>>, b) = <<a, b>>
  <1> DEFINE one == <<a>>
             two == <<a, b>>
  <1>1. /\ one \in Seq(Notes) /\ Len(one) = 1 /\ one[1] = a
        /\ two \in Seq(Notes) /\ Len(two) = 2 /\ two[1] = a /\ two[2] = b
    OBVIOUS
  <1> HIDE DEF one, two
  <1>2. /\ Append(one, b) \in Seq(Notes)
        /\ Len(Append(one, b)) = 2
        /\ Append(one, b)[1] = two[1] /\ Append(one, b)[2] = two[2]
    <2>1. /\ Append(one, b) \in Seq(Notes)
          /\ Len(Append(one, b)) = Len(one) + 1
          /\ \A i \in 1 .. Len(one) : Append(one, b)[i] = one[i]
          /\ Append(one, b)[Len(one) + 1] = b
      <3>1. one \in Seq(Notes)
        BY <1>1
      <3> QED BY <3>1
    <2> QED BY <1>1, <2>1
  <1>3. \A i \in 1 .. 2 : Append(one, b)[i] = two[i]
    <2>1. \A i \in 1 .. 2 : i = 1 \/ i = 2
      OBVIOUS
    <2> QED BY <1>2, <2>1
  <1>4. Append(one, b) = two
    BY <1>1, <1>2, <1>3, SeqEqual
  <1> QED BY <1>4 DEF one, two

(* The stories, put together from what is stored and what is pending.      *)
LEMMA Stories ==
    ASSUME NEW a \in Notes
    PROVE  /\ <<>> \o Append(<<"decomposed">>, "clarification") = <<"decomposed", "clarification">>
           /\ <<>> \o <<"decomposed">> = <<"decomposed">>
           /\ <<>> \o Append(<<"decomposed">>, "delegated") = <<"decomposed", "delegated">>
           /\ <<a>> \o Append(<<"decomposed">>, "delegated") = <<a, "decomposed", "delegated">>
  <1>1. /\ Append(<<"decomposed">>, "clarification") = <<"decomposed", "clarification">>
        /\ Append(<<"decomposed">>, "delegated") = <<"decomposed", "delegated">>
    BY TwoNotes DEF Notes
  <1>2. /\ <<"decomposed">> \in Seq(Notes)
        /\ <<"decomposed", "clarification">> \in Seq(Notes)
        /\ <<"decomposed", "delegated">> \in Seq(Notes)
        /\ <<a>> \in Seq(Notes)
        /\ <<a, "decomposed", "delegated">> \in Seq(Notes)
    BY DEF Notes
  <1>3. <<a>> \o <<"decomposed", "delegated">> = <<a, "decomposed", "delegated">>
    <2> DEFINE left == <<a>>
               right == <<"decomposed", "delegated">>
               all == <<a, "decomposed", "delegated">>
    <2>1. /\ Len(left) = 1 /\ Len(right) = 2 /\ Len(all) = 3
          /\ left[1] = a /\ right[1] = "decomposed" /\ right[2] = "delegated"
          /\ all[1] = a /\ all[2] = "decomposed" /\ all[3] = "delegated"
      OBVIOUS
    <2> HIDE DEF left, right, all
    <2>2. left \in Seq(Notes) /\ right \in Seq(Notes) /\ all \in Seq(Notes)
      BY <1>2 DEF left, right, all
    <2>3. /\ left \o right \in Seq(Notes)
          /\ Len(left \o right) = 3
          /\ \A i \in 1 .. 3 : (left \o right)[i] = IF i <= 1 THEN left[i] ELSE right[i - 1]
      <3>1. /\ left \o right \in Seq(Notes)
            /\ Len(left \o right) = Len(left) + Len(right)
            /\ \A i \in 1 .. Len(left) + Len(right) : (left \o right)[i] =
                   IF i <= Len(left) THEN left[i] ELSE right[i - Len(left)]
        BY <2>2, ConcatProperties, Zenon
      <3> QED BY <2>1, <3>1
    <2>5. \A i \in 1 .. 3 : (left \o right)[i] = all[i]
      <3>1. \A i \in 1 .. 3 : i = 1 \/ i = 2 \/ i = 3
        OBVIOUS
      <3>2. /\ (left \o right)[1] = all[1]
            /\ (left \o right)[2] = all[2]
            /\ (left \o right)[3] = all[3]
        BY <2>1, <2>3
      <3> QED BY <3>1, <3>2
    <2>4. left \o right = all
      BY <2>1, <2>2, <2>3, <2>5, SeqEqual
    <2> QED BY <2>4 DEF left, right, all
  <1> QED BY <1>1, <1>2, <1>3, ConcatEmptySeq

LEMMA DocumentedStep ==
    ASSUME IInv, Documented, [Next]_vars
    PROVE  Documented'
  <1> USE DEF IInv
  <1> DEFINE T(out, who, what) ==
                CASE out = "clarification_needed" -> {<<"decomposed", "clarification">>}
                  [] out = "failed" -> {<<"decomposed", "delegated">>, <<who, "decomposed", "delegated">>}
                  [] out = "resolved" /\ what = "self" -> {<<"decomposed">>}
                  [] OTHER -> {<<who, "decomposed", "delegated">>}
  <1>0. Told = T(outcome, agent, task) /\ Told' = T(outcome', agent', task')
    BY DEF Told
  <1> HIDE DEF T
  <1>a. /\ <<>> \o Append(<<"decomposed">>, "clarification") = <<"decomposed", "clarification">>
        /\ <<>> \o <<"decomposed">> = <<"decomposed">>
        /\ <<>> \o Append(<<"decomposed">>, "delegated") = <<"decomposed", "delegated">>
    BY Stories DEF Notes
  <1>1. CASE Submit
    BY <1>1 DEF Documented, Submit, Answer, Outcomes
  <1>2. CASE Decompose
    BY <1>2 DEF Documented, Decompose, Outcomes
  <1>3. CASE Clarify
    <2>1. memory' = memory /\ memory'.notes \o pending' = <<"decomposed", "clarification">>
      BY <1>3, <1>a DEF Documented, Clarify
    <2> QED BY <1>3, <2>1 DEF Documented, Clarify, Told, Outcomes
  <1>4. CASE SelfHandle
    <2>1. memory' = memory /\ memory'.notes \o pending' = <<"decomposed">>
      BY <1>4, <1>a DEF Documented, SelfHandle
    <2> QED BY <1>4, <2>1 DEF Documented, SelfHandle, Told, Outcomes
  <1>5. CASE Delegate
    <2>1. /\ memory' = memory /\ memory.notes = <<>> /\ pending = <<"decomposed">>
          /\ task' = task /\ response' = response /\ response = "none" /\ task # "self"
      BY <1>5 DEF Documented, Delegate, Found
    <2>2. CASE pc' = "engine" /\ pending' = pending
      BY <2>1, <2>2 DEF Documented, Outcomes
    <2>3. CASE DelegationEnds(FALSE)
      <3>1. memory'.notes \o pending' = <<"decomposed", "delegated">>
        BY <2>1, <2>3, <1>a DEF DelegationEnds
      <3> QED BY <2>1, <2>3, <3>1 DEF Documented, DelegationEnds, Told, Outcomes
    <2> QED BY <1>5, <2>2, <2>3 DEF Delegate, Found
  <1>6. CASE Invoke
    BY <1>6 DEF Documented, Invoke, Outcomes
  <1>7. CASE SpecialistNote
    <2> PICK returned \in BOOLEAN :
            /\ Update([memory EXCEPT !.notes = Append(@, agent)], returned)
            /\ \/ returned /\ pc' = "hand_back" /\ UNCHANGED <<pending, outcome>>
               \/ ~returned /\ DelegationEnds(FALSE)
      BY <1>7 DEF SpecialistNote
    <2>1. /\ memory.notes = <<>> /\ pending = <<"decomposed">> /\ response = "none"
          /\ task # "self" /\ UNCHANGED <<task, agent, response>>
      BY <1>7 DEF Documented, SpecialistNote
    <2>2. /\ memory'.notes \in {<<agent>>, <<>>}
          /\ returned => memory'.notes = <<agent>>
      BY <2>1 DEF Update, TypeOK
    <2>3. CASE returned /\ pc' = "hand_back" /\ UNCHANGED <<pending, outcome>>
      BY <2>1, <2>2, <2>3 DEF Documented, Outcomes
    <2>4. CASE DelegationEnds(FALSE)
      <3>1. pending' = Append(<<"decomposed">>, "delegated") /\ agent' \in Notes
        BY <1>7, <2>1, <2>4 DEF DelegationEnds, SpecialistNote, RouteIsKept, Notes
      <3>2. <<agent'>> \o pending' = <<agent', "decomposed", "delegated">>
        BY <3>1, Stories
      <3>3. memory'.notes \o pending' \in
                {<<"decomposed", "delegated">>, <<agent', "decomposed", "delegated">>}
        BY <1>a, <2>1, <2>2, <3>1, <3>2
      <3> QED BY <2>1, <2>4, <3>3 DEF Documented, DelegationEnds, Told, Outcomes
    <2> QED BY <2>3, <2>4
  <1>8. CASE HandBack
    <2>1. /\ memory.notes = <<agent>> /\ pending = <<"decomposed">> /\ response = "none"
          /\ task # "self" /\ UNCHANGED <<task, agent, response>>
      BY <1>8 DEF Documented, HandBack
    <2>2. memory'.notes = <<agent>>
      BY <1>8, <2>1 DEF HandBack, Update, TypeOK
    <2>3. PICK success \in BOOLEAN : DelegationEnds(success)
      BY <1>8 DEF HandBack, Succeeded, Failed
    <2>4. memory'.notes \o pending' = <<agent', "decomposed", "delegated">>
      BY <1>8, <2>1, <2>2, <2>3, Stories DEF DelegationEnds, HandBack, RouteIsKept, Notes
    <2> QED BY <2>1, <2>3, <2>4 DEF Documented, DelegationEnds, Told, Outcomes
  <1>9. CASE PlannerNote
    <2> PICK returned \in BOOLEAN :
            /\ Update([memory EXCEPT !.notes = Append(@, Head(pending))], returned)
            /\ \/ returned /\ pending' = Tail(pending) /\ UNCHANGED <<pc, response>>
               \/ ~returned /\ Answer("error") /\ UNCHANGED pending
      BY <1>9 DEF PlannerNote
    <2>1. /\ pc = "planner_notes" /\ pending # <<>> /\ response = "none"
          /\ UNCHANGED <<task, agent, outcome>>
          /\ memory.notes \o pending \in Told
      BY <1>9 DEF PlannerNote, Documented
    <2>2. Told' = Told
      BY <1>0, <2>1
    <2>3. CASE returned /\ pending' = Tail(pending) /\ UNCHANGED <<pc, response>>
      <3>1. memory.notes \in Seq(Notes) /\ pending \in Seq(Notes)
        BY DEF TypeOK
      <3>2. memory'.notes = Append(memory.notes, Head(pending))
        BY <2>3 DEF Update, TypeOK
      <3>3. memory'.notes \o pending' = memory.notes \o pending
        BY <2>1, <2>3, <3>1, <3>2, MoveOver
      <3> QED BY <2>1, <2>2, <2>3, <3>3 DEF Documented, Outcomes
    <2>4. CASE Answer("error")
      BY <2>4 DEF Documented, Answer, Outcomes
    <2> QED BY <2>3, <2>4
  <1>10. CASE Respond
    <2>1. /\ UNCHANGED <<memory, task, agent, outcome>> /\ pc' = "answered"
          /\ response' \in {outcome, "error"}
          /\ memory.notes \o pending \in Told /\ pending = <<>>
      BY <1>10 DEF Documented, Respond, Answer
    <2>2. memory.notes \o pending = memory.notes
      <3>1. memory.notes \in Seq(Notes)
        BY DEF TypeOK
      <3> QED BY <2>1, <3>1
    <2>3. memory'.notes \in Told'
      BY <1>0, <2>1, <2>2
    <2> QED BY <2>1, <2>3 DEF Documented, Outcomes
  <1>11. CASE UNCHANGED vars
    BY <1>0, <1>11 DEF Documented, vars
  <1> QED BY <1>1, <1>2, <1>3, <1>4, <1>5, <1>6, <1>7, <1>8, <1>9, <1>10, <1>11 DEF Next

(* The notes of an answered ticket are all there and in order: the         *)
(* specialist's before the planner's, whichever calls failed.              *)
THEOREM AnswersAreDocumented == Spec => []AnswerIsDocumented
  <1>1. Init => Documented
    BY DEF Init, Documented, Outcomes
  <1>2. IInv /\ Documented /\ [Next]_vars => Documented'
    BY DocumentedStep
  <1>3. Documented => AnswerIsDocumented
    BY DEF Documented, AnswerIsDocumented, Told, Story
  <1> QED BY Invariance, <1>1, <1>2, <1>3, PTL DEF Spec

--------------------------------------------------------------------------------
(* Termination, as far as it is a matter of single steps: none is taken    *)
(* without using up one of finitely many.  A step of the plan starts with  *)
(* its first attempt, and few notes are pending.                           *)
CountersInv ==
    /\ agent = "none" => attempt = 1
    /\ agent \in Specialists /\ Len(ran) = Len(Plan[agent]) => attempt = 1
    /\ pc = "planner_notes" => Len(pending) <= 2

LEMMA OnePending == Len(<<"decomposed">>) = 1
  OBVIOUS

LEMMA EndsWithTwo ==
    ASSUME IInv, Documented, pc \in {"delegate", "engine", "hand_back"},
           NEW success \in BOOLEAN, DelegationEnds(success)
    PROVE  Len(pending') = 2
  <1>1. pending = <<"decomposed">> /\ pending \in Seq(Notes)
    BY DEF Documented, IInv, TypeOK
  <1>2. pending' = Append(pending, "delegated")
    BY DEF DelegationEnds
  <1> QED BY <1>1, <1>2, OnePending

LEMMA CountersStep ==
    ASSUME IInv, Documented, CountersInv, [Next]_vars
    PROVE  CountersInv'
  <1> USE DEF CountersInv
  <1>1. CASE Submit \/ Decompose \/ UNCHANGED vars
    BY <1>1 DEF Submit, Decompose, Answer, vars
  <1>2. CASE Clarify \/ SelfHandle
    <2>1. pending = <<"decomposed">> /\ pending \in Seq(Notes)
      BY <1>2 DEF Documented, Clarify, SelfHandle, IInv, TypeOK
    <2>2. pending' \in {pending, Append(pending, "clarification")}
      BY <1>2 DEF Clarify, SelfHandle
    <2>3. CASE pending' = pending
      BY <1>2, <2>1, <2>3, OnePending DEF Clarify, SelfHandle
    <2>4. CASE pending' = Append(pending, "clarification")
      <3>1. Len(pending') = 2
        BY <2>1, <2>4, OnePending
      <3> QED BY <1>2, <3>1 DEF Clarify, SelfHandle
    <2> QED BY <2>2, <2>3, <2>4
  <1>3. CASE Delegate
    <2>1. attempt = 1 /\ attempt' = attempt /\ pc' \in {"engine", "planner_notes"}
      BY <1>3 DEF Delegate, IInv, RouteIsKept, DelegationEnds
    <2>2. CASE pc' = "engine"
      BY <2>1, <2>2
    <2>3. CASE pc' = "planner_notes"
      <3>1. pc = "delegate" /\ DelegationEnds(FALSE)
        BY <1>3, <2>3 DEF Delegate
      <3>2. Len(pending') = 2
        BY <3>1, EndsWithTwo
      <3> QED BY <2>1, <3>2
    <2> QED BY <2>1, <2>2, <2>3
  <1>4. CASE Invoke
    <2>1. pc = "engine" /\ ~PlanIsOver /\ UNCHANGED <<pc, agent>>
      BY <1>4 DEF Invoke
    <2>2. \/ \E ending \in Endings : Finish(Skill, ending)
          \/ UNCHANGED ran
      BY <1>4 DEF Invoke, Endings
    <2>3. CASE UNCHANGED ran
      BY <2>1, <2>3 DEF PlanIsOver, IInv, RouteIsKept, Specialists
    <2>4. CASE \E ending \in Endings : Finish(Skill, ending)
      BY <2>1, <2>4 DEF Finish
    <2> QED BY <2>2, <2>3, <2>4
  <1>5. CASE SpecialistNote
    <2>1. UNCHANGED <<agent, ran, attempt>> /\ pc' \in {"hand_back", "planner_notes"}
      BY <1>5 DEF SpecialistNote, DelegationEnds
    <2>2. CASE pc' = "hand_back"
      BY <2>1, <2>2
    <2>3. CASE pc' = "planner_notes"
      <3>1. pc = "engine" /\ DelegationEnds(FALSE)
        BY <1>5, <2>3 DEF SpecialistNote
      <3>2. Len(pending') = 2
        BY <3>1, EndsWithTwo
      <3> QED BY <2>1, <3>2
    <2> QED BY <2>1, <2>2, <2>3
  <1>6. CASE HandBack
    <2>1. \E success \in BOOLEAN : DelegationEnds(success)
      BY <1>6 DEF HandBack, Succeeded, Failed
    <2>2. Len(pending') = 2
      BY <1>6, <2>1, EndsWithTwo DEF HandBack
    <2>3. UNCHANGED <<agent, ran, attempt>>
      BY <1>6 DEF HandBack
    <2> QED BY <2>2, <2>3
  <1>7. CASE PlannerNote
    <2>1. pending' = pending \/ pending' = Tail(pending)
      BY <1>7 DEF PlannerNote
    <2>2. pending \in Seq(Notes) /\ pending # <<>> /\ pc = "planner_notes"
      BY <1>7 DEF PlannerNote, IInv, TypeOK
    <2>3. Len(pending') <= 2
      BY <2>1, <2>2
    <2> QED BY <1>7, <2>3 DEF PlannerNote
  <1>8. CASE Respond
    BY <1>8 DEF Respond, Answer
  <1> QED BY <1>1, <1>2, <1>3, <1>4, <1>5, <1>6, <1>7, <1>8 DEF Next

(* What is left of the engine's work.                                      *)
LEMMA AttemptsLeft ==
    ASSUME NEW done \in Nat, NEW all \in {2, 3}, done <= all, NEW a \in 1 .. MaxAttempts,
           done = all => a = 1
    PROVE  /\ (all - done) * MaxAttempts \in Nat
           /\ (all - done) * MaxAttempts + 6 - a \in 5 .. 3 * MaxAttempts + 5
           /\ done < all => (all - (done + 1)) * MaxAttempts = (all - done) * MaxAttempts - MaxAttempts
  <1>1. MaxAttempts \in Nat /\ MaxAttempts >= 1
    BY MaxAttemptsAssumption
  <1>2. all - done \in {0, 1, 2, 3}
    OBVIOUS
  <1>3. CASE all - done = 0 BY <1>1, <1>3
  <1>4. CASE all - done = 1 BY <1>1, <1>4
  <1>5. CASE all - done = 2 BY <1>1, <1>5
  <1>6. CASE all - done = 3 BY <1>1, <1>6
  <1> QED BY <1>2, <1>3, <1>4, <1>5, <1>6

LEMMA EngineLeft ==
    ASSUME IInv, CountersInv, pc = "engine"
    PROVE  /\ StepsLeft \in 5 .. 3 * MaxAttempts + 5
           /\ ~PlanIsOver => (Len(Plan[agent]) - (Len(ran) + 1)) * MaxAttempts
                                = (Len(Plan[agent]) - Len(ran)) * MaxAttempts - MaxAttempts
           /\ (Len(Plan[agent]) - Len(ran)) * MaxAttempts \in Nat
  <1>1. agent \in Specialists /\ attempt \in 1 .. MaxAttempts
    BY DEF IInv, RouteIsKept, TypeOK
  <1>2. Len(Plan[agent]) \in {2, 3} /\ Len(ran) \in Nat /\ Len(ran) <= Len(Plan[agent])
    BY <1>1, PlanTyped DEF IInv, TypeOK, RunFollowsPlan
  <1>3. Len(ran) = Len(Plan[agent]) => attempt = 1
    BY <1>1 DEF CountersInv
  <1>4. ~PlanIsOver => Len(ran) < Len(Plan[agent])
    BY <1>2 DEF PlanIsOver
  <1>5. StepsLeft = (Len(Plan[agent]) - Len(ran)) * MaxAttempts + 6 - attempt
    BY DEF StepsLeft
  <1> QED BY <1>1, <1>2, <1>3, <1>4, <1>5, AttemptsLeft

LEMMA Few ==
    ASSUME NEW n \in Nat, n <= 2
    PROVE  n \in {0, 1, 2} /\ n + 1 \in 1 .. 3
  OBVIOUS

(* Where the number of steps that are left lies at each point.             *)
LeftBounds ==
    /\ pc = "received" => StepsLeft = 3 * MaxAttempts + 8
    /\ pc = "decompose" => StepsLeft = 3 * MaxAttempts + 7
    /\ pc = "delegate" => StepsLeft = 3 * MaxAttempts + 6
    /\ pc = "engine" => StepsLeft \in 5 .. 3 * MaxAttempts + 5
    /\ pc \in {"clarify", "self_handle", "hand_back"} => StepsLeft = 4
    /\ pc = "planner_notes" => StepsLeft = Len(pending) + 1 /\ Len(pending) + 1 \in 1 .. 3
    /\ pc = "answered" => StepsLeft = 0

LEMMA LeftIsBounded == IInv /\ CountersInv => LeftBounds
  <1> SUFFICES ASSUME IInv, CountersInv PROVE LeftBounds
    OBVIOUS
  <1>0. Len(BillingPlan) = 3
    BY DEF BillingPlan
  <1>1. pc = "received" => StepsLeft = 3 * MaxAttempts + 8
    BY <1>0 DEF StepsLeft
  <1>2. pc = "decompose" => StepsLeft = 3 * MaxAttempts + 7
    BY <1>0 DEF StepsLeft
  <1>3. pc = "delegate" => StepsLeft = 3 * MaxAttempts + 6
    BY <1>0 DEF StepsLeft
  <1>4. pc = "engine" => StepsLeft \in 5 .. 3 * MaxAttempts + 5
    BY EngineLeft
  <1>5. pc \in {"clarify", "self_handle", "hand_back"} => StepsLeft = 4
    BY DEF StepsLeft
  <1>6. pc = "planner_notes" => StepsLeft = Len(pending) + 1 /\ Len(pending) + 1 \in 1 .. 3
    <2> SUFFICES ASSUME pc = "planner_notes"
                 PROVE  StepsLeft = Len(pending) + 1 /\ Len(pending) + 1 \in 1 .. 3
      OBVIOUS
    <2>1. StepsLeft = Len(pending) + 1
      BY DEF StepsLeft
    <2>2. Len(pending) \in Nat /\ Len(pending) <= 2
      BY DEF IInv, TypeOK, CountersInv
    <2>3. Len(pending) + 1 \in 1 .. 3
      BY <2>2, Few
    <2> QED BY <2>1, <2>3
  <1>7. pc = "answered" => StepsLeft = 0
    BY DEF StepsLeft
  <1> QED BY <1>1, <1>2, <1>3, <1>4, <1>5, <1>6, <1>7 DEF LeftBounds

LEMMA EveryStepCounts ==
    ASSUME IInv, Documented, CountersInv, CountersInv', LeftBounds, LeftBounds', Next
    PROVE  StepsLeft' < StepsLeft
  <1> USE DEF LeftBounds
  <1>0. MaxAttempts \in Nat /\ MaxAttempts >= 1
    BY MaxAttemptsAssumption
  <1>00. pc' = "planner_notes" => StepsLeft' \in 1 .. 3
    <2> SUFFICES ASSUME pc' = "planner_notes" PROVE StepsLeft' \in 1 .. 3
      OBVIOUS
    <2>1. StepsLeft' = Len(pending') + 1 /\ Len(pending') + 1 \in 1 .. 3
      OBVIOUS
    <2> QED BY <2>1
  <1>1. CASE Submit
    <2>1. pc = "received" /\ pc' \in {"decompose", "answered"}
      BY <1>1 DEF Submit, Answer
    <2> QED BY <1>0, <2>1
  <1>2. CASE Decompose
    <2>1. pc = "decompose" /\ pc' \in {"clarify", "self_handle", "delegate"}
      BY <1>2 DEF Decompose
    <2>2. StepsLeft = 3 * MaxAttempts + 7
      BY <2>1
    <2>3. StepsLeft' \in {4, 3 * MaxAttempts + 6}
      BY <2>1
    <2> QED BY <1>0, <2>2, <2>3
  <1>3. CASE Clarify \/ SelfHandle
    <2>1. pc \in {"clarify", "self_handle"} /\ pc' = "planner_notes"
      BY <1>3 DEF Clarify, SelfHandle
    <2>2. StepsLeft = 4
      BY <2>1
    <2> QED BY <1>00, <2>1, <2>2
  <1>4. CASE Delegate
    <2>1. pc = "delegate" /\ pc' \in {"engine", "planner_notes"}
      BY <1>4 DEF Delegate, DelegationEnds
    <2>2. CASE pc' = "engine"
      BY <1>0, <2>1, <2>2
    <2>3. CASE pc' = "planner_notes"
      BY <1>0, <1>00, <2>1, <2>3
    <2> QED BY <2>1, <2>2, <2>3
  <1>5. CASE Invoke
    <2>1. pc = "engine" /\ pc' = "engine" /\ ~PlanIsOver /\ agent' = agent
      BY <1>5 DEF Invoke
    <2> DEFINE product == (Len(Plan[agent]) - Len(ran)) * MaxAttempts
    <2>2. StepsLeft = product + 6 - attempt /\ attempt \in 1 .. MaxAttempts
      BY <2>1 DEF StepsLeft, IInv, TypeOK
    <2>3. product \in Nat
          /\ (Len(Plan[agent]) - (Len(ran) + 1)) * MaxAttempts = product - MaxAttempts
      BY <2>1, EngineLeft
    <2>4. StepsLeft' = (Len(Plan[agent]) - Len(ran')) * MaxAttempts + 6 - attempt'
      BY <2>1 DEF StepsLeft
    <2>5. \/ attempt' = attempt + 1 /\ ran' = ran
          \/ attempt' = 1 /\ Len(ran') = Len(ran) + 1
      <3>1. ran \in Seq([skill : Skills, ending : Endings])
        BY DEF IInv, TypeOK
      <3> QED BY <1>5, <3>1 DEF Invoke, Finish
    <2>6. CASE attempt' = attempt + 1 /\ ran' = ran
      <3>1. StepsLeft' = product + 6 - (attempt + 1)
        BY <2>4, <2>6
      <3> HIDE DEF product
      <3> QED BY <2>2, <2>3, <3>1
    <2>7. CASE attempt' = 1 /\ Len(ran') = Len(ran) + 1
      <3>1. StepsLeft' = (product - MaxAttempts) + 6 - 1
        BY <2>3, <2>4, <2>7
      <3> HIDE DEF product
      <3>2. product + 5 - MaxAttempts < product + 6 - attempt
        BY <1>0, <2>2, <2>3
      <3> QED BY <1>0, <2>2, <2>3, <3>1, <3>2
    <2> QED BY <2>5, <2>6, <2>7
  <1>6. CASE SpecialistNote
    <2>1. pc = "engine" /\ pc' \in {"hand_back", "planner_notes"}
      BY <1>6 DEF SpecialistNote, DelegationEnds
    <2>2. StepsLeft \in 5 .. 3 * MaxAttempts + 5
      BY <2>1
    <2>3. StepsLeft' \in 1 .. 4
      BY <1>00, <2>1
    <2> HIDE DEF LeftBounds
    <2> QED BY <1>0, <2>2, <2>3
  <1>7. CASE HandBack
    <2>1. pc = "hand_back" /\ pc' = "planner_notes"
      BY <1>7 DEF HandBack, DelegationEnds
    <2> QED BY <1>00, <2>1
  <1>8. CASE PlannerNote
    <2>1. pc = "planner_notes" /\ pending # <<>> /\ pending \in Seq(Notes)
      BY <1>8 DEF PlannerNote, IInv, TypeOK
    <2>2. \/ pc' = "planner_notes" /\ pending' = Tail(pending)
          \/ pc' = "answered"
      BY <1>8 DEF PlannerNote, Answer
    <2>3. CASE pc' = "planner_notes" /\ pending' = Tail(pending)
      <3>1. Len(pending') = Len(pending) - 1
        BY <2>1, <2>3
      <3> QED BY <2>1, <2>3, <3>1
    <2>4. CASE pc' = "answered"
      BY <2>1, <2>4
    <2> QED BY <2>2, <2>3, <2>4
  <1>9. CASE Respond
    <2>1. pc = "planner_notes" /\ pc' = "answered"
      BY <1>9 DEF Respond, Answer
    <2> QED BY <2>1
  <1> QED BY <1>1, <1>2, <1>3, <1>4, <1>5, <1>6, <1>7, <1>8, <1>9 DEF Next

LEMMA CountersHold == Spec => [](IInv /\ Documented /\ CountersInv /\ LeftBounds)
  <1>1. Init => Documented
    BY DEF Init, Documented, Outcomes
  <1>2. IInv /\ Documented /\ [Next]_vars => Documented'
    BY DocumentedStep
  <1>3. Init => CountersInv
    BY DEF Init, CountersInv, Specialists
  <1>4. IInv /\ Documented /\ CountersInv /\ [Next]_vars => CountersInv'
    BY CountersStep
  <1> QED BY Invariance, LeftIsBounded, <1>1, <1>2, <1>3, <1>4, PTL DEF Spec

(* Every step brings the answer nearer, whatever the LLM answers and       *)
(* whichever calls fail: retries use up attempts, no node of the graph is  *)
(* entered again, each note is logged once (execution_engine.py:117-130,   *)
(* meta_planner.py:199-208, 261-262).                                      *)
THEOREM WorkBounded == Spec => WorkIsBounded
  <1>1. IInv /\ Documented /\ CountersInv /\ CountersInv' /\ LeftBounds /\ LeftBounds' /\ [Next]_vars
          => [StepsLeft' < StepsLeft]_vars
    BY EveryStepCounts
  <1> QED BY CountersHold, <1>1, PTL DEF Spec, WorkIsBounded

(* The steps that are left are a natural number, at most 3 * MaxAttempts   *)
(* + 8: that many steps, retries included, and a ticket is answered.       *)
THEOREM WorkIsNumbered == Spec => [](StepsLeft \in 0 .. 3 * MaxAttempts + 8)
  <1>1. IInv /\ LeftBounds => StepsLeft \in 0 .. 3 * MaxAttempts + 8
    <2> SUFFICES ASSUME IInv, LeftBounds PROVE StepsLeft \in 0 .. 3 * MaxAttempts + 8
      OBVIOUS
    <2>0. MaxAttempts \in Nat /\ MaxAttempts >= 1
      BY MaxAttemptsAssumption
    <2>1. pc \in {"received", "decompose", "clarify", "self_handle", "delegate", "engine",
                  "hand_back", "planner_notes", "answered"}
      BY DEF IInv, TypeOK
    <2>2. CASE pc \in {"received", "decompose", "delegate", "engine"}
      BY <2>0, <2>2 DEF LeftBounds
    <2>3. CASE pc \in {"clarify", "self_handle", "hand_back", "answered"}
      <3>1. StepsLeft \in {0, 4}
        BY <2>3 DEF LeftBounds
      <3> QED BY <2>0, <3>1
    <2>4. CASE pc = "planner_notes"
      <3>1. StepsLeft = Len(pending) + 1 /\ Len(pending) + 1 \in 1 .. 3
        BY <2>4 DEF LeftBounds
      <3> QED BY <2>0, <3>1
    <2> QED BY <2>1, <2>2, <2>3, <2>4
  <1> QED BY CountersHold, <1>1, PTL

--------------------------------------------------------------------------------
(* Refunds.  RefundNoticesAreTrue is violated by refused refunds; this is  *)
(* how far it is true.  How process_refund ended decides it, and that is   *)
(* decided by the request.                                                 *)
RefundInv ==
    /\ "refund" \in effects => Len(ran) >= 2 /\ ran[2].ending = "done"
    /\ agent = "billing" /\ Len(ran) >= 2 =>
          /\ ran[2].ending \in ProcessRefund
          /\ ran[2].ending = "done" => "refund" \in effects

LEMMA OneLonger ==
    ASSUME NEW S, NEW s \in Seq(S), NEW e
    PROVE  Len(Append(s, e)) = Len(s) + 1 /\ Append(s, e) # s
  <1>1. Len(Append(s, e)) = Len(s) + 1 /\ Len(s) \in Nat
    OBVIOUS
  <1>2. Len(s) + 1 # Len(s)
    BY <1>1
  <1> QED BY <1>1, <1>2

LEMMA BelowThree == ASSUME NEW n \in Nat, n < 3 PROVE n \in {0, 1, 2}
  OBVIOUS

LEMMA PastOne == ASSUME NEW n \in Nat, n # 1, n + 1 >= 2 PROVE n >= 2
  OBVIOUS

(* Only process_refund refunds, and when it is done it has.                *)
LEMMA RefundEffect ==
    ASSUME IInv, pc = "engine", ~PlanIsOver
    PROVE  /\ "refund" \in Effect(Skill) <=> Skill = "process_refund"
           /\ Skill = "process_refund" <=> agent = "billing" /\ Len(ran) = 1
  <1>1. agent \in Specialists /\ Len(ran) \in Nat /\ Len(ran) < Len(Plan[agent])
    BY PlanTyped DEF IInv, RouteIsKept, RunFollowsPlan, TypeOK, PlanIsOver
  <1>2. Skill \in Skills
    BY <1>1, PlanTyped DEF Skill
  <1>3. "refund" \in Effect(Skill) <=> Skill = "process_refund"
    <2>1. CASE Skill = "process_refund" BY <2>1 DEF Effect
    <2>2. CASE Skill = "escalate_ticket" BY <2>2 DEF Effect
    <2>3. CASE Skill = "send_notification" BY <1>1, <2>3, NoticeTyped DEF Effect
    <2>4. CASE Skill \in {"lookup_order", "check_policy"} BY <2>4 DEF Effect
    <2> QED BY <1>2, <2>1, <2>2, <2>3, <2>4 DEF Skills
  <1>4. Skill = "process_refund" <=> agent = "billing" /\ Len(ran) = 1
    <2>1. CASE agent = "billing"
      <3>1. Len(Plan["billing"]) = 3
        BY PlansAre
      <3>2. Len(ran) \in {0, 1, 2}
        BY <1>1, <2>1, <3>1, BelowThree
      <3>3. CASE Len(ran) = 0
        BY <2>1, <3>3, PlansAre DEF Skill
      <3>4. CASE Len(ran) = 1
        BY <2>1, <3>4, PlansAre DEF Skill
      <3>5. CASE Len(ran) = 2
        BY <2>1, <3>5, PlansAre DEF Skill
      <3> QED BY <3>2, <3>3, <3>4, <3>5
    <2>2. CASE agent # "billing"
      BY <2>2, SkillTyped
    <2> QED BY <2>1, <2>2
  <1> QED BY <1>3, <1>4

LEMMA RefundStep ==
    ASSUME IInv, RefundInv, [Next]_vars
    PROVE  RefundInv'
  <1>1. CASE UNCHANGED <<request, agent, ran, effects>>
    BY <1>1 DEF RefundInv, ProcessRefund
  <1>2. CASE Delegate
    <2>1. ran = <<>> /\ UNCHANGED <<request, ran, effects>>
      BY <1>2 DEF Delegate, IInv, RouteIsKept, RunFollowsPlan
    <2>2. Len(ran') = 0
      BY <2>1
    <2> QED BY <2>1, <2>2 DEF RefundInv
  <1>3. CASE Invoke
    <2>1. pc = "engine" /\ ~PlanIsOver /\ UNCHANGED <<request, agent>>
      BY <1>3 DEF Invoke
    <2>2. ran \in Seq([skill : Skills, ending : Endings]) /\ Len(ran) \in Nat
      BY DEF IInv, TypeOK
    <2>3. PICK ending \in Invocation(Skill) :
            \/ /\ ending \in {"done", "refused"}
               /\ effects' = effects \cup (IF ending = "done" THEN Effect(Skill) ELSE {})
               /\ Finish(Skill, ending)
            \/ /\ ending = "raised"
               /\ effects' \in {effects} \cup (IF Skill = "send_notification"
                                               THEN {effects \cup Effect(Skill)} ELSE {})
               /\ \/ attempt < MaxAttempts /\ attempt' = attempt + 1 /\ UNCHANGED ran
                  \/ attempt = MaxAttempts /\ Finish(Skill, "raised")
      BY <1>3 DEF Invoke
    <2>4. ProcessRefund' = ProcessRefund
      BY <2>1 DEF ProcessRefund
    <2>5. "refund" \in Effect(Skill) <=> agent = "billing" /\ Len(ran) = 1
      BY <2>1, RefundEffect
    <2>6. CASE UNCHANGED ran
      <3>1. "refund" \in effects' <=> "refund" \in effects
        <4>1. ending = "raised"
          <5>1. ~(\E e : Finish(Skill, e))
            BY <2>2, <2>6, OneLonger DEF Finish
          <5> QED BY <2>3, <5>1
        <4>2. Skill = "send_notification" => "refund" \notin Effect(Skill)
          BY <2>1, RefundEffect
        <4> QED BY <2>3, <4>1, <4>2
      <3> QED BY <2>1, <2>4, <2>6, <3>1 DEF RefundInv
    <2>7. CASE Finish(Skill, ending)
      <3> DEFINE step == [skill |-> Skill, ending |-> ending]
      <3>1. /\ ran' = Append(ran, step)
            /\ Len(ran') = Len(ran) + 1
            /\ ran'[Len(ran) + 1] = step
            /\ \A i \in 1 .. Len(ran) : ran'[i] = ran[i]
        BY <2>2, <2>7 DEF Finish
      <3>2. CASE agent = "billing" /\ Len(ran) = 1
        <4>1. "refund" \notin effects
          BY <3>2 DEF RefundInv
        <4>2. Skill = "process_refund" /\ "refund" \in Effect(Skill)
          BY <2>1, <3>2, RefundEffect
        <4>3. ending \in ProcessRefund
          BY <4>2 DEF Invocation
        <4>4. ran'[2].ending = ending /\ Len(ran') = 2
          BY <3>1, <3>2
        <4>5. "refund" \in effects' <=> ending = "done"
          BY <2>3, <4>1, <4>2
        <4> QED BY <2>4, <4>3, <4>4, <4>5 DEF RefundInv
      <3>3. CASE ~(agent = "billing" /\ Len(ran) = 1)
        <4>1. "refund" \in effects' <=> "refund" \in effects
          BY <2>3, <2>5, <3>3
        <4>2. Len(ran) >= 2 => ran'[2] = ran[2] /\ Len(ran') >= 2
          BY <2>2, <3>1
        <4>3. agent = "billing" /\ Len(ran') >= 2 => Len(ran) >= 2
          BY <2>2, <3>1, <3>3, PastOne
        <4> QED BY <2>1, <2>4, <4>1, <4>2, <4>3 DEF RefundInv
      <3> QED BY <3>2, <3>3
    <2> QED BY <2>3, <2>6, <2>7
  <1>4. CASE Submit \/ Decompose \/ Clarify \/ SelfHandle \/ SpecialistNote \/ HandBack
             \/ PlannerNote \/ Respond \/ UNCHANGED vars
    <2>1. UNCHANGED <<request, agent, ran, effects>>
      BY <1>4 DEF Submit, Decompose, Clarify, SelfHandle, SpecialistNote, HandBack,
                  PlannerNote, Respond, vars
    <2> QED BY <1>1, <2>1
  <1> QED BY <1>2, <1>3, <1>4 DEF Next

(* Nothing is refunded without an order and an amount that is not refused, *)
(* and the notice "Your refund has been processed" is false for exactly    *)
(* the requests that process_refund refuses (process_refund.py:11-15,      *)
(* billing_agent.py:46-55).                                                *)
THEOREM RefundsFollowRequests ==
    Spec => [](/\ "refund" \in effects =>
                     request.order /\ request.amount \in {"positive", "null"}
               /\ "refund notice" \in effects =>
                     ("refund" \in effects <=> request.order /\ request.amount # "zero"))
  <1>1. Init => RefundInv
    BY DEF Init, RefundInv
  <1>2. IInv /\ RefundInv /\ [Next]_vars => RefundInv'
    BY RefundStep
  <1>3. IInv /\ RefundInv =>
            /\ "refund" \in effects =>
                  request.order /\ request.amount \in {"positive", "null"}
            /\ "refund notice" \in effects =>
                  ("refund" \in effects <=> request.order /\ request.amount # "zero")
    <2> SUFFICES ASSUME IInv, RefundInv
                 PROVE  /\ "refund" \in effects =>
                              request.order /\ request.amount \in {"positive", "null"}
                        /\ "refund notice" \in effects =>
                              ("refund" \in effects <=>
                                  request.order /\ request.amount # "zero")
      OBVIOUS
    <2>1. request.order \in BOOLEAN /\ request.amount \in {"zero", "null", "positive", "text"}
      BY RequestsAssumption DEF IInv, TypeOK, RequestRecords
    <2>2. ASSUME "refund" \in effects
          PROVE  request.order /\ request.amount \in {"positive", "null"}
      <3>1. agent = "billing"
        BY <2>2, NoticeTyped DEF IInv, EffectsAreItsOwn
      <3>2. "done" \in ProcessRefund
        BY <2>2, <3>1 DEF RefundInv
      <3> QED BY <2>1, <3>2 DEF ProcessRefund
    <2>3. ASSUME "refund notice" \in effects, request.order, request.amount # "zero"
          PROVE  "refund" \in effects
      <3>1. agent = "billing"
        <4>1. agent \in Specialists /\ Notice[agent] = "refund notice"
          BY <2>3 DEF IInv, EffectsAreItsOwn
        <4> QED BY <4>1, NoticesAre DEF Specialists
      <3>2. Notice["billing"] \in effects /\ "billing" \in Specialists
        BY <2>3, NoticesAre DEF Specialists
      <3>3. Len(Plan[agent]) = 3
        BY <3>1, PlansAre
      <3>4. Len(ran) >= 2 /\ ran[2].ending # "raised"
        BY <3>2, <3>3 DEF IInv, NoticesFollowTheWork
      <3>5. ran[2].ending \in ProcessRefund
        BY <3>1, <3>4 DEF RefundInv
      <3>6. ran[2].ending = "done"
        BY <2>1, <2>3, <3>4, <3>5 DEF ProcessRefund
      <3> QED BY <3>1, <3>4, <3>6 DEF RefundInv
    <2> QED BY <2>2, <2>3
  <1> QED BY Invariance, <1>1, <1>2, <1>3, PTL DEF Spec

--------------------------------------------------------------------------------
(* How tickets end.  HappyPathEndsAsExpected is violated by off-topic      *)
(* tickets and by escalated ones; this is how they end.                    *)
T == INSTANCE Trajectories

OffTopic == request.category = "off_topic" /\ ~request.urgent

OffTopicInv ==
    OffTopic =>
        /\ pc \in {"received", "decompose", "clarify", "planner_notes", "answered"}
        /\ pc = "planner_notes" => outcome = "clarification_needed"
        /\ response \in {"none", "blocked", "error", "clarification_needed"}

LEMMA OffTopicStep == OffTopicInv /\ [Next]_vars => OffTopicInv'
  <1> SUFFICES ASSUME OffTopicInv, [Next]_vars, OffTopic' PROVE OffTopicInv'
    BY DEF OffTopicInv
  <1>1. UNCHANGED request /\ OffTopic
    BY DEF Next, vars, Submit, Decompose, Clarify, SelfHandle, Delegate, Invoke,
           SpecialistNote, HandBack, PlannerNote, Respond, OffTopic
  <1>2. CASE Decompose
    <2>1. \A answer : ClarificationNeeded(answer)
      BY <1>1 DEF OffTopic, ClarificationNeeded
    <2>2. pc' = "clarify" /\ UNCHANGED response
      BY <1>2, <2>1 DEF Decompose
    <2> QED BY <1>1, <2>2 DEF OffTopicInv
  <1>3. CASE Submit \/ Clarify \/ PlannerNote \/ Respond
    BY <1>1, <1>3 DEF OffTopicInv, Submit, Clarify, PlannerNote, Respond, Answer
  <1>4. CASE SelfHandle \/ Delegate \/ Invoke \/ SpecialistNote \/ HandBack
    BY <1>1, <1>4 DEF OffTopicInv, SelfHandle, Delegate, Invoke, SpecialistNote, HandBack
  <1>5. CASE UNCHANGED vars
    BY <1>1, <1>5 DEF OffTopicInv, vars
  <1> QED BY <1>2, <1>3, <1>4, <1>5 DEF Next

(* handle answers by category and priority: an off-topic ticket is always  *)
(* asked for clarification, so that _self_handle_node never redirects one, *)
(* and what is delegated is resolved or failed.  The evaluation takes the  *)
(* outcomes of its scenarios from this table (meta_planner.py:83-90,       *)
(* 117-130, 137-151).                                                      *)
THEOREM AnswersFollowTheTable ==
    Spec => [](response \in Outcomes =>
                  response \in T!OutcomesOf(request.category, request.urgent))
  <1>1. Init => OffTopicInv
    BY DEF Init, OffTopicInv
  <1>2. OffTopicInv /\ response \in Outcomes =>
            response \in T!OutcomesOf(request.category, request.urgent)
    BY DEF OffTopicInv, OffTopic, Outcomes, T!OutcomesOf
  <1> QED BY OffTopicStep, <1>1, <1>2, PTL DEF Spec

EscalationInv ==
    agent = "escalation" =>
        /\ pc = "planner_notes" => outcome = "resolved"
        /\ response \in Outcomes => response = "resolved"

LEMMA EscalationStep ==
    ASSUME ~Unreliable, IInv, Documented, EscalationInv, [Next]_vars
    PROVE  EscalationInv'
  <1> SUFFICES ASSUME agent' = "escalation" PROVE EscalationInv'
    BY DEF EscalationInv
  <1>1. pc # "answered" => response \notin Outcomes
    BY DEF Documented, Outcomes
  <1>2. CASE Submit \/ Decompose \/ Clarify \/ SelfHandle
    <2>1. agent = "none" /\ agent' = agent
      BY <1>2 DEF IInv, RouteIsKept, Submit, Decompose, Clarify, SelfHandle
    <2> QED BY <2>1
  <1>3. CASE Delegate
    <2>1. agent = "none" /\ pc = "delegate"
      BY <1>3 DEF IInv, RouteIsKept, Delegate
    <2>2. pc' = "engine" /\ UNCHANGED response
      BY <1>3, <2>1 DEF Delegate
    <2> QED BY <1>1, <2>1, <2>2 DEF EscalationInv
  <1>4. CASE Invoke
    <2>1. pc = "engine" /\ UNCHANGED <<pc, response>>
      BY <1>4 DEF Invoke
    <2> QED BY <1>1, <2>1 DEF EscalationInv
  <1>5. CASE SpecialistNote
    <2>1. pc = "engine" /\ pc' = "hand_back" /\ UNCHANGED response
      BY <1>5 DEF SpecialistNote, Update
    <2> QED BY <1>1, <2>1 DEF EscalationInv
  <1>6. CASE HandBack
    <2>1. pc = "hand_back" /\ agent = "escalation" /\ UNCHANGED response
      BY <1>6 DEF HandBack
    <2>2. Succeeded
      BY <2>1 DEF Succeeded
    <2>3. outcome' = "resolved"
      BY <1>6, <2>2 DEF HandBack, DelegationEnds, Update
    <2> QED BY <1>1, <2>1, <2>3 DEF EscalationInv
  <1>7. CASE PlannerNote
    <2>1. pc = "planner_notes" /\ UNCHANGED <<pc, agent, outcome, response>>
      BY <1>7 DEF PlannerNote, Update
    <2> QED BY <2>1 DEF EscalationInv
  <1>8. CASE Respond
    <2>1. /\ pc = "planner_notes" /\ agent = "escalation" /\ outcome' = outcome
          /\ pc' = "answered" /\ response' = outcome
      BY <1>8 DEF Respond, Answer
    <2> QED BY <2>1 DEF EscalationInv
  <1>9. CASE UNCHANGED vars
    BY <1>9 DEF EscalationInv, vars
  <1> QED BY <1>2, <1>3, <1>4, <1>5, <1>6, <1>7, <1>8, <1>9 DEF Next

(* When nothing fails but the skills, a ticket of the escalation agent is  *)
(* answered as resolved, also if its escalation raised: the agent's        *)
(* verdict, that it is escalated, becomes a Boolean on the way back to the *)
(* planner (escalation_agent.py:55-58, meta_planner.py:145).               *)
THEOREM EscalatedIsAnsweredResolved ==
    ASSUME ~Unreliable
    PROVE  Spec => [](agent = "escalation" /\ response \in Outcomes => response = "resolved")
  <1>1. Init => EscalationInv /\ Documented
    BY DEF Init, EscalationInv, Documented, Outcomes
  <1>2. IInv /\ Documented /\ [Next]_vars => Documented'
    BY DocumentedStep
  <1>3. IInv /\ Documented /\ EscalationInv /\ [Next]_vars => EscalationInv'
    BY EscalationStep
  <1>4. EscalationInv => (agent = "escalation" /\ response \in Outcomes => response = "resolved")
    BY DEF EscalationInv
  <1> QED BY Invariance, <1>1, <1>2, <1>3, <1>4, PTL DEF Spec
===============================================================================
