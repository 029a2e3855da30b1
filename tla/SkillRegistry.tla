----------------------------- MODULE SkillRegistry -----------------------------
(***************************************************************************)
(* SkillRegistry (skills/registry.py), which every request thread and      *)
(* every session of the UI share, and the way the execution engine uses it *)
(* (skills/execution_engine.py:72-101): threads run skills and record how  *)
(* that ended, synthesise skills, and prune.                               *)
(*                                                                         *)
(* A step ends where CPython 3.11 may switch threads: where a Python       *)
(* function is entered and where a loop repeats.  `meta.count += 1` has no *)
(* such point; the calls of can_promote and success_rate, and every turn   *)
(* of prune_unused's loops, have one.                                      *)
(***************************************************************************)
EXTENDS FiniteSets, Integers

CONSTANTS
    Threads,
    Names,
    Skills,          \* SkillMetadata objects
    BuiltIns,        \* those that build_default_registry registers, ungated
    NameOf,          \* the name of each skill
    ProtectLists,    \* the names that a call of prune_unused may protect
    None,            \* no skill
    PromoteAfter,    \* GATING_MIN_INVOCATIONS, 10 in the code
    PromoteRate,     \* GATING_MIN_SUCCESS_RATE in percent, 85 in the code
    PruneAfter,      \* min_invocations of prune_unused, 5 in the code
    PruneRate,       \* min_success_rate of prune_unused in percent, 50 in the code
    MaxRuns          \* bound: how often a name is run

ASSUME NameAssumption == NameOf \in [Skills -> Names]
ASSUME BuiltInAssumption ==
    /\ BuiltIns \subseteq Skills
    /\ \A r, s \in BuiltIns : NameOf[r] = NameOf[s] => r = s
ASSUME NoneAssumption == None \notin Skills
ASSUME ProtectAssumption == ProtectLists \subseteq SUBSET Names
ASSUME ThresholdAssumption ==
    /\ {PromoteAfter, PruneAfter, MaxRuns} \subseteq Nat \ {0}
    /\ {PromoteRate, PruneRate} \subseteq 0 .. 100

VARIABLES
    registered,   \* _skills: the skill that each name stands for
    count,        \* invocation_count of each skill
    good,         \* success_count of each skill
    promoted,     \* the skills with is_promoted
    pc,           \* what each thread does
    name,         \* the name whose skill it runs
    skill,        \* the skill that it runs, later the one it credits
    unjudged,     \* prune_unused: the items its loop has still to look at
    victims,      \* prune_unused: to_prune, without what it has deleted
    runs          \* history: how often an execution of a name has begun

vars == <<registered, count, good, promoted, pc, name, skill, unjudged, victims, runs>>

(* Synthesised skills are the gated ones; synthesise_skill sees to it.     *)
Synthesised == Skills \ BuiltIns

TypeOK ==
    /\ registered \in [Names -> Skills \cup {None}]
    /\ \A n \in Names : registered[n] # None => NameOf[registered[n]] = n
    /\ count \in [Skills -> Nat]
    /\ good \in [Skills -> Nat]
    /\ promoted \in SUBSET Skills
    /\ pc \in [Threads -> {"idle", "run", "count", "rate", "prune"}]
    /\ name \in [Threads -> Names \cup {None}]
    /\ skill \in [Threads -> Skills \cup {None}]
    /\ \A t \in Threads : pc[t] \in {"run", "count", "rate"} => skill[t] # None
    /\ \A t \in Threads : pc[t] = "run" => name[t] \in Names
    /\ unjudged \in [Threads -> SUBSET Skills]
    /\ victims \in [Threads -> SUBSET Names]
    /\ runs \in [Names -> Nat]

RegisteredAtFirst(n) == {s \in BuiltIns : NameOf[s] = n}

Init ==
    /\ registered = [n \in Names |-> IF RegisteredAtFirst(n) = {} THEN None
                                     ELSE CHOOSE s \in RegisteredAtFirst(n) : TRUE]
    /\ count = [s \in Skills |-> 0]
    /\ good = [s \in Skills |-> 0]
    /\ promoted = BuiltIns
    /\ pc = [t \in Threads |-> "idle"]
    /\ name = [t \in Threads |-> None]
    /\ skill = [t \in Threads |-> None]
    /\ unjudged = [t \in Threads |-> {}]
    /\ victims = [t \in Threads |-> {}]
    /\ runs = [n \in Names |-> 0]

--------------------------------------------------------------------------------
(* Running a skill.                                                        *)

Running(t, n, s) ==
    /\ pc' = [pc EXCEPT ![t] = "run"]
    /\ name' = [name EXCEPT ![t] = n]
    /\ skill' = [skill EXCEPT ![t] = s]

(* Mutant: the entry is used without a look at what get returned.          *)
LookUpUnchecked(t, n) ==
    /\ pc[t] = "idle" /\ runs[n] < MaxRuns
    /\ Running(t, n, registered[n])
    /\ runs' = [runs EXCEPT ![n] = @ + 1]
    /\ UNCHANGED <<registered, count, good, promoted, unjudged, victims>>

(* _execute_step gets the skill and runs it, with neither gating_enabled   *)
(* nor is_promoted looked at.  A missing skill is a failed step that       *)
(* leaves the registry alone.                                              *)
LookUp(t, n) ==
    /\ pc[t] = "idle" /\ runs[n] < MaxRuns
    /\ registered[n] # None
    /\ Running(t, n, registered[n])
    /\ runs' = [runs EXCEPT ![n] = @ + 1]
    /\ UNCHANGED <<registered, count, good, promoted, unjudged, victims>>

Idle(t) ==
    /\ pc' = [pc EXCEPT ![t] = "idle"]
    /\ name' = [name EXCEPT ![t] = None]
    /\ skill' = [skill EXCEPT ![t] = None]

Credit(s, success) ==
    /\ count' = [count EXCEPT ![s] = @ + 1]
    /\ good' = IF success THEN [good EXCEPT ![s] = @ + 1] ELSE good

(* Mutant: invocations are recorded in the retry loop, attempt by attempt. *)
RecordEveryAttempt(t, success) ==
    /\ pc[t] = "run"
    /\ registered[name[t]] # None
    /\ Credit(registered[name[t]], success)
    /\ IF success THEN Idle(t) ELSE UNCHANGED <<pc, name, skill>>
    /\ UNCHANGED <<registered, promoted, unjudged, victims, runs>>

(* record_invocation up to the call of can_promote.  It looks the name up  *)
(* again, so it credits the skill that has the name by now, if one has.    *)
Record(t, success) ==
    /\ pc[t] = "run"
    /\ LET s == registered[name[t]]
       IN  \/ /\ s = None
              /\ Idle(t)
              /\ UNCHANGED <<count, good>>
           \/ /\ s \in BuiltIns \cup promoted
              /\ Credit(s, success)
              /\ Idle(t)
           \/ /\ s \in Synthesised \ promoted
              /\ Credit(s, success)
              /\ pc' = [pc EXCEPT ![t] = "count"]
              /\ skill' = [skill EXCEPT ![t] = s]
              /\ name' = [name EXCEPT ![t] = None]
    /\ UNCHANGED <<registered, promoted, unjudged, victims, runs>>

(* Mutant: can_promote compares the rate only.                             *)
CheckCountForgotten(t) ==
    /\ pc[t] = "count"
    /\ pc' = [pc EXCEPT ![t] = "rate"]
    /\ UNCHANGED <<name, skill, registered, count, good, promoted, unjudged, victims, runs>>

(* can_promote compares the number of invocations ...                      *)
CheckCount(t) ==
    /\ pc[t] = "count"
    /\ IF count[skill[t]] >= PromoteAfter
       THEN pc' = [pc EXCEPT ![t] = "rate"] /\ UNCHANGED <<name, skill>>
       ELSE Idle(t)
    /\ UNCHANGED <<registered, count, good, promoted, unjudged, victims, runs>>

(* success_rate >= min_success_rate; the rate is 0.0 without invocations.  *)
(* No float is between 0.85 and a quotient of counts that is not 0.85.     *)
RateAtLeast(s, percent) == 100 * good[s] >= percent * count[s]

SuccessRateReaches(s, percent) ==
    IF count[s] = 0 THEN percent = 0 ELSE RateAtLeast(s, percent)

(* ... and then the success rate, as it is by now.                         *)
CheckRate(t) ==
    /\ pc[t] = "rate"
    /\ promoted' = IF SuccessRateReaches(skill[t], PromoteRate)
                   THEN promoted \cup {skill[t]} ELSE promoted
    /\ Idle(t)
    /\ UNCHANGED <<registered, count, good, unjudged, victims, runs>>

--------------------------------------------------------------------------------
(* Mutant: a skill that is synthesised again starts with fresh counters.   *)
SynthesiseAfresh(s) ==
    /\ registered' = [registered EXCEPT ![NameOf[s]] = s]
    /\ promoted' = promoted \ {s}
    /\ count' = [count EXCEPT ![s] = 0]
    /\ good' = [good EXCEPT ![s] = 0]
    /\ UNCHANGED <<pc, name, skill, unjudged, victims, runs>>

(* synthesise_skill, from any caller: it takes over the name, also a       *)
(* built-in's, and a skill given to it again keeps its counters.           *)
Synthesise(s) ==
    /\ registered' = [registered EXCEPT ![NameOf[s]] = s]
    /\ promoted' = promoted \ {s}
    /\ UNCHANGED <<count, good, pc, name, skill, unjudged, victims, runs>>

--------------------------------------------------------------------------------
(* prune_unused: a copy of the items, a loop that judges them, a loop that *)
(* deletes.  The items are judged and deleted in any order, of which       *)
(* insertion order is one.                                                 *)
PruneStart(t, protect) ==
    /\ pc[t] = "idle"
    /\ pc' = [pc EXCEPT ![t] = "prune"]
    /\ unjudged' = [unjudged EXCEPT ![t] =
                       {s \in Skills : /\ NameOf[s] \notin protect
                                       /\ registered[NameOf[s]] = s}]
    /\ victims' = [victims EXCEPT ![t] = {}]
    /\ UNCHANGED <<registered, count, good, promoted, name, skill, runs>>

Useless(s) ==
    \/ count[s] >= PruneAfter /\ ~SuccessRateReaches(s, PruneRate)
    \/ count[s] = 0

Judgement(t, s, condemned) ==
    /\ pc[t] = "prune" /\ s \in unjudged[t]
    /\ unjudged' = [unjudged EXCEPT ![t] = @ \ {s}]
    /\ victims' = [victims EXCEPT ![t] = IF condemned THEN @ \cup {NameOf[s]} ELSE @]
    /\ UNCHANGED <<registered, count, good, promoted, pc, name, skill, runs>>

(* Mutant: the condition on gating_enabled is gone.                        *)
JudgeUngated(t, s) == Judgement(t, s, Useless(s))

Judge(t, s) == Judgement(t, s, s \in Synthesised /\ Useless(s))

Deleting(t) == pc[t] = "prune" /\ unjudged[t] = {}

(* The deletion is by name, of the skill that has the name by now.         *)
DeleteVictim(t, n) ==
    /\ Deleting(t) /\ n \in victims[t]
    /\ registered[n] # None
    /\ registered' = [registered EXCEPT ![n] = None]
    /\ victims' = [victims EXCEPT ![t] = @ \ {n}]
    /\ UNCHANGED <<count, good, promoted, pc, name, skill, unjudged, runs>>

PruneOver(t) ==
    /\ Idle(t)
    /\ victims' = [victims EXCEPT ![t] = {}]
    /\ UNCHANGED <<registered, count, good, promoted, unjudged, runs>>

(* KeyError: another prune has deleted the name.  What this one has not    *)
(* deleted yet stays.                                                      *)
PruneFails(t) ==
    /\ Deleting(t)
    /\ \E n \in victims[t] : registered[n] = None
    /\ PruneOver(t)

PruneReturns(t) ==
    /\ Deleting(t)
    /\ victims[t] = {}
    /\ PruneOver(t)

--------------------------------------------------------------------------------
Execute(t) ==
    \/ \E n \in Names : LookUp(t, n)
    \/ \E success \in BOOLEAN : Record(t, success)
    \/ CheckCount(t)
    \/ CheckRate(t)

Prune(t) ==
    \/ \E protect \in ProtectLists : PruneStart(t, protect)
    \/ \E s \in Skills : Judge(t, s)
    \/ \E n \in Names : DeleteVictim(t, n)
    \/ PruneFails(t)
    \/ PruneReturns(t)

Next ==
    \/ \E t \in Threads : Execute(t) \/ Prune(t)
    \/ \E s \in Synthesised : Synthesise(s)

Spec == Init /\ [][Next]_vars

--------------------------------------------------------------------------------
(* The invocations that the skills of a name have been credited with, and  *)
(* the threads that run one of them.                                       *)
Credits(n) == UNION {{s} \X (1 .. count[s]) : s \in {r \in Skills : NameOf[r] = n}}
Runners(n) == {t \in Threads : pc[t] = "run" /\ name[t] = n}

(* However executions, prunes and new skills interleave, an execution of a *)
(* name adds at most one invocation, to a skill of that name, and none     *)
(* before it has ended (registry.py:64-70, execution_engine.py:94-101).    *)
CreditsAreRuns ==
    \A n \in Names : Cardinality(Credits(n)) + Cardinality(Runners(n)) <= runs[n]

(* A synthesised skill is promoted only when that many executions of its   *)
(* name have ended, whatever has happened to the name and the counters in  *)
(* between (registry.py:29-33, 64-75): it shows what the thresholds are    *)
(* worth if invocations are counted by name.                               *)
PromotedHaveRuns ==
    \A s \in Synthesised \cap promoted :
        PromoteAfter <= runs[NameOf[s]] - Cardinality(Runners(NameOf[s]))

Earned(s) == count[s] >= PromoteAfter /\ RateAtLeast(s, PromoteRate)

(* A synthesised skill is promoted only when both thresholds hold at the   *)
(* same moment, although can_promote reads the counters at two moments and *)
(* other threads count in between (registry.py:29-33, 72-75).              *)
PromotionIsEarned ==
    [][\A s \in Synthesised : s \in promoted' \ promoted => Earned(s)]_vars

AlwaysProtected == {n \in Names : \A protect \in ProtectLists : n \in protect}

(* A built-in goes only when a synthesised skill takes its name, and a     *)
(* protected name never loses its skill: prune judges one object, deletes  *)
(* by name later, and still hits neither (registry.py:93-107).             *)
Spared(n) == registered[n] \in BuiltIns \/ (n \in AlwaysProtected /\ registered[n] # None)

PruneSparesBuiltIns == [][\A n \in Names : Spared(n) => registered'[n] # None]_vars
================================================================================
