-------------------------- MODULE SkillRegistryProofs --------------------------
(***************************************************************************)
(* SkillRegistry for any threads, names, skills and thresholds: promotion  *)
(* is earned, and pruning spares built-ins and protected names.            *)
(***************************************************************************)
EXTENDS SkillRegistry, FiniteSetTheorems, TLAPS

(* A thread about to check the rate has seen enough invocations, and the   *)
(* counter has not gone back since.                                        *)
CountStillReached ==
    \A t \in Threads : pc[t] = "rate" => count[skill[t]] >= PromoteAfter

(* What a prune has still to judge is not protected; if it is synthesised, *)
(* its name does not stand for a built-in any more.                        *)
UnjudgedInv ==
    \A t \in Threads : \A s \in unjudged[t] :
        /\ NameOf[s] \notin AlwaysProtected
        /\ s \in Synthesised => registered[NameOf[s]] \notin BuiltIns

(* What a prune is going to delete is neither built-in nor protected.      *)
VictimsInv ==
    \A t \in Threads : \A n \in victims[t] :
        n \notin AlwaysProtected /\ registered[n] \notin BuiltIns

IInv == TypeOK /\ CountStillReached /\ UnjudgedInv /\ VictimsInv

USE NameAssumption, BuiltInAssumption, NoneAssumption, ProtectAssumption,
    ThresholdAssumption

LEMMA InitIInv == Init => IInv
<1> SUFFICES ASSUME Init PROVE IInv
  OBVIOUS
<1>1. ASSUME NEW n \in Names
      PROVE  /\ registered[n] \in Skills \cup {None}
             /\ registered[n] # None => NameOf[registered[n]] = n
  <2>1. CASE RegisteredAtFirst(n) = {}
    BY <2>1 DEF Init
  <2>2. CASE RegisteredAtFirst(n) # {}
    <3>1. registered[n] = CHOOSE s \in RegisteredAtFirst(n) : TRUE
      BY <2>2 DEF Init
    <3>2. registered[n] \in RegisteredAtFirst(n)
      BY <2>2, <3>1
    <3>3. QED
      BY <3>2 DEF RegisteredAtFirst
  <2>3. QED
    BY <2>1, <2>2
<1>2. registered \in [Names -> Skills \cup {None}]
  <2>1. registered = [n \in Names |-> registered[n]]
    BY DEF Init
  <2>2. QED
    BY <1>1, <2>1
<1>3. TypeOK
  BY <1>1, <1>2 DEF Init, TypeOK
<1>4. CountStillReached /\ UnjudgedInv /\ VictimsInv
  BY DEF Init, CountStillReached, UnjudgedInv, VictimsInv
<1>5. QED
  BY <1>3, <1>4 DEF IInv

LEMMA CreditType ==
    ASSUME TypeOK, NEW s \in Skills, NEW success \in BOOLEAN, Credit(s, success)
    PROVE  /\ count' \in [Skills -> Nat]
           /\ good' \in [Skills -> Nat]
           /\ \A r \in Skills : count'[r] >= count[r]
<1>1. count' = [count EXCEPT ![s] = @ + 1]
  BY DEF Credit
<1>2. good' = [good EXCEPT ![s] = @ + 1] \/ good' = good
  BY DEF Credit
<1>3. QED
  BY <1>1, <1>2 DEF TypeOK

(* Executions change neither what the names stand for nor any prune.       *)
LEMMA ExecuteIInv ==
    ASSUME IInv, NEW t \in Threads, Execute(t)
    PROVE  IInv' /\ UNCHANGED <<registered, unjudged, victims>>
<1>1. UNCHANGED <<registered, unjudged, victims>>
  BY DEF Execute, LookUp, Record, CheckCount, CheckRate
<1>2. UnjudgedInv' /\ VictimsInv'
  BY <1>1 DEF IInv, UnjudgedInv, VictimsInv
<1>3. TypeOK' /\ CountStillReached'
  <2>1. ASSUME NEW n \in Names, LookUp(t, n) PROVE TypeOK' /\ CountStillReached'
    BY <2>1 DEF LookUp, Running, IInv, TypeOK, CountStillReached
  <2>2. ASSUME NEW success \in BOOLEAN, Record(t, success)
        PROVE  TypeOK' /\ CountStillReached'
    <3>1. name[t] \in Names /\ registered[name[t]] \in Skills \cup {None}
      BY <2>2 DEF Record, IInv, TypeOK
    <3>2. /\ count' \in [Skills -> Nat] /\ good' \in [Skills -> Nat]
          /\ \A r \in Skills : count'[r] >= count[r]
      <4>1. CASE registered[name[t]] = None
        BY <2>2, <4>1 DEF Record, IInv, TypeOK, Synthesised
      <4>2. CASE registered[name[t]] # None
        BY <2>2, <3>1, <4>2, CreditType DEF Record, IInv
      <4>3. QED
        BY <4>1, <4>2
    <3>3. /\ \A u \in Threads : u # t => pc'[u] = pc[u] /\ skill'[u] = skill[u]
          /\ pc'[t] \in {"idle", "count"}
      BY <2>2 DEF Record, Idle, IInv, TypeOK
    <3>4. TypeOK'
      BY <1>1, <2>2, <3>1, <3>2 DEF Record, Idle, IInv, TypeOK, Synthesised
    <3>5. CountStillReached'
      BY <3>2, <3>3 DEF IInv, TypeOK, CountStillReached
    <3>6. QED
      BY <3>4, <3>5
  <2>3. CASE CheckCount(t)
    BY <2>3 DEF CheckCount, Idle, IInv, TypeOK, CountStillReached
  <2>4. CASE CheckRate(t)
    BY <2>4 DEF CheckRate, Idle, IInv, TypeOK, CountStillReached
  <2>5. QED
    BY <2>1, <2>2, <2>3, <2>4 DEF Execute
<1>4. QED
  BY <1>1, <1>2, <1>3 DEF IInv

(* A skill that is synthesised takes a name over; no name becomes a        *)
(* built-in's again.                                                       *)
LEMMA SynthesiseIInv ==
    ASSUME IInv, NEW s \in Synthesised, Synthesise(s)
    PROVE  IInv' /\ \A n \in Names : registered[n] # None => registered'[n] # None
<1>1. s \in Skills /\ s \notin BuiltIns /\ NameOf[s] \in Names
  BY DEF Synthesised
<1>2. TypeOK'
  BY <1>1 DEF Synthesise, IInv, TypeOK
<1>3. \A n \in Names : registered'[n] = IF n = NameOf[s] THEN s ELSE registered[n]
  BY DEF Synthesise, IInv, TypeOK
<1>4. UnjudgedInv' /\ VictimsInv'
  BY <1>1, <1>3 DEF Synthesise, IInv, TypeOK, UnjudgedInv, VictimsInv
<1>5. CountStillReached'
  BY DEF Synthesise, IInv, CountStillReached
<1>6. QED
  BY <1>1, <1>2, <1>3, <1>4, <1>5 DEF IInv

(* Pruning counts nothing, and deletes no name that is to be spared.       *)
LEMMA PruneIInv ==
    ASSUME IInv, NEW t \in Threads, Prune(t)
    PROVE  /\ IInv'
           /\ UNCHANGED promoted
           /\ \A n \in Names : Spared(n) => registered'[n] # None
<1>1. ASSUME NEW protect \in ProtectLists, PruneStart(t, protect)
      PROVE  IInv' /\ UNCHANGED <<registered, promoted>>
  <2>1. TypeOK'
    BY <1>1 DEF PruneStart, IInv, TypeOK
  <2>2. CountStillReached'
    BY <1>1 DEF PruneStart, IInv, TypeOK, CountStillReached
  <2>3. AlwaysProtected \subseteq protect
    BY DEF AlwaysProtected
  <2>4. UnjudgedInv'
    BY <1>1, <2>3 DEF PruneStart, IInv, TypeOK, UnjudgedInv, Synthesised
  <2>5. VictimsInv'
    BY <1>1 DEF PruneStart, IInv, TypeOK, VictimsInv
  <2>6. QED
    BY <1>1, <2>1, <2>2, <2>4, <2>5 DEF PruneStart, IInv
<1>2. ASSUME NEW s \in Skills, Judge(t, s)
      PROVE  IInv' /\ UNCHANGED <<registered, promoted>>
  <2>1. UNCHANGED <<registered, promoted, count, pc, skill>>
    BY <1>2 DEF Judge, Judgement
  <2>2. TypeOK'
    BY <1>2 DEF Judge, Judgement, IInv, TypeOK
  <2>3. CountStillReached'
    BY <2>1 DEF IInv, CountStillReached
  <2>4. UnjudgedInv'
    BY <1>2, <2>1 DEF Judge, Judgement, IInv, TypeOK, UnjudgedInv
  <2>5. VictimsInv'
    BY <1>2, <2>1 DEF Judge, Judgement, IInv, TypeOK, UnjudgedInv, VictimsInv
  <2>6. QED
    BY <2>1, <2>2, <2>3, <2>4, <2>5 DEF IInv
<1>3. ASSUME NEW n \in Names, DeleteVictim(t, n)
      PROVE  /\ IInv' /\ UNCHANGED promoted
             /\ \A m \in Names : Spared(m) => registered'[m] # None
  <2>1. /\ registered' = [registered EXCEPT ![n] = None]
        /\ n \in victims[t]
        /\ victims' = [victims EXCEPT ![t] = @ \ {n}]
        /\ UNCHANGED <<count, good, promoted, pc, name, skill, unjudged, runs>>
    BY <1>3 DEF DeleteVictim
  <2>2. TypeOK'
    BY <2>1 DEF IInv, TypeOK
  <2>3. \A m \in Names : registered'[m] = IF m = n THEN None ELSE registered[m]
    BY <2>1 DEF IInv, TypeOK
  <2>4. None \notin BuiltIns
    OBVIOUS
  <2>5. CountStillReached' /\ UnjudgedInv' /\ VictimsInv'
    BY <2>1, <2>3, <2>4 DEF IInv, TypeOK, CountStillReached, UnjudgedInv, VictimsInv
  <2>6. ~Spared(n)
    BY <2>1 DEF IInv, VictimsInv, Spared
  <2>7. \A m \in Names : Spared(m) => registered'[m] # None
    BY <2>3, <2>4, <2>6 DEF Spared
  <2>8. QED
    BY <2>1, <2>2, <2>5, <2>7 DEF IInv
<1>4. CASE PruneFails(t) \/ PruneReturns(t)
  <2>1. PruneOver(t)
    BY <1>4 DEF PruneFails, PruneReturns
  <2>2. QED
    BY <2>1 DEF PruneOver, Idle, IInv, TypeOK, CountStillReached, UnjudgedInv,
                VictimsInv, Spared
<1>5. ASSUME UNCHANGED registered
      PROVE  \A n \in Names : Spared(n) => registered'[n] # None
  BY <1>5 DEF Spared
<1>6. QED
  BY <1>1, <1>2, <1>3, <1>4, <1>5 DEF Prune

LEMMA NextIInv == IInv /\ [Next]_vars => IInv'
<1> SUFFICES ASSUME IInv, [Next]_vars PROVE IInv'
  OBVIOUS
<1>1. CASE Next
  BY <1>1, ExecuteIInv, PruneIInv, SynthesiseIInv DEF Next
<1>2. CASE UNCHANGED vars
  BY <1>2 DEF vars, IInv, TypeOK, CountStillReached, UnjudgedInv, VictimsInv
<1>3. QED
  BY <1>1, <1>2

(* The strengthening holds in every reachable state.                       *)
THEOREM Invariance == Spec => []IInv
BY InitIInv, NextIInv, PTL DEF Spec

(* Every variable has its type; a thread that runs or credits a skill has  *)
(* one (registry.py:64-75).                                                *)
THEOREM TypeCorrect == Spec => []TypeOK
<1>1. IInv => TypeOK
  BY DEF IInv
<1>2. QED
  BY <1>1, Invariance, PTL

(* The rate is at least the threshold and so is the number of invocations, *)
(* which was compared earlier (registry.py:72-75).                         *)
LEMMA StepEarnsPromotion ==
    ASSUME IInv, [Next]_vars, NEW s \in Synthesised, s \in promoted' \ promoted
    PROVE  Earned(s)
<1>1. PICK t \in Threads : CheckRate(t)
  <2>1. ASSUME NEW t \in Threads, Execute(t), ~CheckRate(t) PROVE UNCHANGED promoted
    BY <2>1 DEF Execute, LookUp, Record, CheckCount
  <2>2. ASSUME NEW r \in Synthesised, Synthesise(r) PROVE promoted' \subseteq promoted
    BY <2>2 DEF Synthesise
  <2>3. CASE UNCHANGED vars
    BY <2>3 DEF vars
  <2>4. QED
    BY <2>1, <2>2, <2>3, PruneIInv DEF Next
<1>2. /\ s = skill[t] /\ pc[t] = "rate"
      /\ SuccessRateReaches(s, PromoteRate)
  BY <1>1 DEF CheckRate
<1>3. count[s] >= PromoteAfter /\ count[s] \in Nat
  BY <1>2 DEF IInv, TypeOK, CountStillReached, Synthesised
<1>4. QED
  BY <1>2, <1>3 DEF SuccessRateReaches, Earned

(* Promotion is earned, whatever other threads count, prune or synthesise  *)
(* between the two comparisons of can_promote (registry.py:29-33, 72-75).  *)
THEOREM PromotionEarned == Spec => PromotionIsEarned
<1>1. IInv /\ [Next]_vars =>
          [\A s \in Synthesised : s \in promoted' \ promoted => Earned(s)]_vars
  BY StepEarnsPromotion
<1>2. QED
  BY <1>1, Invariance, PTL DEF Spec, PromotionIsEarned

(* No prune deletes a built-in or a protected name, although it deletes by *)
(* name what it judged earlier (registry.py:93-107).                       *)
THEOREM BuiltInsSpared == Spec => PruneSparesBuiltIns
<1>1. IInv /\ [Next]_vars => [\A n \in Names : Spared(n) => registered'[n] # None]_vars
  <2> SUFFICES ASSUME IInv, [Next]_vars, ~UNCHANGED vars, NEW n \in Names, Spared(n)
               PROVE  registered'[n] # None
    OBVIOUS
  <2>1. registered[n] # None
    BY DEF Spared
  <2>2. QED
    BY <2>1, ExecuteIInv, PruneIInv, SynthesiseIInv DEF Next
<1>2. QED
  BY <1>1, Invariance, PTL DEF Spec, PruneSparesBuiltIns

--------------------------------------------------------------------------------
(* Counting.  CreditsInv is CreditsAreRuns with the finiteness that makes  *)
(* its cardinalities numbers.                                              *)
CreditsInv ==
    \A n \in Names :
        /\ IsFiniteSet(Credits(n)) /\ IsFiniteSet(Runners(n))
        /\ Cardinality(Credits(n)) + Cardinality(Runners(n)) <= runs[n]

LEMMA InitCredits == Init => CreditsInv
<1> SUFFICES ASSUME Init, NEW n \in Names
             PROVE  /\ IsFiniteSet(Credits(n)) /\ IsFiniteSet(Runners(n))
                    /\ Cardinality(Credits(n)) + Cardinality(Runners(n)) <= runs[n]
  BY DEF CreditsInv
<1>1. \A s \in Skills : 1 .. count[s] = {}
  BY DEF Init
<1>2. Credits(n) = {}
  BY <1>1 DEF Credits
<1>3. Runners(n) = {}
  BY DEF Init, Runners
<1>4. runs[n] = 0
  BY DEF Init
<1>5. QED
  BY <1>2, <1>3, <1>4, FS_EmptySet

(* Crediting a skill adds one pair to the credits of its name, and none to *)
(* those of other names.                                                   *)
LEMMA OneCredit ==
    ASSUME TypeOK, NEW s \in Skills, NEW success, Credit(s, success), NEW n \in Names
    PROVE  /\ NameOf[s] # n => Credits(n)' = Credits(n)
           /\ NameOf[s] = n => /\ Credits(n)' = Credits(n) \cup {<<s, count[s] + 1>>}
                               /\ <<s, count[s] + 1>> \notin Credits(n)
<1>1. /\ count'[s] = count[s] + 1 /\ count[s] \in Nat
      /\ \A r \in Skills : r # s => count'[r] = count[r]
  BY DEF Credit, TypeOK
<1>2. 1 .. count'[s] = (1 .. count[s]) \cup {count[s] + 1}
  BY <1>1
<1>3. CASE NameOf[s] # n
  BY <1>1, <1>3 DEF Credits
<1>4. CASE NameOf[s] = n
  <2>1. {s} \X (1 .. count'[s]) = ({s} \X (1 .. count[s])) \cup {<<s, count[s] + 1>>}
    BY <1>2
  <2>2. Credits(n)' = Credits(n) \cup {<<s, count[s] + 1>>}
    BY <1>1, <1>4, <2>1 DEF Credits
  <2>3. <<s, count[s] + 1>> \notin Credits(n)
    BY <1>1 DEF Credits
  <2>4. QED
    BY <1>4, <2>2, <2>3
<1>5. QED
  BY <1>3, <1>4

(* A run begins: one more thread runs the name, and the history knows it.  *)
LEMMA LookUpCredits ==
    ASSUME IInv, CreditsInv, NEW t \in Threads, NEW n \in Names, LookUp(t, n)
    PROVE  CreditsInv'
<1> SUFFICES ASSUME NEW m \in Names
             PROVE  /\ IsFiniteSet(Credits(m)') /\ IsFiniteSet(Runners(m)')
                    /\ Cardinality(Credits(m)') + Cardinality(Runners(m)') <= runs'[m]
  BY DEF CreditsInv
<1>1. Credits(m)' = Credits(m)
  BY DEF LookUp, Credits
<1>2. CASE m = n
  <2>1. Runners(m)' = Runners(m) \cup {t} /\ t \notin Runners(m)
    BY <1>2 DEF LookUp, Running, Runners, IInv, TypeOK
  <2>2. runs'[m] = runs[m] + 1
    BY <1>2 DEF LookUp, IInv, TypeOK
  <2>3. /\ IsFiniteSet(Runners(m)')
        /\ Cardinality(Runners(m)') = Cardinality(Runners(m)) + 1
    BY <2>1, FS_AddElement DEF CreditsInv
  <2>4. Cardinality(Runners(m)) \in Nat /\ Cardinality(Credits(m)) \in Nat
    BY FS_CardinalityType DEF CreditsInv
  <2>5. QED
    BY <1>1, <2>2, <2>3, <2>4, runs[m] \in Nat DEF CreditsInv, IInv, TypeOK
<1>3. CASE m # n
  <2>1. Runners(m)' = Runners(m)
    BY <1>3 DEF LookUp, Running, Runners, IInv, TypeOK
  <2>2. runs'[m] = runs[m]
    BY <1>3 DEF LookUp, IInv, TypeOK
  <2>3. QED
    BY <1>1, <2>1, <2>2 DEF CreditsInv
<1>4. QED
  BY <1>2, <1>3

(* A run ends: its thread is gone from the runners of its name, for at     *)
(* most one credit.                                                        *)
LEMMA RecordCredits ==
    ASSUME IInv, CreditsInv, NEW t \in Threads, NEW success \in BOOLEAN, Record(t, success)
    PROVE  CreditsInv'
<1> DEFINE s == registered[name[t]]
<1>1. /\ pc[t] = "run" /\ name[t] \in Names /\ s \in Skills \cup {None}
      /\ s # None => NameOf[s] = name[t]
  BY DEF Record, IInv, TypeOK
<1> SUFFICES ASSUME NEW m \in Names
             PROVE  /\ IsFiniteSet(Credits(m)') /\ IsFiniteSet(Runners(m)')
                    /\ Cardinality(Credits(m)') + Cardinality(Runners(m)') <= runs'[m]
  BY DEF CreditsInv
<1>2. runs'[m] = runs[m]
  BY DEF Record
<1>3. /\ pc'[t] \in {"idle", "count"}
      /\ \A u \in Threads : u # t => pc'[u] = pc[u] /\ name'[u] = name[u]
  BY DEF Record, Idle, IInv, TypeOK
<1>4. Runners(m)' = Runners(m) \ {t}
  BY <1>3 DEF Runners
<1>5. t \in Runners(m) <=> m = name[t]
  BY <1>1 DEF Runners
<1>6. /\ IsFiniteSet(Runners(m)') /\ IsFiniteSet(Runners(m)) /\ IsFiniteSet(Credits(m))
      /\ Cardinality(Runners(m)') = IF m = name[t] THEN Cardinality(Runners(m)) - 1
                                                   ELSE Cardinality(Runners(m))
  BY <1>4, <1>5, FS_RemoveElement DEF CreditsInv
<1>7. /\ Cardinality(Runners(m)) \in Nat /\ Cardinality(Credits(m)) \in Nat
      /\ Cardinality(Credits(m)) + Cardinality(Runners(m)) <= runs[m]
  BY <1>6, FS_CardinalityType DEF CreditsInv
<1>8. CASE s = None
  <2>1. UNCHANGED count
    BY <1>8 DEF Record, IInv, TypeOK, Synthesised
  <2>2. Credits(m)' = Credits(m)
    BY <2>1 DEF Credits
  <2>3. QED
    BY <1>2, <1>6, <1>7, <2>2, runs[m] \in Nat DEF IInv, TypeOK
<1>9. CASE s # None
  <2>1. s \in Skills /\ Credit(s, success) /\ NameOf[s] = name[t]
    BY <1>1, <1>9 DEF Record
  <2>2. CASE m = name[t]
    <3>1. Credits(m)' = Credits(m) \cup {<<s, count[s] + 1>>} /\ <<s, count[s] + 1>> \notin Credits(m)
      BY <2>1, <2>2, OneCredit DEF IInv
    <3>2. IsFiniteSet(Credits(m)') /\ Cardinality(Credits(m)') = Cardinality(Credits(m)) + 1
      <4>1. ASSUME NEW credits, IsFiniteSet(credits), NEW c, c \notin credits
            PROVE  IsFiniteSet(credits \cup {c})
                   /\ Cardinality(credits \cup {c}) = Cardinality(credits) + 1
        BY <4>1, FS_AddElement
      <4>2. QED
        BY <1>6, <3>1, <4>1
    <3>3. QED
      BY <1>2, <1>6, <1>7, <2>2, <3>2
  <2>3. CASE m # name[t]
    <3>1. Credits(m)' = Credits(m)
      BY <2>1, <2>3, OneCredit DEF IInv
    <3>2. QED
      BY <1>2, <1>6, <1>7, <2>3, <3>1
  <2>4. QED
    BY <2>2, <2>3
<1>10. QED
  BY <1>8, <1>9

(* Nothing else counts, or starts or ends a run.                           *)
LEMMA OthersCredit ==
    ASSUME CreditsInv, UNCHANGED <<count, runs>>, \A n \in Names : Runners(n)' = Runners(n)
    PROVE  CreditsInv'
<1>1. \A n \in Names : Credits(n)' = Credits(n)
  BY DEF Credits
<1>2. QED
  BY <1>1 DEF CreditsInv

LEMMA NextCredits == IInv /\ CreditsInv /\ [Next]_vars => CreditsInv'
<1> SUFFICES ASSUME IInv, CreditsInv, [Next]_vars PROVE CreditsInv'
  OBVIOUS
<1>1. ASSUME NEW t \in Threads, CheckCount(t) \/ CheckRate(t) PROVE CreditsInv'
  <2>1. UNCHANGED <<count, runs>>
    BY <1>1 DEF CheckCount, CheckRate
  <2>2. /\ pc[t] # "run" /\ pc'[t] # "run"
        /\ \A u \in Threads : u # t => pc'[u] = pc[u] /\ name'[u] = name[u]
    BY <1>1 DEF CheckCount, CheckRate, Idle, IInv, TypeOK
  <2>3. QED
    BY <2>1, <2>2, OthersCredit DEF Runners
<1>2. ASSUME NEW t \in Threads, Prune(t) PROVE CreditsInv'
  <2>1. UNCHANGED <<count, runs>>
    BY <1>2 DEF Prune, PruneStart, Judge, Judgement, DeleteVictim, PruneFails, PruneReturns,
                PruneOver
  <2>2. /\ pc[t] # "run" /\ pc'[t] # "run"
        /\ \A u \in Threads : u # t => pc'[u] = pc[u] /\ name'[u] = name[u]
    BY <1>2 DEF Prune, PruneStart, Judge, Judgement, DeleteVictim, PruneFails, PruneReturns,
                PruneOver, Deleting, Idle, IInv, TypeOK
  <2>3. QED
    BY <2>1, <2>2, OthersCredit DEF Runners
<1>3. ASSUME NEW s \in Synthesised, Synthesise(s) PROVE CreditsInv'
  BY <1>3, OthersCredit DEF Synthesise, Runners
<1>4. CASE UNCHANGED vars
  BY <1>4, OthersCredit DEF vars, Runners
<1>5. QED
  BY <1>1, <1>2, <1>3, <1>4, LookUpCredits, RecordCredits DEF Next, Execute

(* The credits of a name and the threads that still run it are never more  *)
(* than the executions of it that have begun, for any number of threads,   *)
(* skills and names (registry.py:64-70, execution_engine.py:94-101).       *)
THEOREM CreditsNeverExceedRuns == Spec => []CreditsAreRuns
<1>1. CreditsInv => CreditsAreRuns
  BY DEF CreditsInv, CreditsAreRuns
<1>2. QED
  BY <1>1, InitCredits, NextCredits, Invariance, PTL DEF Spec

(* Counters only grow, so that a promoted skill keeps the count which      *)
(* earned the promotion.                                                   *)
PromotedHaveCount == \A s \in Synthesised \cap promoted : count[s] >= PromoteAfter

LEMMA CountersOnlyGrow ==
    ASSUME IInv, [Next]_vars, NEW s \in Skills
    PROVE  count'[s] >= count[s]
<1>1. count[s] \in Nat
  BY DEF IInv, TypeOK
<1>2. CASE UNCHANGED count
  BY <1>1, <1>2
<1>3. ASSUME NEW t \in Threads, NEW success \in BOOLEAN, Record(t, success), ~UNCHANGED count
      PROVE  count'[s] >= count[s]
  <2>1. name[t] \in Names /\ registered[name[t]] \in Skills \cup {None}
    BY <1>3 DEF Record, IInv, TypeOK
  <2>2. Credit(registered[name[t]], success)
    BY <1>3 DEF Record
  <2>3. registered[name[t]] # None
    BY <1>3 DEF Record, IInv, TypeOK, Synthesised
  <2>4. QED
    BY <2>1, <2>2, <2>3, CreditType DEF IInv
<1>4. QED
  BY <1>2, <1>3 DEF Next, Execute, LookUp, CheckCount, CheckRate, Prune, PruneStart, Judge,
                    Judgement, DeleteVictim, PruneFails, PruneReturns, PruneOver, Synthesise,
                    vars

LEMMA PromotedCounted == Spec => []PromotedHaveCount
<1>1. Init => PromotedHaveCount
  BY DEF Init, PromotedHaveCount, Synthesised
<1>2. IInv /\ PromotedHaveCount /\ [Next]_vars => PromotedHaveCount'
  <2> SUFFICES ASSUME IInv, PromotedHaveCount, [Next]_vars, NEW s \in Synthesised, s \in promoted'
               PROVE  count'[s] >= PromoteAfter
    BY DEF PromotedHaveCount, Synthesised
  <2>1. s \in Skills /\ count'[s] >= count[s] /\ count[s] \in Nat /\ count'[s] \in Nat
    BY CountersOnlyGrow, NextIInv DEF Synthesised, IInv, TypeOK
  <2>2. count[s] >= PromoteAfter
    BY StepEarnsPromotion DEF PromotedHaveCount, Earned
  <2>3. QED
    BY <2>1, <2>2
<1>3. QED
  BY <1>1, <1>2, Invariance, PTL DEF Spec

(* A skill's count is the number of its own pairs among the credits.       *)
LEMMA CountIsCredited ==
    ASSUME IInv, CreditsInv, NEW s \in Skills
    PROVE  count[s] <= Cardinality(Credits(NameOf[s]))
<1> DEFINE own == {s} \X (1 .. count[s])
<1>1. count[s] \in Nat /\ NameOf[s] \in Names
  BY DEF IInv, TypeOK
<1>2. Cardinality(own) = count[s]
  <2>1. IsFiniteSet({s}) /\ Cardinality({s}) = 1
    BY FS_Singleton
  <2>2. IsFiniteSet(1 .. count[s]) /\ Cardinality(1 .. count[s]) = count[s]
    <3>1. ASSUME NEW k \in Nat PROVE IsFiniteSet(1 .. k) /\ Cardinality(1 .. k) = k
      <4>1. /\ IsFiniteSet(1 .. k)
            /\ Cardinality(1 .. k) = IF 1 > k THEN 0 ELSE k - 1 + 1
        BY 1 \in Int, k \in Int, FS_Interval, Zenon
      <4>2. QED
        BY <4>1
    <3>2. QED
      BY <1>1, <3>1
  <2>3. QED
    BY <1>1, <2>1, <2>2, FS_Product
<1>3. own \in SUBSET Credits(NameOf[s])
  BY DEF Credits
<1>4. IsFiniteSet(Credits(NameOf[s]))
  BY <1>1 DEF CreditsInv
<1> HIDE DEF own
<1>5. QED
  BY <1>2, <1>3, <1>4, FS_Subset

(* Promotion takes as many ended executions of the name as the threshold   *)
(* says, however threads, prunes and new skills interleave                 *)
(* (registry.py:29-33, 64-75).                                             *)
THEOREM PromotionTakesRuns == Spec => []PromotedHaveRuns
<1>1. IInv /\ CreditsInv /\ PromotedHaveCount => PromotedHaveRuns
  <2> SUFFICES ASSUME IInv, CreditsInv, PromotedHaveCount, NEW s \in Synthesised \cap promoted
               PROVE  PromoteAfter <= runs[NameOf[s]] - Cardinality(Runners(NameOf[s]))
    BY DEF PromotedHaveRuns
  <2>1. s \in Skills /\ NameOf[s] \in Names /\ count[s] \in Nat
    BY DEF Synthesised, IInv, TypeOK
  <2>2. /\ Cardinality(Credits(NameOf[s])) + Cardinality(Runners(NameOf[s])) <= runs[NameOf[s]]
        /\ Cardinality(Credits(NameOf[s])) \in Nat /\ Cardinality(Runners(NameOf[s])) \in Nat
    BY <2>1, FS_CardinalityType DEF CreditsInv
  <2>3. count[s] <= Cardinality(Credits(NameOf[s])) /\ count[s] >= PromoteAfter
    BY <2>1, CountIsCredited DEF PromotedHaveCount
  <2>4. runs[NameOf[s]] \in Nat
    BY <2>1 DEF IInv, TypeOK
  <2>5. QED
    BY <2>1, <2>2, <2>3, <2>4
<1>2. QED
  BY <1>1, InitCredits, NextCredits, PromotedCounted, Invariance, PTL DEF Spec
================================================================================
