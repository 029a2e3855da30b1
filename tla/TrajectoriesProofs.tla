-------------------------- MODULE TrajectoriesProofs --------------------------
(***************************************************************************)
(* Theorems about the measures of Trajectories for trajectories of any     *)
(* length, any tools and any number of failed calls: what the runs meet    *)
(* are the planner's trajectories, which hold no calls, but specialists    *)
(* and tests have others, and the functions do not look where one comes    *)
(* from.                                                                   *)
(***************************************************************************)
EXTENDS Trajectories, FiniteSetTheorems, TLAPS

CONSTANT Tools   \* the names of skills

AllTrajectories ==
    [calls : Seq([tool : Tools, failed : BOOLEAN]), outcome : Outcomes, latency : Latencies]

-------------------------------------------------------------------------------
(* The failed calls of a trajectory are some of its calls.                 *)
LEMMA FailuresCounted ==
    ASSUME NEW tr \in AllTrajectories
    PROVE  IsFiniteSet(Failures(tr)) /\ Cardinality(Failures(tr)) \in Nat
<1>1. DOMAIN tr.calls = 1 .. Len(tr.calls) /\ Len(tr.calls) \in Nat
  BY DEF AllTrajectories
<1>2. IsFiniteSet(1 .. Len(tr.calls))
  BY <1>1, 1 \in Int, FS_Interval
<1>3. Failures(tr) \subseteq 1 .. Len(tr.calls)
  BY <1>1 DEF Failures
<1>4. IsFiniteSet(Failures(tr))
  BY <1>2, <1>3, FS_Subset
<1>5. QED
  BY <1>4, FS_CardinalityType

LEMMA RewardParts ==
    ASSUME NEW tr \in AllTrajectories
    PROVE  /\ RewardBase(tr) \in Nat /\ RewardBase(tr) >= 1
           /\ ResolutionSuccess(tr) \in {0, 250, 500}
           /\ ResolutionSuccess(tr) = 500 <=> tr.outcome = "resolved"
           /\ ErrorPenalty(tr) \in Int /\ ErrorPenalty(tr) <= 0
           /\ LatencyReward(tr) \in {-10, 0, 10}
<1>1. RewardBase(tr) \in Nat /\ RewardBase(tr) >= 1
  <2>1. tr.calls \in Seq([tool : Tools, failed : BOOLEAN])
    BY DEF AllTrajectories
  <2>2. CASE tr.calls = <<>>
    BY <2>2 DEF RewardBase
  <2>3. CASE tr.calls # <<>>
    <3>1. Len(tr.calls) \in Nat /\ Len(tr.calls) # 0
      BY <2>1, <2>3
    <3>2. QED
      BY <2>3, <3>1 DEF RewardBase
  <2>4. QED
    BY <2>2, <2>3
<1>2. /\ ResolutionSuccess(tr) \in {0, 250, 500}
      /\ ResolutionSuccess(tr) = 500 <=> tr.outcome = "resolved"
  <2>1. CASE tr.outcome = "resolved" BY <2>1 DEF ResolutionSuccess
  <2>2. CASE tr.outcome = "escalated" BY <2>2 DEF ResolutionSuccess
  <2>3. CASE tr.outcome \notin {"resolved", "escalated"} BY <2>3 DEF ResolutionSuccess
  <2>4. QED
    BY <2>1, <2>2, <2>3
<1>3. ErrorPenalty(tr) \in Int /\ ErrorPenalty(tr) <= 0
  <2>1. PICK n \in Nat : Cardinality(Failures(tr)) = n
    BY FailuresCounted
  <2>2. QED
    BY <2>1 DEF ErrorPenalty
<1>4. LatencyReward(tr) \in {-10, 0, 10}
  <2>1. CASE tr.latency = "fast" BY <2>1 DEF LatencyReward
  <2>2. CASE tr.latency = "slow" BY <2>2 DEF LatencyReward
  <2>3. CASE tr.latency \notin {"fast", "slow"} BY <2>3 DEF LatencyReward
  <2>4. QED
    BY <2>1, <2>2, <2>3
<1>5. QED
  BY <1>1, <1>2, <1>3, <1>4

(* The reward as a number of thousandths over its base.                    *)
LEMMA RewardIs ==
    ASSUME NEW tr \in AllTrajectories
    PROVE  /\ CompositeReward(tr).den = RewardBase(tr)
           /\ CompositeReward(tr).num =
                 Clamped((ResolutionSuccess(tr) + ErrorPenalty(tr) + LatencyReward(tr))
                                * RewardBase(tr)
                            + 200 * Lesser(RewardBase(tr), 3),
                         1000 * RewardBase(tr))
  BY DEF CompositeReward

LEMMA TimesBase ==
    ASSUME NEW n \in Nat, NEW a \in Int, NEW b \in Int, n >= 1, a <= b
    PROVE  a * n \in Int /\ b * n \in Int /\ a * n <= b * n
  OBVIOUS

-------------------------------------------------------------------------------
(* The training reward is a fraction between -1 and 1, also of no calls    *)
(* and of any number of failures (reward_functions.py:57-70).              *)
THEOREM RewardIsBounded ==
    ASSUME NEW tr \in AllTrajectories
    PROVE  LET reward == CompositeReward(tr)
           IN /\ reward.den \in Nat \ {0}
              /\ -1000 * reward.den <= reward.num
              /\ reward.num <= 1000 * reward.den
<1>n. PICK n \in Nat : n = RewardBase(tr) /\ n >= 1
  BY RewardParts
<1>r. PICK r \in {0, 250, 500} :
          r = ResolutionSuccess(tr) /\ (r = 500 <=> tr.outcome = "resolved")
  BY RewardParts
<1>e. PICK e \in Int : e = ErrorPenalty(tr) /\ e <= 0
  BY RewardParts
<1>l. PICK l \in {-10, 0, 10} : l = LatencyReward(tr)
  BY RewardParts
<1>1. /\ CompositeReward(tr).den = n
      /\ CompositeReward(tr).num =
            Clamped((r + e + l) * n + 200 * Lesser(n, 3), 1000 * n)
  BY <1>n, <1>r, <1>e, <1>l, RewardIs
<1>2. PICK x \in Int : x = (r + e + l) * n + 200 * Lesser(n, 3)
  BY DEF Lesser
<1>3. Clamped(x, 1000 * n) \in Int
      /\ -(1000 * n) <= Clamped(x, 1000 * n) /\ Clamped(x, 1000 * n) <= 1000 * n
  BY <1>1 DEF Clamped
<1>4. QED
  BY <1>n, <1>1, <1>2, <1>3

(* Whatever a trajectory did, it is a chosen answer of the dataset only if *)
(* its ticket was resolved: no escalation is efficient or fast enough to   *)
(* be preferred (reward_functions.py:8-14, 57-68, offline_rl.py:51).       *)
THEOREM OnlyResolvedIsChosen ==
    ASSUME NEW tr \in AllTrajectories, IsChosen(CompositeReward(tr))
    PROVE  tr.outcome = "resolved"
<1>n. PICK n \in Nat : n = RewardBase(tr) /\ n >= 1
  BY RewardParts
<1>r. PICK r \in {0, 250, 500} :
          r = ResolutionSuccess(tr) /\ (r = 500 <=> tr.outcome = "resolved")
  BY RewardParts
<1>e. PICK e \in Int : e = ErrorPenalty(tr) /\ e <= 0
  BY RewardParts
<1>l. PICK l \in {-10, 0, 10} : l = LatencyReward(tr)
  BY RewardParts
<1>1. /\ CompositeReward(tr).den = n
      /\ CompositeReward(tr).num =
            Clamped((r + e + l) * n + 200 * Lesser(n, 3), 1000 * n)
  BY <1>n, <1>r, <1>e, <1>l, RewardIs
<1> SUFFICES ASSUME r <= 250 PROVE FALSE
  BY <1>r
<1>2. (r + e + l) * n <= 260 * n /\ (r + e + l) * n \in Int
  <2>1. r + e + l \in Int /\ r + e + l <= 260
    BY <1>e
  <2>2. QED
    BY <1>n, <2>1, TimesBase
<1>3. 200 * Lesser(n, 3) <= 200 * n /\ 200 * Lesser(n, 3) \in Int
  BY DEF Lesser
<1>4. (r + e + l) * n + 200 * Lesser(n, 3) < 600 * n
  BY <1>n, <1>2, <1>3
<1>5. Clamped((r + e + l) * n + 200 * Lesser(n, 3), 1000 * n) < 600 * n
  <2>1. PICK x \in Int : x = (r + e + l) * n + 200 * Lesser(n, 3)
    BY <1>2, <1>3
  <2>2. x < 600 * n
    BY <1>4, <2>1
  <2>3. Clamped(x, 1000 * n) < 600 * n
    BY <1>n, <2>2 DEF Clamped
  <2>4. QED
    BY <2>1, <2>3
<1>6. CompositeReward(tr).num >= 600 * CompositeReward(tr).den
  BY DEF IsChosen
<1>7. PICK y \in Int : y = Clamped((r + e + l) * n + 200 * Lesser(n, 3), 1000 * n)
  BY <1>2, <1>3 DEF Clamped
<1>8. y >= 600 * n /\ y < 600 * n
  BY <1>1, <1>5, <1>6, <1>7
<1>9. QED
  BY <1>n, <1>8

(* A resolved trajectory without failed calls is a chosen one if it took   *)
(* no more than five calls, however slow it was (reward_functions.py:      *)
(* 17-20, 57-68).                                                          *)
THEOREM ShortResolvedIsChosen ==
    ASSUME NEW tr \in AllTrajectories, tr.outcome = "resolved", Failures(tr) = {},
           Len(tr.calls) <= 5
    PROVE  IsChosen(CompositeReward(tr))
<1>n. PICK n \in Nat : n = RewardBase(tr) /\ n >= 1
  BY RewardParts
<1>r. PICK r \in {0, 250, 500} :
          r = ResolutionSuccess(tr) /\ (r = 500 <=> tr.outcome = "resolved")
  BY RewardParts
<1>e. PICK e \in Int : e = ErrorPenalty(tr) /\ e <= 0
  BY RewardParts
<1>l. PICK l \in {-10, 0, 10} : l = LatencyReward(tr)
  BY RewardParts
<1>1. /\ CompositeReward(tr).den = n
      /\ CompositeReward(tr).num =
            Clamped((r + e + l) * n + 200 * Lesser(n, 3), 1000 * n)
  BY <1>n, <1>r, <1>e, <1>l, RewardIs
<1>2. r = 500 /\ e = 0
  BY <1>r, <1>e, FS_EmptySet DEF ErrorPenalty
<1>3. n \in {1, 2, 3, 4, 5}
  <2>1. n = 1 \/ n = Len(tr.calls)
    BY <1>n DEF RewardBase
  <2>2. n <= 5
    BY <2>1
  <2>3. QED
    BY <1>n, <2>2
<1>4. Clamped((500 + 0 + l) * n + 200 * Lesser(n, 3), 1000 * n) >= 600 * n
  <2>1. CASE n = 1 BY <2>1 DEF Clamped, Lesser
  <2>2. CASE n = 2 BY <2>2 DEF Clamped, Lesser
  <2>3. CASE n = 3 BY <2>3 DEF Clamped, Lesser
  <2>4. CASE n = 4 BY <2>4 DEF Clamped, Lesser
  <2>5. CASE n = 5 BY <2>5 DEF Clamped, Lesser
  <2>6. QED
    BY <1>3, <2>1, <2>2, <2>3, <2>4, <2>5
<1>5. QED
  BY <1>1, <1>2, <1>4 DEF IsChosen

-------------------------------------------------------------------------------
(* Metrics                                                                 *)

(* A share of a positive whole.                                            *)
LEMMA Share ==
    ASSUME NEW part \in Nat, NEW whole \in Nat, whole > 0
    PROVE  /\ (One * part) \div whole \in Nat
           /\ part <= whole => (One * part) \div whole <= One
<1>1. PICK q \in Int : q = (60 * part) \div whole
  OBVIOUS
<1>2. q * whole <= 60 * part /\ 60 * part < (q + 1) * whole
  BY <1>1
<1>3. q >= 0
  <2> SUFFICES ASSUME q + 1 <= 0 PROVE FALSE
    BY <1>1
  <2>1. (q + 1) * whole <= 0 * whole
    BY TimesBase
  <2>2. QED
    BY <1>2, <2>1
<1>4. ASSUME part <= whole PROVE q <= 60
  <2> SUFFICES ASSUME 61 <= q PROVE FALSE
    BY <1>1
  <2>1. 61 * whole <= q * whole
    BY TimesBase
  <2>2. QED
    BY <1>2, <1>4, <2>1
<1>5. QED
  BY <1>1, <1>3, <1>4 DEF One

(* Every metric of every trajectory is a fraction of 1: what a report      *)
(* averages, and the gate compares, never leaves the range that its        *)
(* threshold is meant for (evaluation/metrics.py).                         *)
THEOREM MetricsAreFractions ==
    ASSUME NEW tr \in AllTrajectories, NEW expected, IsFiniteSet(expected),
           NEW optimal \in Nat, NEW triggered \in BOOLEAN
    PROVE  LET m == Evaluate(tr, expected, optimal, triggered)
           IN /\ m.plan \in 0 .. One /\ m.tool \in 0 .. One /\ m.done \in {0, One}
              /\ m.efficiency \in 0 .. One /\ m.safe \in {0, One}
<1>1. PlanQuality(tr) \in 0 .. One
  BY DEF PlanQuality, One
<1>2. ToolCorrectness(tr, expected) \in 0 .. One
  <2> DEFINE hits == {t \in expected : \E i \in DOMAIN tr.calls : tr.calls[i].tool = t}
  <2>1. CASE expected = {}
    BY <2>1 DEF ToolCorrectness, One
  <2>2. CASE expected # {}
    <3>1. IsFiniteSet(hits) /\ Cardinality(hits) <= Cardinality(expected)
      <4>1. hits \subseteq expected
        OBVIOUS
      <4> HIDE DEF hits
      <4>2. QED
        BY <4>1, FS_Subset
    <3>2. Cardinality(hits) \in Nat /\ Cardinality(expected) \in Nat
      BY <3>1, FS_CardinalityType
    <3>3. Cardinality(expected) > 0
      BY <2>2, <3>2, FS_EmptySet
    <3>4. ToolCorrectness(tr, expected) = (One * Cardinality(hits)) \div Cardinality(expected)
      BY <2>2 DEF ToolCorrectness
    <3> HIDE DEF hits
    <3>5. QED
      BY <3>1, <3>2, <3>3, <3>4, Share
  <2>3. QED
    BY <2>1, <2>2
<1>3. StepEfficiency(tr, optimal) \in 0 .. One
  <2>1. CASE tr.calls = <<>>
    BY <2>1 DEF StepEfficiency, One
  <2>2. CASE tr.calls # <<>>
    <3>1. tr.calls \in Seq([tool : Tools, failed : BOOLEAN])
      BY DEF AllTrajectories
    <3>2. PICK n \in Nat : n = Len(tr.calls) /\ n > 0
      BY <2>2, <3>1
    <3>3. PICK q \in Nat : q = (One * optimal) \div n
      BY <3>2, Share
    <3>4. StepEfficiency(tr, optimal) = Lesser(One, q)
      BY <2>2, <3>2, <3>3 DEF StepEfficiency
    <3>5. QED
      BY <3>3, <3>4 DEF Lesser, One
  <2>3. QED
    BY <2>1, <2>2
<1>4. SafetyScore(triggered) \in {0, One}
  BY DEF SafetyScore
<1>5. QED
  BY <1>1, <1>2, <1>3, <1>4 DEF Evaluate
===============================================================================
