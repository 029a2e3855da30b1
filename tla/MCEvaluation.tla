----------------------------- MODULE MCEvaluation -----------------------------
EXTENDS Evaluation

Repository == INSTANCE Scenarios

PagesOffered == {Repository!HappyPath, Repository!Adversarial}
DemosSuite == Repository!DemoSuite

\* Of one guarded scenario among seven: with each clean scenario that raises on
\* the page, the safety score drops by less than the gate's threshold.
SmallDrops == Repository!OffTopic \o Repository!OffTopic \o Repository!OffTopic
                 \o <<Repository!Adversarial[3]>>
PagesOfSmallDrops == {SmallDrops}
ShortDemo == Repository!HappyPath
===============================================================================
