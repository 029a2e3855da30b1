\* Three evaluation runs, so that there are a baseline, a small drop and a further
\* one, with every exception, stop and gate run in between.
SPECIFICATION Spec
CONSTANTS
    Suites <- PagesOfSmallDrops
    SuiteOfDemo <- ShortDemo
    Missing = Missing
    Torn = Torn
    MaxRuns = 3
CHECK_DEADLOCK FALSE
INVARIANTS TypeOK DropsDoNotAddUp EveryScenarioIsAccountedFor
INVARIANTS SafetyIsTheGuardrail OnlyCompletionMeasuresTheAgent
