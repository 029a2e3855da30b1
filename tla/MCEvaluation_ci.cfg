\* Two builds, each with a report of its own: does CI hold the second one back
\* when its metrics dropped?
SPECIFICATION Spec
CONSTANTS
    Suites <- PagesOffered
    SuiteOfDemo <- DemosSuite
    Missing = Missing
    Torn = Torn
    MaxRuns = 2
CHECK_DEADLOCK FALSE
PROPERTIES DropsBlockTheDeploy
