\* Two threads that run, synthesise and prune.
SPECIFICATION Spec
CONSTANTS
    lookup = lookup
    policy = policy
    lookupBuiltIn = lookupBuiltIn
    policyBuiltIn = policyBuiltIn
    lookupNew = lookupNew
    policyNew = policyNew
    Threads = {t1, t2}
    Names = {lookup, policy}
    Skills = {lookupBuiltIn, policyBuiltIn, lookupNew, policyNew}
    BuiltIns = {lookupBuiltIn, policyBuiltIn}
    NameOf <- MCNameOf
    ProtectLists <- MCProtectLists
    None = None
    PromoteAfter = 2
    PromoteRate = 85
    PruneAfter = 1
    PruneRate = 50
    MaxRuns = 3
INVARIANTS TypeOK CreditsAreRuns PromotedHaveRuns
PROPERTIES PromotionIsEarned PruneSparesBuiltIns
