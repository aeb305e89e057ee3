SPECIFICATION FairSpec
CONSTANTS
    Controllers = {c1}
    Calls = {t1, t2}
    Volumes = {v1, v2}
    Suffixes = {s1, s2}
    Policies <- AllPolicies
    normalizePolicyName <- PolicyNames
    Faults <- HarmlessFaults
    None = None
CHECK_DEADLOCK FALSE
PROPERTIES
    Provisioned
    Reclaimed
