SPECIFICATION Spec
CONSTANTS
    Deployments <- SingleShared
    Instances = {e1}
    Mutators = {m1}
    MaxMutations = 1
    MaxErrors = 0
    Nothing = nothing
INVARIANTS
    ScreenIsCurrent
