SPECIFICATION Spec
CONSTANTS
    Deployments <- SharedAndLocal
    Instances = {e1, e2}
    Mutators = {m1, m2}
    MaxMutations = 2
    MaxErrors = 1
    Nothing = nothing
SYMMETRY Symmetry
INVARIANTS
    ChangeIsDetected
    
