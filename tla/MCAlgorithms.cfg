SPECIFICATION InputSpec
CHECK_DEADLOCK FALSE
CONSTANTS
    Roles = {r1, r2, r3}
    Attributes = {owner, group}
    Numbers = {1, 2}
    Texts = {1}
    ListSizes = {2}
    Malformed = malformed
    Missing = missing
    NoOther = noOther
    MaxConditions = 2
INVARIANTS
    CycleSearchExact
    StoresAgree
    EffectiveExact
    RoleNamesExact
    MalformedDecidesNothing
    OmissionIsNoWayAround
