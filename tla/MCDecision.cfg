SPECIFICATION Spec
CONSTANTS
    Roles = {r1, r2}
    Users = {u1}
    Permissions = {manage}
    Manage = manage
    BlankRole = blank
    BlankPermission = blankPermission
    RuleLists <- AllowOrDeny
    NoRules <- NoEffects
    InvalidRules = invalidRules
    MetadataMaps = {noMetadata}
    NoMetadata = noMetadata
    Callers = {c1}
    Settings <- MCSettings
SYMMETRY Symmetry
INVARIANTS
    DenyHolds
    AllowGrounded
