CONSTANTS
    Roles = {r1, r2}
    Users = {u1}
    Permissions = {}
    BlankRole = blank
    BlankPermission = blankPermission
    RuleLists = {noRules, rules1}
    NoRules = noRules
    InvalidRules = invalidRules
    MetadataMaps = {noMetadata}
    NoMetadata = noMetadata
    Dialects = {"postgres", "mysql"}
    Writers = {w1, w2}
    Free = free
    MaxBatch = 2
SYMMETRY Symmetry
SPECIFICATION Spec
PROPERTY ImplementsPolicyStore
