CONSTANTS
    Roles = {r1, r2}
    Users = {u1}
    Permissions = {}
    BlankRole = blank
    BlankPermission = blankPermission
    RuleLists = {noRules}
    NoRules = noRules
    InvalidRules = invalidRules
    MetadataMaps = {noMetadata}
    NoMetadata = noMetadata
    Dialects = {"sqlite"}
    Writers = {w1, w2}
    Free = free
    MaxBatch = 1
SYMMETRY Symmetry
SPECIFICATION Spec
PROPERTY ImplementsPolicyStore
