SPECIFICATION Spec
CONSTANTS
    Roles = {r1, r2, r3}
    Users = {u1}
    Permissions = {}
    BlankRole = blank
    BlankPermission = blankPermission
    RuleLists = {noRules, allowRule}
    NoRules = noRules
    InvalidRules = invalidRules
    MetadataMaps = {noMetadata, owner}
    NoMetadata = noMetadata
    MaxBatch = 2
SYMMETRY Symmetry
INVARIANTS
    TypeOK
    ParentsExist
    HierarchyAcyclic
    IndexMatchesLists
    AssignedRolesExist
    NothingLeftBehind
