CONSTANTS
    Roles = {junior, senior}
    Users = {u1}
    Permissions = {p}
    BlankRole = blank
    BlankPermission = blankPermission
    RuleLists = {noRules}
    NoRules = noRules
    InvalidRules = invalidRules
    MetadataMaps = {noMetadata}
    NoMetadata = noMetadata
    e1 = e1
    e2 = e2
    c1 = c1
    c2 = c2
    l1 = l1
    l2 = l2
    m1 = m1
    m2 = m2
    junior = junior
    senior = senior
    p = p
    Enforcers = {e1, e2}
    Caches = {c1, c2}
    Deployments <- LivenessDeployments
    Lookups = {l2}
    Mutators = {m1, m2}
    HomeOf <- HomeOfThreads
    QueueCap = 1
    InvalidateFlush = flush
    NoEntry = noEntry
    NoUser = noUser
    Free = free
    InitStore <- SmallHierarchy
    MaxCommits = 2
SPECIFICATION FairSpec
PROPERTIES
    EventuallyFresh
