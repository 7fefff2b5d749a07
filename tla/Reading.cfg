CONSTANTS
    Base <- MCBase
    Pool <- MCPool
    MaxMade = 3
    Configs <- MCConfigs
    MemberLists <- MCMemberLists
    Runs <- MCRuns
    Imports <- MCImports
SPECIFICATION Spec
INVARIANTS IndexSound NamespacesDecide NothingSilent
CHECK_DEADLOCK FALSE
