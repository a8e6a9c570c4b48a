SPECIFICATION RatesSpec
CONSTANTS
    LimitKey <- MCLimitKey
    DefaultLimit <- MCDefaultLimit
    LowestLimit <- MCLowestLimit
    LimitPost <- NoPosts
    SwitchKey = {}
    DefaultSwitch <- MCDefaultSwitch
    MaxPosts = 0
    Unset = Unset
    Address = {a1, a2}
    Lower <- MCLower
    Client = {c1}
    Hour = 3
    Kind = {"send"}
    FixedLimit <- MCFixedLimit
    TeamLimit = 2
    PushIPLimit = 2
    MaxClients = 1
    Size = {1, 2}
SYMMETRY Symmetry
INVARIANTS AccountCap SlidingCap BudgetKept
