SPECIFICATION RatesSpec
CONSTANTS
    LimitKey <- MCLimitKey
    DefaultLimit <- MCDefaultLimit
    LowestLimit <- MCLowestLimit
    LimitPost <- MCPosts
    SwitchKey = {}
    DefaultSwitch <- MCDefaultSwitch
    MaxPosts = 1
    Unset = Unset
    Address = {a1}
    Lower <- MCLower
    Client = {c1, c2}
    Hour = 2
    Kind = {"send", "declare", "push"}
    FixedLimit <- MCFixedLimit
    TeamLimit = 2
    PushIPLimit = 1
    MaxClients = 1
    Size = {1}
SYMMETRY Symmetry
INVARIANT WindowsCap
PROPERTY AttemptsCap

