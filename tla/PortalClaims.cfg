SPECIFICATION Spec
CONSTANTS
    LimitKey = {}
    DefaultLimit <- NoLimits
    LowestLimit <- NoLimits
    LimitPost <- NoPosts
    SwitchKey = {"registration", "random_register", "directory_listed"}
    DefaultSwitch <- MCDefaultSwitch
    MaxPosts = 2
    Unset = Unset
    Account = {a1, a2, a3}
    Registered = {a1}
    Worker = {w1, w2}
    Signature = {"", "duty"}
    Preference = {"key"}
    ProfilePost <- MCProfilePost
    ShowcaseCap = 1
    MaxRequests = 3
    MaxIds = 2
    MaxTime = 1
    Keep = Keep
    Unknown = Unknown
    Idle = Idle
SYMMETRY Symmetry
PROPERTIES RegistrationAllowed SwitchFinal OmittedKept
