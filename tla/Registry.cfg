SPECIFICATION Spec
CONSTANTS
    Local = {"bot", "Bot", "bot2", "admin"}
    LowerLocal <- MCLowerLocal
    Domain = {"t", "T", "u"}
    LowerDomain <- MCLowerDomain
    AdminName = "admin"
    Password = {p1, p2}
    Team <- MCTeams
    Suffixed <- MCSuffixed
    BotName = {"Bot"}
    NoName = NoName
    NoAccount = NoAccount
    NoPassword = NoPassword
    NoDomain = NoDomain
SYMMETRY Symmetry
INVARIANT InitializedHasAdmin ToldWorks
PROPERTY TeamEdgesAreOwn AccountsPersist
