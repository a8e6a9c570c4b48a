SPECIFICATION FairSpec
CONSTANTS
    Visible = {m1, m2, m3}
    Hidden = {h1}
    None = None
INVARIANT JoinedAreConnected GroupsAreTopics
CHECK_DEADLOCK FALSE
PROPERTY Terminates
