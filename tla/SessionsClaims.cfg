SPECIFICATION Spec
CONSTANTS
    Address = {"bob", "Bob"}
    Lower <- MCLower
    Password = {p1, p2}
    Token = {t1}
    Client = {c1}
    TTL = 3
    Slack = 1
    MaxTime = 0
    NoToken = NoToken
SYMMETRY Symmetry
INVARIANTS ChangeRevokesAll AuthenticatedIsFound
PROPERTIES ChangeReplacesVerified DisabledCannotAuthenticate
