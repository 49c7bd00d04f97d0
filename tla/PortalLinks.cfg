\* Two requests at once of the administrators of two companies that invite the same person; the
\* panel, expiry, failures and restarts.  The portal may rest: nothing more need be asked of it.
SPECIFICATION Spec
CONSTANTS
    acme = acme
    other = other
    boss = boss
    rival = rival
    clerk = clerk
    eva = eva
    c1 = c1
    c2 = c2
    Clients = {acme, other}
    Guests = {eva}
    Authors = {boss, rival}
    Of <- Company
    Staff = "staff"
    Requests = {c1, c2}
    MayLeave = {}
    MaxInvitations = 3
    MaxReviews = 0
SYMMETRY Peers
INVARIANTS
    AcceptedAtHome
    OneLiveUnlessRaced
PROPERTY
    LinksImplemented
CHECK_DEADLOCK FALSE
