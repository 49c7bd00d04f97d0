\* A bulk upload of the staff beside another request of the same company, with people who leave.
\* The portal may rest: nothing more need be asked of it.
SPECIFICATION Spec
CONSTANTS
    acme = acme
    other = other
    boss = boss
    rival = rival
    clerk = clerk
    eva = eva
    c1 = c1
    c2 = c2
    Clients = {acme}
    Guests = {eva}
    Authors = {boss, clerk}
    Of <- Company
    Staff = "staff"
    Requests = {c1, c2}
    MayLeave = {acme, boss}
    MaxInvitations = 2
    MaxReviews = 1
SYMMETRY Peers
INVARIANTS
    TypeOK
    OneConfirmationPerBlock
PROPERTIES
    ConfirmationSparesNewLinks
CHECK_DEADLOCK FALSE
