\* Two readers, the same mail delivered twice and one that answers it, failures and a restart.
SPECIFICATION Spec
CONSTANTS
    r1 = r1
    r2 = r2
    a1 = a1
    a2 = a2
    v = v
    w = w
    x = x
    y = y
    z = z
    old = old
    ana = ana
    leo = leo
    spam = spam
    acme = acme
    other = other
    Readers = {r1, r2}
    Admins = {}
    Mails = {1, 2, 3}
    Mids = {v, w, x, y, z, old}
    Addresses = {ana, leo, spam}
    Companies = {acme, other}
    Mail <- Twice
    Sender <- Kind
    CompanyOf <- Company
    OldTickets <- Before
    Synthetic = {z}
    Batch = 2
    TicketCap = 2
    ReplyCap = 1
    MaxFaults = 2
    MaxCrashes = 1
    MaxAges = 0
INVARIANTS
    TypeOK
    EffectOnce
    NothingLostInSilence
    OutcomeIsTrue
