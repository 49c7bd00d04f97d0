\* A pass reads the mail that was put back before its row is renamed.
SPECIFICATION Spec
CONSTANTS
    r1 = r1
    r2 = r2
    a1 = a1
    a2 = a2
    v = v
    w = w
    x = x
    y = y
    z = z
    old = old
    ana = ana
    leo = leo
    spam = spam
    acme = acme
    other = other
    Readers = {r1}
    Admins = {a1}
    Mails = {1, 2, 3, 4, 5}
    Mids = {v, w, x, y, z, old}
    Addresses = {ana, leo, spam}
    Companies = {acme, other}
    Mail <- Sundry
    Sender <- Kind
    CompanyOf <- Company
    OldTickets <- Before
    Synthetic = {}
    Batch = 5
    TicketCap = 1
    ReplyCap = 1
    MaxFaults = 1
    MaxCrashes = 0
    MaxAges = 0
INVARIANTS
    RequeuedWillBeRead
