CONSTANTS
    r1 = r1
    r2 = r2
    Requests = {r1, r2}
    Addresses <- MCAddresses
    Lower <- MCLower
    MaxInvites = 0
    MaxToggles = 2
SYMMETRY Interchangeable
SPECIFICATION Spec
INVARIANT
    AdminsRemain
