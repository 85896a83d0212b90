CONSTANTS
    a1 = a1
    a2 = a2
    a3 = a3
    a4 = a4
    a5 = a5
    c1 = c1
    c2 = c2
    Addrs <- MCAddrs
    Clients <- MCClients
    MaxResets = 1
    Null = Null

SPECIFICATION Spec

SYMMETRY MCSymmetry

INVARIANT TypeOK
INVARIANT CanonicalIdentity
