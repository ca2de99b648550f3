SPECIFICATION Spec
CONSTANTS
    Host = {h1, h2}
    Path = {p, q}
    Addr = {m1, m2, m3}
    h1 = h1
    h2 = h2
    p = p
    q = q
    Dest <- MCDest
    MAX_ANUM = 3
    NULL = NULL
    NoPath = NoPath
    Lost = Lost
SYMMETRY Addresses
INVARIANTS TableInv PrefixDelivered
PROPERTIES FrameCovers ImplementsRoutingTable
