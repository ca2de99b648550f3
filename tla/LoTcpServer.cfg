SPECIFICATION FairSpec
CONSTANTS
    c1 = c1
    c2 = c2
    c3 = c3
    h1 = h1
    h2 = h2
    h3 = h3
    Conn = {c1, c2, c3}
    Host = {h1, h2, h3}
    From <- MCFrom
    NMsg <- MCNMsg
    NULL = NULL
CHECK_DEADLOCK FALSE
INVARIANTS StreamInv ServedInTurn
PROPERTIES Drained ImplementsInbox
