SPECIFICATION TableSpec
CONSTANTS
    a = a
    b = b
    c = c
    mod1 = mod1
    Host = {h1, h2}
    Path = {a, b, c}
    Pattern = {mod1, c}
    Strstr <- MCStrstr
    MAX_ANUM = 4
    NoRoute = NoRoute
INVARIANTS RouteInv
PROPERTIES OrderKept ImplementsRouteSet
