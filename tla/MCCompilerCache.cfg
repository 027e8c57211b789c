CONSTANTS
    Proc = {p1, p2}
    Name = {f, g, k, j, fd, gd}
    Version = {old, new}
    f = f
    g = g
    k = k
    j = j
    fd = fd
    gd = gd
    old = old
    new = new
    NoName = NoName
    Calls <- Callees
    Scenarios <- Programs
SPECIFICATION Spec
SYMMETRY Symmetry
CHECK_DEADLOCK FALSE
INVARIANTS
    StartsClean
    LinksResolve
    Reuse
