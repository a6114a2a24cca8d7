\* Three clients for three connections and three templates.
CONSTANTS
    x1 = x1
    x2 = x2
    x3 = x3
    c1 = c1
    c2 = c2
    c3 = c3
    t1 = t1
    t2 = t2
    t3 = t3
    Connection = {x1, x2, x3}
    Client = {c1, c2, c3}
    Template = {t1, t2, t3}
    None = None
SPECIFICATION Spec
SYMMETRY Symmetry
INVARIANTS
    ConnectionsHaveOneOwner
    UndefinedOnlyAfterMoves
CHECK_DEADLOCK FALSE
