CONSTANTS
    p1 = p1
    p2 = p2
    Proc = {p1, p2}
    Plans <- MCPlans
    Src = {s1, s2}
SPECIFICATION Spec
INVARIANTS TypeOK InstalledWhole
PROPERTIES GoodCacheKept MoveKeeps
