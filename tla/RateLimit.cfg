SPECIFICATION Spec
CONSTANTS
    Client = {a1}
    Route = {r1, r2}
    NoKey = NoKey
    Call = {c1, c2}
    GlobalLimit = 4
    GroupLimit = 3
    Window = 2
INVARIANTS
    TypeOK
    RouteAdmitsHalf
