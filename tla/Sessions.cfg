SPECIFICATION Spec
CONSTANTS
    Request = {q1, q2}
    User = {u1, u2}
    Token = {t1, t2, t3}
    Client = {c1}
    NoToken = NoToken
    Undefined = Undefined
    NoUser = NoUser
    NoClient = NoClient
    NoCall = NoCall
SYMMETRY AuthSymmetry
INVARIANTS
    TypeOK
    SingleUse
    RevocationIsFinal
PROPERTY LogoutEndsSession
