CONSTANTS
    Processes = {p1, p2}
    Users = {u1}
    Tokens = {t1, t2, t3, t4}
    NoToken = NoToken
SYMMETRY MCSymmetry
SPECIFICATION Spec
INVARIANTS
    TypeOK
    QuietAssignmentsStick
    ClaimsAreCurrent
    RolesWereGiven
    RotationBound
    HalfDoneOnlyByDeath
