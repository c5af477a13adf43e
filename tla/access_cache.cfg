SPECIFICATION AccessSpec
SYMMETRY IdSymmetry
CONSTANTS
    s1 = s1
    s2 = s2
    r1 = r1
    r2 = r2
    r3 = r3
    Session = {s1, s2}
    Request = {r1, r2, r3}
INVARIANTS
    EndedSessionsAreRefused
