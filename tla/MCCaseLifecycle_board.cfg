SPECIFICATION Spec
CONSTANTS
    Cases = {c1}
    Advisors = {a1, a2}
    NoAdvisor = NoAdvisor
    Requests = {r1, r2}
    Workers = {w1}
    MaxMail = 1
    MaxFaults = 1
SYMMETRY Symmetry
INVARIANTS
    TypeOK
PROPERTIES
    ImplementsBoard
