SPECIFICATION Spec
CONSTANTS
    Cases = {c1}
    Advisors = {a1}
    NoAdvisor = NoAdvisor
    Requests = {r1}
    Workers = {w1}
    MaxMail = 2
    MaxFaults = 0
SYMMETRY Symmetry
INVARIANTS
    SentWasMailed
