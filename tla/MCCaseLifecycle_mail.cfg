SPECIFICATION Spec
CONSTANTS
    Cases = {c1}
    Advisors = {a1}
    NoAdvisor = NoAdvisor
    Requests = {r1, r2}
    Workers = {}
    MaxMail = 4
    MaxFaults = 1
SYMMETRY Symmetry
INVARIANTS
    SentHasMail
    HumanApproved
    MailedAtMostOnce
    DraftOwnsMail
PROPERTIES
    SentMailIsFinal
