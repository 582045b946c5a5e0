CONSTANTS
    Runs = {r1, r2, r3}
    Runners <- MCRunners
    Attempts = 2
SPECIFICATION Spec
INVARIANTS
    RetriesBounded
    TransactionsClosed
    NoOrphanClaim
    AtMostOneCommit
    ResultsAgree
    ResultCommitted
    AuditMatches
PROPERTY Termination
