CONSTANTS
    Runs = {r1}
    Runners <- RetryOverTransaction
    Attempts = 2
SPECIFICATION Spec
INVARIANT TransactionsClosed
