SPECIFICATION EmailSpec
CONSTANTS
    Processes = {p1, p2}
    Mails = {m1}
    BatchSize = 1
    RetryLimit = 3
    DlqRetryLimit = 2
    MaxFaults = 2
CHECK_DEADLOCK FALSE
INVARIANT EmailInv
PROPERTY EmailPromise
