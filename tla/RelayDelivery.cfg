SPECIFICATION LiveSpec
CONSTANTS
    s1 = s1  s2 = s2  a1 = a1  a2 = a2  b1 = b1
    Senders = {s1, s2}
    Items = {a1, a2, b1}
    Sender <- MCSender
    Operation <- MCOperation
    Sequence <- MCSequence
    Size <- MCSize
    MaxJobs = 2  MaxBytes = 3
    MaxAttempts = 2
    InitialBackoff = 1  MaxBackoff = 2
    BudgetJobs = 1
    MailItems = 2  MailBytes = 3
    KeyItems = 2  KeyBytes = 2
    Quic = {s2}
    Outboxes <- MCOutboxes
    MaxFaults = 1
    MaxResumes = 1
INVARIANTS BooksBalance CertainMeansAbsent
PROPERTIES HeadSettles
CHECK_DEADLOCK FALSE
