SPECIFICATION Spec
CONSTANTS
    t1 = t1
    t2 = t2
    None = None
    Query = {q1, q2}
    Transport = {t1, t2}
    Rules <- TwoRules
    Checked = {t1}
    Setups <- SomeSetups
    Key = {t1}
    QueueSize = 1
    BatchSize = 1
INVARIANTS TypeOK OneRefresh RejectionKept
PROPERTIES WaitersReturn StaleRefreshed PendingWritten
