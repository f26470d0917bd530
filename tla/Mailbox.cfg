\* Two io threads deliver a job, a command and a SHUTDOWN to one event loop.
SPECIFICATION FairSpec
CONSTANTS
    m1 = m1
    m2 = m2
    m3 = m3
    None = None
    Senders = {s1, s2}
    Messages = {m1, m2, m3}
    NumTypes = 3
    TypeOf <- MCTypeOf
    ShutdownType = 3
INVARIANTS
    CountAccounts
    DequeueRight
    NoLostWakeup
PROPERTIES
    EveryMessageProcessed
    StopTakesEffect
\* The loop returns and the senders run out of messages.
CHECK_DEADLOCK FALSE
