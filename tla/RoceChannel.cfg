\* Two credits, and more messages than the queues could take at once.
SPECIFICATION FairSpec
CONSTANTS
    NumMessages = 4
    Credits = 2
    SqDepth = 4
    RqDepth = 4
INVARIANTS
    CreditsComeBack
    NoSenderStranded
    QueuesSuffice
PROPERTIES
    ImplementsDelivery
    AllArrive
\* Everything sent has arrived or is lost.
CHECK_DEADLOCK FALSE
