SPECIFICATION FairSpec
CONSTANTS
    MaxMessages = 2
    Kinds <- MCKinds
    Due = 2
    ReminderDays = {2}
    MaxDay = 1
    BatchSize = 2
    MaxTries = 2
    Leavable = {"email"}
INVARIANTS
    DeliveriesAccounted
    OptOutRespected
PROPERTIES
    ImplementsMailbox
    MessagesHandled
CHECK_DEADLOCK FALSE
