SPECIFICATION Spec
CONSTANTS
    Workers = {w1, w2}
    Levels = {"standard", "enhanced"}
    Answers <- MCAnswers
    MaxVerifications = 2
    MaxDocuments = 1
    MaxRetries = 1
SYMMETRY WorkerSymmetry
VIEW RecordView
INVARIANTS
    ApprovedAsChecked
    OneActiveVerification
PROPERTIES
    EventsAreFounded
CHECK_DEADLOCK FALSE
