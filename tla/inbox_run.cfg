CONSTANTS
    MaxItems = 3
    MaxFollowUps = 1
    QueueModes = {"all", "one-at-a-time"}
SPECIFICATION Spec
INVARIANTS
    TypeOK
PROPERTIES
    NothingLeftBehind
    HookAnswersWhatItSaw
    CancelledPlacesNothing
    PlacedInTurn
    RefinesMailbox
