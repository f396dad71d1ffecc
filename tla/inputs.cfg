\* Three edits of the file or restarts; texts and filters of up to three characters.
CONSTANTS
    Origins = {"page", "other"}
    NotAnObject = NotAnObject
    NoOrigin = NoOrigin
    NotSet = NotSet
    Garbage = Garbage
    Defaults <- McDefaults
    Environments <- McEnvironments
    Files <- McFiles
    MaxEdits = 3
    MaxText = 3
    MaxFilter = 3
SPECIFICATION InputsSpec
INVARIANTS
    OneVersionOfTheFile
    SilenceIsObedience
    LimitsSurviveTypos
    SearchIsLiteral
    NothingSpurious
PROPERTIES
    ComesUp
CHECK_DEADLOCK FALSE
