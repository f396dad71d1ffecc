\* A file that read_text or json.loads raises an exception for that nobody catches.
CONSTANTS
    Origins = {"page", "other"}
    NotAnObject = NotAnObject
    NoOrigin = NoOrigin
    NotSet = NotSet
    Garbage = Garbage
    Defaults <- McDefaults
    Environments <- McEnvironments
    Files <- McFiles
    MaxEdits = 1
SPECIFICATION Spec
INVARIANTS
    InvalidFileIsNoFailure
