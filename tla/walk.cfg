\* Walks in every order over three memories, two steps of others or repetitions.
CONSTANTS
    Contents <- McContents
    Tags <- McTags
    MemoryTypes = {"fact"}
    Terms <- McTerms
    Mentions <- McMentions
    Null = Null
    Unset = Unset
    Seeds <- Three
    Queries <- Walks
    Bodies <- McBodies
    Start = 2
    MaxLag = 1
    MaxEvents = 2
SPECIFICATION FairSpec
INVARIANTS
    TypeOK
    IdWalkNeverTwice
    IdWalkMissesFew
    AccessWalkNeverTwice
    QuietWalkIsExact
PROPERTIES
    WalkAdvances
    WalkEnds
