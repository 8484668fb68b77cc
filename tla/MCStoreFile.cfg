CONSTANTS
    Objects <- MCObjects
    TailBytes = 2
    Places <- MCPlaces
    Counts <- MCCounts
    MaxPrimed = 2
    Error = Error
    None = None
SPECIFICATION Spec
INVARIANT
    TypeOK
PROPERTIES
    IsAFile
    HeldIsLocal
