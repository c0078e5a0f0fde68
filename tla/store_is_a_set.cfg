CONSTANTS
    a = a
    ba = ba
    Names <- MCNames
    Hash <- MCHash
    Size <- MCSize
    Parents <- MCParents
    MaxImport = 3
SPECIFICATION Spec
INVARIANTS
    TypeOK
    LookupIsMembership
    CountersAreTrue
PROPERTIES
    IsASetOfEntries
