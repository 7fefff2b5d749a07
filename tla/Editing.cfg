CONSTANTS
    Schemas <- MCSchemas
    Entry <- MCEntry
    How <- MCHow
    Sets <- MCSets
    Ifs <- MCIfs
    Renamed <- MCRenamed
    Resolving <- MCResolving
    Cyclic <- MCCyclic
    PreviousName <- B
    HandFiles <- MCHandFiles
    MaxWrites = 3

SPECIFICATION Spec

INVARIANTS
    SetChangesWhatItSays
    NoCommandBreaksTheBlock
    LinksFollow
CHECK_DEADLOCK FALSE
