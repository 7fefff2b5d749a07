SPECIFICATION Spec
CONSTANTS
    Projects <- MCProjects
    Written <- MCWritten
    FreePaths <- MCFreePaths
    Slugs <- MCSlugs
    Numbers <- MCNumbers
    MaxFiles = 3
INVARIANTS StillNames NamesFindDocuments
PROPERTIES FormKept
CHECK_DEADLOCK FALSE
