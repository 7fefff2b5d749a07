CONSTANTS
    Alphabet <- MCAlphabet
    Entries <- MCEntries
    Collections <- MCCollections
    Loose <- MCLoose
    Imports <- MCImports
    Global <- MCGlobal
    Reads <- MCReads
    Namespaces <- MCNamespaces
    Overlaps <- MCOverlaps
    NotRead <- MCNotRead
    Skipped = {}
    Stray = {}
    Malformed = {}
    Retired = {}
    SchemaFindings <- MCSchemaFindings
    Starts <- MCStarts
    HandFiles <- MCHandFiles
    RefField = "depends"
    RefLists <- MCRefLists
    Plains <- MCPlains
    Arrows <- MCArrows
    Sorts <- MCSorts
    LargestNumber = 9
SPECIFICATION Spec
CHECK_DEADLOCK FALSE
INVARIANTS ReportsAgree ScopesAgree ListAnswers
PROPERTY CommandsFormNoCycle
