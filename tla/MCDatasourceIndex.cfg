CONSTANTS
    d1 = d1
    d2 = d2
    d3 = d3
    Docs = {d1, d2, d3}
    Entities = {"issue", "group"}
    EntityOf <- MCEntityOf
    FieldEntities = {"issue", "group"}
    SemanticEntities = {"issue"}
    Contents = {1, 2}
    Phases = {"all", "fields", "semantic"}
    Requests <- MCRequests
    MaxCommands = 1
    MaxEdits = 1
    MaxFaults = 1

CONSTRAINT MCBound
SYMMETRY MCSymmetry
SPECIFICATION Spec
INVARIANTS CompleteIsTrue IndexedHasChunks NothingStaleStays
PROPERTIES LiveDocumentsStay
CHECK_DEADLOCK FALSE
