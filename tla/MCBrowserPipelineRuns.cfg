\* Two runs, one after the other or one beside the other, in five projects.
SPECIFICATION Spec
CONSTANTS
    Steps <- FourSteps
    Agents <- Analysts
    Gated <- CeoGate
    Runs <- TwoRuns
    Projects <- AllProjects
INVARIANTS
    TypeOK
    ShownIsAsked
    RejectionStops
    SourcesFirst
    HistoryTrue
CHECK_DEADLOCK FALSE
