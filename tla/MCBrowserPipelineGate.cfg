\* One run of the template project.
SPECIFICATION Spec
CONSTANTS
    Steps <- FourSteps
    Agents <- Analysts
    Gated <- CeoGate
    Runs <- OneRun
    Projects <- OneProject
INVARIANTS
    ExecutorsAfterApproval
CHECK_DEADLOCK FALSE
