SPECIFICATION Spec
CONSTANTS
    e1 = e1
    e2 = e2
    d1 = d1
    d2 = d2
    None = None
    Torn = Torn
    Executions <- TwoExecutions
    Editors <- TwoEditors
    Edit <- TwoEdits
    Definitions <- SomeDefinitions
    Inputs <- SomeInputs
    MaxTries = 2
    MaxDeaths = 1
INVARIANTS
    PausedRunsWait
\* Jobs and requests are finite.
CHECK_DEADLOCK FALSE
