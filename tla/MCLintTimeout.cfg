SPECIFICATION LintSpec
CONSTANTS
    Scenarios <- MCScenarios
    Orders <- MCOrders
    Edits <- MCEdits
INVARIANTS
    CutRunIsReported
    ErrorsEndTheNegotiation
