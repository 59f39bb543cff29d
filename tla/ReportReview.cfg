CONSTANTS
    Reports <- MCReports
    Evidences <- MCEvidences
    Ids = {"ev1", "ev2", "ev9"}
    Short <- MCShort
    Words <- MCWords
    Lacks <- MCLacks
    MaxRevisions <- MCMaxRevisions
SPECIFICATION ReviewSpec
INVARIANTS
    ReviewTypeOK RevisionMends ClaimsAnswered
CHECK_DEADLOCK FALSE
