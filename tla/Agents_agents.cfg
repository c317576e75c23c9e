\* One CLI at a time: a scan of two findings, a chat and a correction on one
\* session, one message of at most one tool call per turn (the summary turn is a
\* second), a budget of three.
SPECIFICATION Spec
CONSTANTS
    s1 = s1
    q1 = q1
    k1 = k1
    Calls <- MCCalls
    Scans <- MCScans
    Chats <- MCChats
    Corrections <- MCCorrections
    MaxConcurrent = 1
    IdleTimeout = TRUE
    MaxTurns = 1
    MaxUses = 1
    Budget = 3
    Floor = 2
    Marker = 1
    Sizes <- MCSizes
    N = 2
    MaxItems = 2
    MaxExchanges = 2
INVARIANT TypeOK
INVARIANT PermitsConserved
INVARIANT BudgetBound
INVARIANT TriageFailsOpen
INVARIANT InvestigationIsFounded
 
PROPERTY ServedInTurn
PROPERTY ClientIsTold
