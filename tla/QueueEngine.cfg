SPECIFICATION Spec
CONSTANTS
    Depth = 4
    Cmds <- AllCmds
    Statuses <- AllStatuses
    Budgets <- AllBudgets
    None = None
    c1 = c1
    c2 = c2
INVARIANTS TypeOK SubmissionRing CompletionRing AnnouncedExactly
PROPERTIES ImplementsQueuePair
