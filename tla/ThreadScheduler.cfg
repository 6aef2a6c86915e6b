CONSTANTS
    hash1 = hash1
    hash2 = hash2
    hash1again = hash1again
    completing = completing
    sync = sync
    NoTask = NoTask
    Tasks <- MCTasks
    TypeOf <- MCTypeOf
    DescOf <- MCDescOf
    PriorityOf <- MCPriorityOf
    FollowUp <- MCFollowUp
    Ages = {0, 1, 2, 3}
SPECIFICATION FairSpec
INVARIANTS TasksRegistered WorkIsServed
PROPERTIES BestFirst QueuedIsRun FollowUpRuns
