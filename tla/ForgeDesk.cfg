SPECIFICATION DeskSpec
CONSTANTS
    Credentials = {anon}
    anonymous = anon
    anon = anon
    Labels = {bug}
    Limit = 2
    Span = 2
    MaxTime = 3
    MaxEach = 1
    MaxComments = 1
    Budgets = {1}
    Counts = {0, 2}
    None = None
INVARIANTS
    BudgetBindsEveryBucket 
