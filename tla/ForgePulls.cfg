SPECIFICATION Spec
CONSTANTS
    x = x
    y = y
    main = main
    feature = feature

    Changes <- ChangesDef
    Clashing <- ClashingDef
    Proposals <- ProposalsDef
    Threads = {t1, t2}
    Branches = {main, feature}
    Kinds = {"merge_conflict", "stale_branch", "checks_startup_failure", "branch_protected"}
    ArmedRuns = {"failed"}
    Methods = {"squash", "rebase"}
    MaxPulls = 1
    MaxCommits = 3
    MaxArmed = 1
INVARIANTS
    ClosedPullsList OpenHeadsExist 
SYMMETRY Symmetry
