SPECIFICATION MCSpec
CONSTANTS
    t1 = t1  t2 = t2  r1 = r1  r2 = r2  h1 = h1  h2 = h2  k1 = k1  k2 = k2  k3 = k3
    c1 = c1  c2 = c2  app = app  web = web  ws = ws  sub = sub
    claude = claude  codex = codex  tier = tier  opus = opus
    None = None
    TierModels = {tier}
    Tenants = {t1, t2}
    FirstTenant = t1
    Slugs = {app, web}
    DefaultSlug = app
    Runners = {r1, r2}
    Hosts = {h1, h2}
    HostNames = {"north", "south"}
    Tokens = {k1, k2, k3}
    Workspaces = {ws}
    Subscriptions = {sub}
    Chunks = {c1, c2}
    ChunkProject <- TwoProjects
    ChunkGraph <- TwoGraphs
    Declarations <- SomeDeclarations
    BindingSets <- OneBindingSet
    Profiles <- TwoProfiles
    MaxCalls = 4
SYMMETRY Symmetry
CHECK_DEADLOCK FALSE
INVARIANTS
    TenantsApart
    IdentityAgrees
    PeekIsClaimable
    PeekIsFirstOfferable
