------------------------------ MODULE HubFleet ------------------------------
(***************************************************************************)
(* The mock hub's registry and queue: tenants and their projects, runners, *)
(* hosts and the tokens that name them, and what a runner may peek and     *)
(* claim (mock_hub/domain/service.py over internal/state_store.py).        *)
(*                                                                         *)
(* A call runs on a thread pool without a lock.  Two calls read a runner's *)
(* row, decide, and act afterwards: enroll and claim.  Each is two actions *)
(* here, with other calls in between; every other call is one action.      *)
(*                                                                         *)
(* A project id is the pair <<tenant, slug>>, an entry of a declaration a  *)
(* slug or such an id.  Names and clocks are left out, except host names,  *)
(* which must be free.  A chunk's moves are HubChunk's: here it is ready,  *)
(* or held by a runner.                                                    *)
(***************************************************************************)
EXTENDS QueueMatch

CONSTANTS
    Tenants, FirstTenant,   \* tenant ids, and the one the hub founds
    Slugs, DefaultSlug,     \* project slugs, and that of a tenant's own project
    Runners, Hosts,         \* ids a call may mint or pin
    HostNames,
    Tokens,                 \* runner tokens a call may mint or pin
    Workspaces, Subscriptions,
    Chunks, ChunkProject, ChunkGraph,   \* what a chunk is seeded with
    Declarations,           \* what a registration may declare: sets of entries
    BindingSets,            \* and the bindings it may send instead
    Profiles,               \* capability reports
    MaxCalls                \* bound: actions of a behaviour

Projects == Tenants \X Slugs
Entries == Slugs \cup Projects
Served == [entry : Entries, project : Projects \cup {None}]
RunnerRow ==
    [tenant : Tenants, host : Hosts \cup {None}, retired : BOOLEAN, connected : BOOLEAN, paused : BOOLEAN,
     served : SUBSET Served, bindings : BindingSets \cup {None},
     subscription : Subscriptions \cup {None}, capabilities : Profiles \cup {<< >>}]
HostRow ==
    [tenant : Tenants, name : HostNames, reported : BOOLEAN,
     workspaces : SUBSET Workspaces, roster : SUBSET Subscriptions]

ASSUME FleetAssumption ==
    /\ FirstTenant \in Tenants /\ DefaultSlug \in Slugs
    /\ ChunkProject \in [Chunks -> Tenants \X Slugs]
    /\ Declarations \subseteq SUBSET Entries
    /\ BindingSets \subseteq SUBSET [project : Entries, workspace : Workspaces]
    /\ MaxCalls \in Nat
    /\ None \notin Projects \cup BindingSets \cup RunnerRow \cup HostRow
    /\ None \notin Tenants \cup Runners \cup Hosts \cup Tokens \cup Chunks \cup Subscriptions

Levers == {"version_refused", "host_add_conflict", "retire_conflict", "retire_interrupted", "dependency_unmet"}

VARIABLES
    tenants, projects,  \* the rows that exist
    runner,             \* runner[r]: its row, None until it is added
    host,               \* host[h]: its row, None until it is added
    token,              \* token[k]: whom the token names now
    revoked,            \* revoked[k]: whom the token was taken from
    enrolling,          \* rotations past their checks, about to issue a token
    queue,              \* the seeded chunks in order of insertion
    holder,             \* holder[c]: the runner whose route holds it
    claiming,           \* claiming[r]: the chunk r's claim passed its checks for
    reported,           \* the runners whose facts say they paused themselves
    levers,             \* the levers armed
    calls               \* bound: actions taken

rows == <<tenants, projects, runner, host>>
credentials == <<token, revoked, enrolling>>
work == <<queue, holder, claiming>>
vars == <<rows, credentials, work, reported, levers, calls>>

Init ==
    /\ tenants = {FirstTenant}
    /\ projects = {<<FirstTenant, DefaultSlug>>}
    /\ runner = [r \in Runners |-> None]
    /\ host = [h \in Hosts |-> None]
    /\ token = [k \in Tokens |-> None]
    /\ revoked = [k \in Tokens |-> None]
    /\ enrolling = {}
    /\ queue = << >>
    /\ holder = [c \in Chunks |-> None]
    /\ claiming = [r \in Runners |-> None]
    /\ reported = {}
    /\ levers = {}
    /\ calls = 0

Within == calls < MaxCalls /\ calls' = calls + 1

-----------------------------------------------------------------------------
(* Tenants and projects.                                                   *)

(* The tenant an operator call acts in: the one named, else the only one.  *)
TenantNamed(named) ==
    IF named # None THEN {named} \cap tenants
    ELSE IF Cardinality(tenants) = 1 THEN tenants ELSE {}

TenantProjects(t) == {p \in projects : p[1] = t}

(* A project id counts only within the tenant; any other value is a slug.  *)
MutResolveAnyTenant(t, entry) ==
    LET named == {p \in projects : p = entry \/ (p[1] = t /\ p[2] = entry)}
    IN  IF named = {} THEN None ELSE CHOOSE p \in named : TRUE
ResolveProject(t, entry) ==
    LET named == {p \in TenantProjects(t) : p = entry \/ p[2] = entry}
    IN  IF named = {} THEN None ELSE CHOOSE p \in named : TRUE

Declared(t, entries) == {[entry |-> e, project |-> ResolveProject(t, e)] : e \in entries}

(* A runner added naming no project serves its tenant's only one, by id.   *)
AddedDeclaration(t, entries) ==
    IF entries # None THEN Declared(t, entries)
    ELSE IF Cardinality(TenantProjects(t)) = 1
    THEN {[entry |-> p, project |-> p] : p \in TenantProjects(t)}
    ELSE {}

seed_tenant(t) ==
    /\ t \notin tenants
    /\ tenants' = tenants \cup {t}
    /\ projects' = projects \cup {<<t, DefaultSlug>>}
    /\ UNCHANGED <<runner, host, credentials, work, levers, reported>>

seed_project(p) ==
    /\ p[1] \in tenants /\ p \notin projects
    /\ projects' = projects \cup {p}
    /\ UNCHANGED <<tenants, runner, host, credentials, work, levers, reported>>

-----------------------------------------------------------------------------
(* Tokens.                                                                 *)

ServedProjects(r) == {s.project : s \in runner[r].served} \ {None}

Held(r) == {k \in Tokens : token[k] = r}

(* replace_token: what the runner holds is revoked, then the new one is its.*)
Replaced(r, k) ==
    /\ token' = [x \in Tokens |-> IF x = k THEN r ELSE IF x \in Held(r) THEN None ELSE token[x]]
    /\ revoked' = [x \in Tokens |-> IF x \in Held(r) THEN r ELSE revoked[x]]

Unissued(k) == token[k] = None /\ revoked[k] = None

(* GET /identity: whom a token names, or why it names nobody.              *)
MutIdentityCurrentIsKnown(k) ==
    CASE token[k] # None -> [answer |-> "known", runner |-> token[k]]
      [] token[k] = None /\ revoked[k] = None -> [answer |-> "unknown", runner |-> None]
      [] OTHER -> [answer |-> IF runner[revoked[k]].retired THEN "retired" ELSE "revoked", runner |-> revoked[k]]
Identity(k) ==
    CASE token[k] # None ->
            [answer |-> IF runner[token[k]].retired THEN "retired" ELSE "known", runner |-> token[k]]
      [] token[k] = None /\ revoked[k] = None -> [answer |-> "unknown", runner |-> None]
      [] OTHER -> [answer |-> IF runner[revoked[k]].retired THEN "retired" ELSE "revoked", runner |-> revoked[k]]

(* The fleet gate: the runner whose current token this is, unless retired. *)
Admitted(k) == token[k] # None /\ ~runner[token[k]].retired

(* Whether runner r can call at all: the claim route alone skips the gate's*)
(* retirement check, and refuses a retired runner itself.                  *)
Calls(r) == runner[r] # None /\ Held(r) # {}

enroll(r, named) ==
    /\ runner[r] # None /\ runner[r].tenant \in TenantNamed(named)
    /\ ~runner[r].retired
    /\ r \notin enrolling
    /\ enrolling' = enrolling \cup {r}
    /\ UNCHANGED <<rows, token, revoked, work, levers, reported>>

(* The rotation goes through, whatever befell the runner meanwhile.        *)
issue(r, k) ==
    /\ r \in enrolling
    /\ Unissued(k)
    /\ Replaced(r, k)
    /\ enrolling' = enrolling \ {r}
    /\ UNCHANGED <<rows, work, levers, reported>>

revoke_token(r) ==
    /\ runner[r] # None
    /\ Replaced(r, None)
    /\ UNCHANGED <<rows, enrolling, work, levers, reported>>

-----------------------------------------------------------------------------
(* Runners.                                                                *)

NewRunner(t, h, entries) ==
    [tenant |-> t, host |-> h, retired |-> FALSE, connected |-> FALSE, paused |-> FALSE,
     served |-> AddedDeclaration(t, entries), bindings |-> None,
     subscription |-> None, capabilities |-> << >>]

(* A runner is added with its token in one pass; every entry must resolve. *)
(* A scenario may pin a token some runner holds or held: it moves over.    *)
Added(r, k, t, h, entries) ==
    /\ runner[r] = None
    /\ \A s \in AddedDeclaration(t, entries) : s.project # None
    /\ runner' = [runner EXCEPT ![r] = NewRunner(t, h, entries)]
    /\ token' = [token EXCEPT ![k] = r]
    /\ UNCHANGED <<tenants, projects, host, revoked, enrolling, work, levers, reported>>

add_runner(r, k, named, h, entries) ==
    \E t \in TenantNamed(named) :
        /\ h # None => host[h] # None /\ host[h].tenant = t
        /\ Added(r, k, t, h, entries)

(* register: also the heartbeat.  Bindings, when sent, are the declaration;*)
(* a registration that declares nothing keeps the one held.                *)
Declares(r, entries, bindings) ==
    IF bindings # None THEN Declared(runner[r].tenant, {b.project : b \in bindings})
    ELSE IF entries # None THEN Declared(runner[r].tenant, entries)
    ELSE runner[r].served

register(r, entries, bindings, subscription, capabilities) ==
    /\ Calls(r) /\ ~runner[r].retired
    /\ "version_refused" \notin levers
    /\ runner' = [runner EXCEPT ![r].connected = TRUE,
                                ![r].served = Declares(r, entries, bindings),
                                ![r].bindings = bindings,
                                ![r].subscription = subscription,
                                ![r].capabilities = capabilities]
    /\ UNCHANGED <<tenants, projects, host, credentials, work, levers, reported>>

RefuseVersion(r) ==
    /\ Calls(r) /\ ~runner[r].retired
    /\ "version_refused" \in levers
    /\ levers' = levers \ {"version_refused"}
    /\ UNCHANGED <<rows, credentials, work, reported>>

set_runner_projects(r, entries) ==
    /\ runner[r] # None
    /\ runner' = [runner EXCEPT ![r].served = Declared(runner[r].tenant, entries)]
    /\ UNCHANGED <<tenants, projects, host, credentials, work, levers, reported>>

set_paused(r) ==
    /\ runner[r] # None
    /\ runner' = [runner EXCEPT ![r].paused = ~@]
    /\ UNCHANGED <<tenants, projects, host, credentials, work, levers, reported>>

(* The operator's retire verb: routes the runner holds stay held.          *)
retire(r) ==
    /\ runner[r] # None /\ ~runner[r].retired
    /\ runner' = [runner EXCEPT ![r].retired = TRUE]
    /\ Replaced(r, None)
    /\ UNCHANGED <<tenants, projects, host, enrolling, work, levers, reported>>

-----------------------------------------------------------------------------
(* Hosts.                                                                  *)

NameTaken(t, name, but) ==
    \E h \in Hosts : host[h] # None /\ h # but /\ host[h].tenant = t /\ host[h].name = name

(* The runners an add may place under its host: the tenant's own, live and *)
(* under no host yet.                                                      *)
Adoptable(t) ==
    {r \in Runners : runner[r] # None /\ runner[r].tenant = t /\ ~runner[r].retired /\ runner[r].host = None}

(* What the add answers.  It is an operator verb: a runner's current token *)
(* presented with it is refused.                                           *)
AddHostAnswer(t, name, adopt, presented) ==
    IF presented # None /\ token[presented] # None THEN "runner-credential-forbidden"
    ELSE IF ~(adopt \subseteq Adoptable(t)) THEN "runner-refused"
    ELSE IF NameTaken(t, name, None) THEN "host-name-taken"
    ELSE IF adopt # {} /\ "host_add_conflict" \in levers THEN "runner-lifecycle-conflict"
    ELSE "added"

NewHost(t, name) ==
    [tenant |-> t, name |-> name, reported |-> FALSE, workspaces |-> {}, roster |-> {}]

add_host(h, name, named, adopt, presented) ==
    \E t \in TenantNamed(named) :
        /\ host[h] = None /\ AddHostAnswer(t, name, adopt, presented) = "added"
        /\ host' = [host EXCEPT ![h] = NewHost(t, name)]
        /\ runner' = [r \in Runners |-> IF r \in adopt THEN [runner[r] EXCEPT !.host = h] ELSE runner[r]]
        /\ UNCHANGED <<tenants, projects, credentials, work, levers, reported>>

AdoptionConflict(name, named, adopt, presented) ==
    \E t \in TenantNamed(named) :
        /\ AddHostAnswer(t, name, adopt, presented) = "runner-lifecycle-conflict"
        /\ levers' = levers \ {"host_add_conflict"}
        /\ UNCHANGED <<rows, credentials, work, reported>>

(* A host's report replaces what it reported; a name that is taken is not. *)
Renamed(h, name) == IF NameTaken(host[h].tenant, name, h) THEN host[h].name ELSE name

report_host(h, name, workspaces, roster) ==
    /\ host[h] # None
    /\ host' = [host EXCEPT ![h].name = Renamed(h, name), ![h].reported = TRUE,
                            ![h].workspaces = workspaces, ![h].roster = roster]
    /\ UNCHANGED <<tenants, projects, runner, credentials, work, levers, reported>>

add_host_runner(h, r, k, entries) ==
    /\ host[h] # None
    /\ Unissued(k)
    /\ Added(r, k, host[h].tenant, h, entries)

Holds(r) == {c \in Chunks : holder[c] = r}

(* Retirement by the host is refused over held routes unless forced, or    *)
(* unless the runner is retired already.  A lever may refuse it, or cut it *)
(* short when there are routes to give back.                               *)
RetireAnswer(h, r, force) ==
    CASE runner[r] = None -> "runner-not-found"
      [] runner[r] # None /\ runner[r].host # h -> "runner-not-found"
      [] OTHER ->
            IF Holds(r) # {} /\ ~force /\ ~runner[r].retired THEN "runner-holds-routes"
            ELSE IF "retire_conflict" \in levers THEN "runner-lifecycle-conflict"
            ELSE IF "retire_interrupted" \in levers /\ Holds(r) # {} THEN "runner-retire-interrupted"
            ELSE "retired"

Retired(r) ==
    /\ runner' = [runner EXCEPT ![r].retired = TRUE]
    /\ IF runner[r].retired THEN UNCHANGED <<token, revoked>> ELSE Replaced(r, None)

(* The runner is retired and its routes come back to the queue.            *)
retire_host_runner(h, r, force) ==
    /\ host[h] # None /\ RetireAnswer(h, r, force) = "retired"
    /\ Retired(r)
    /\ holder' = [c \in Chunks |-> IF holder[c] = r THEN None ELSE holder[c]]
    /\ UNCHANGED <<tenants, projects, host, enrolling, queue, claiming, levers, reported>>

RetireConflict(h, r, force) ==
    /\ host[h] # None /\ RetireAnswer(h, r, force) = "runner-lifecycle-conflict"
    /\ levers' = levers \ {"retire_conflict"}
    /\ UNCHANGED <<rows, credentials, work, reported>>

(* An interruption retires the runner and leaves its routes held.          *)
RetireInterrupted(h, r, force) ==
    /\ host[h] # None /\ RetireAnswer(h, r, force) = "runner-retire-interrupted"
    /\ levers' = levers \ {"retire_interrupted"}
    /\ Retired(r)
    /\ UNCHANGED <<tenants, projects, host, enrolling, work, reported>>

-----------------------------------------------------------------------------
(* The queue.                                                              *)

seed_chunk(c) ==
    /\ ChunkProject[c] \in projects
    /\ \A i \in 1..Len(queue) : queue[i] # c
    /\ queue' = Append(queue, c)
    /\ UNCHANGED <<rows, credentials, holder, claiming, levers, reported>>

(* A host that has reported withholds a binding whose workspace it does    *)
(* not have, and all of them when the subscription is off its roster.      *)
Reporting(r) == runner[r].host # None /\ host[runner[r].host].reported

Withheld(r, b) ==
    /\ Reporting(r)
    /\ \/ b.workspace \notin host[runner[r].host].workspaces
       \/ runner[r].subscription # None /\ runner[r].subscription \notin host[runner[r].host].roster

MutOfferedByBinding(r, wanted) ==
    LET reachable == {b.project : b \in {x \in runner[r].bindings : ~Withheld(r, x)}}
    IN  IF runner[r].bindings = None THEN ServedProjects(r) ELSE reachable \cap Projects
OfferedProjects(r, wanted) ==
    LET reachable == {b.project : b \in {x \in runner[r].bindings : ~Withheld(r, x)}}
        offered == IF runner[r].bindings = None THEN runner[r].served
                   ELSE {s \in runner[r].served : s.entry \in reachable}
        named == IF wanted = None THEN runner[r].served
                 ELSE {s \in runner[r].served : s.entry \in wanted \/ s.project \in wanted}
    IN  ({s.project : s \in offered} \cap {s.project : s \in named}) \ {None}

(* The dependency lever blocks the chunk at the head of the queue.         *)
Blocked(c) == "dependency_unmet" \in levers /\ c = queue[1]

(* Which capability reports can work which chunk from its entry node.      *)
Workable == [c \in Chunks |-> {p \in Profiles \cup {<< >>} :
                ~CapabilityIneligible(ChunkGraph[c], ChunkGraph[c].entry, p)}]

Entry(c, capabilities) ==
    [chunk |-> c, project |-> ChunkProject[c], ready |-> holder[c] = None,
     usable |-> ~Blocked(c) /\ capabilities \in Workable[c]]

QueueEntries(capabilities) == [i \in 1..Len(queue) |-> Entry(queue[i], capabilities)]

peek_matched(r, capabilities, hold, wanted) ==
    Scan(QueueEntries(capabilities), OfferedProjects(r, wanted), hold, wanted # None)

Seeded(c) == \E i \in 1..Len(queue) : queue[i] = c

(* A chunk of another tenant is not found.                                 *)
Visible(r, c) == Seeded(c) /\ ChunkProject[c][1] = runner[r].tenant

(* What the claim route answers: the first check that fails, in order.     *)
ClaimAnswer(r, c) ==
    IF ~Visible(r, c) THEN "chunk-not-found"
    ELSE IF runner[r].retired THEN "claim-runner-retired"
    ELSE IF ~runner[r].connected THEN "claim-runner-unregistered"
    ELSE IF runner[r].paused THEN "claim-paused"
    ELSE IF holder[c] # None THEN "claim-conflict"
    ELSE IF Blocked(c) THEN "claim-dependency-unmet"
    ELSE IF ChunkProject[c] \in ServedProjects(r) /\ runner[r].capabilities \in Workable[c]
    THEN "granted" ELSE "claim-incompatible"

(* The claim passes its checks; it acts in a later step.                   *)
claim(r, c) ==
    /\ Calls(r) /\ ClaimAnswer(r, c) = "granted"
    /\ claiming[r] = None
    /\ claiming' = [claiming EXCEPT ![r] = c]
    /\ UNCHANGED <<rows, credentials, queue, holder, levers, reported>>

ClaimBlocked(r, c) ==
    /\ Calls(r) /\ ClaimAnswer(r, c) = "claim-dependency-unmet"
    /\ levers' = levers \ {"dependency_unmet"}
    /\ UNCHANGED <<rows, credentials, work, reported>>

(* The grant overwrites whatever route another claim wrote meanwhile.      *)
grant(r) ==
    /\ claiming[r] # None
    /\ holder' = [holder EXCEPT ![claiming[r]] = r]
    /\ claiming' = [claiming EXCEPT ![r] = None]
    /\ UNCHANGED <<rows, credentials, queue, levers, reported>>

release(r, c) ==
    /\ Calls(r) /\ ~runner[r].retired
    /\ holder[c] = r
    /\ holder' = [holder EXCEPT ![c] = None]
    /\ UNCHANGED <<rows, credentials, queue, claiming, levers, reported>>

(* The fact lane's runner.locally_paused and runner.locally_resumed.       *)
pause_fact(r) ==
    /\ Calls(r) /\ ~runner[r].retired
    /\ reported' = IF r \in reported THEN reported \ {r} ELSE reported \cup {r}
    /\ UNCHANGED <<rows, credentials, work, levers>>

arm(lever) ==
    /\ levers' = levers \cup {lever}
    /\ UNCHANGED <<rows, credentials, work, reported>>

TokensCleared ==
    /\ token' = [k \in Tokens |-> None]
    /\ revoked' = [k \in Tokens |-> None]

(* A reset between scenarios, with no call in the hub.  What the facts    *)
(* reported of a runner is not among what the store's clear() forgets.     *)
reset ==
    /\ enrolling = {} /\ \A r \in Runners : claiming[r] = None
    /\ tenants' = {FirstTenant}
    /\ projects' = {<<FirstTenant, DefaultSlug>>}
    /\ runner' = [r \in Runners |-> None]
    /\ host' = [h \in Hosts |-> None]
    /\ TokensCleared
    /\ queue' = << >>
    /\ holder' = [c \in Chunks |-> None]
    /\ levers' = {}
    /\ UNCHANGED <<enrolling, claiming, reported>>

-----------------------------------------------------------------------------
Optional(S) == S \cup {None}

Operate ==
    \/ \E t \in Tenants : seed_tenant(t)
    \/ \E p \in Projects : seed_project(p)
    \/ \E c \in Chunks : seed_chunk(c)
    \/ \E r \in Runners, k \in Tokens, t \in Optional(Tenants), h \in Optional(Hosts),
          d \in Optional(Declarations) : add_runner(r, k, t, h, d)
    \/ \E r \in Runners, t \in Optional(Tenants) : enroll(r, t)
    \/ \E r \in Runners, k \in Tokens : issue(r, k)
    \/ \E r \in Runners : revoke_token(r) \/ retire(r) \/ set_paused(r)
    \/ \E r \in Runners, d \in Declarations : set_runner_projects(r, d)
    \/ \E h \in Hosts, n \in HostNames, t \in Optional(Tenants), A \in SUBSET Runners,
          k \in Optional(Tokens) : add_host(h, n, t, A, k) \/ AdoptionConflict(n, t, A, k)
    \/ \E l \in Levers : arm(l)
    \/ reset

HostCalls ==
    \E h \in Hosts :
        \/ \E n \in HostNames, W \in SUBSET Workspaces, S \in SUBSET Subscriptions : report_host(h, n, W, S)
        \/ \E r \in Runners, k \in Tokens, d \in Optional(Declarations) : add_host_runner(h, r, k, d)
        \/ \E r \in Runners, force \in BOOLEAN :
              retire_host_runner(h, r, force) \/ RetireConflict(h, r, force) \/ RetireInterrupted(h, r, force)

RunnerCalls ==
    \E r \in Runners :
        \/ \E d \in Optional(Declarations), b \in Optional(BindingSets), s \in Optional(Subscriptions),
              p \in Profiles : register(r, d, b, s, p)
        \/ RefuseVersion(r) \/ pause_fact(r)
        \/ \E c \in Chunks : claim(r, c) \/ ClaimBlocked(r, c) \/ release(r, c)
        \/ grant(r)

Next == Within /\ (Operate \/ HostCalls \/ RunnerCalls)

Spec == Init /\ [][Next]_vars

-----------------------------------------------------------------------------
(* Every row has its shape, and every reference names a row that exists.   *)
TypeOK ==
    /\ tenants \subseteq Tenants /\ projects \subseteq tenants \X Slugs
    /\ runner \in [Runners -> RunnerRow \cup {None}]
    /\ host \in [Hosts -> HostRow \cup {None}]
    /\ token \in [Tokens -> Runners \cup {None}] /\ revoked \in [Tokens -> Runners \cup {None}]
    /\ \A k \in Tokens : {token[k], revoked[k]} \ {None} \subseteq {r \in Runners : runner[r] # None}
    /\ enrolling \subseteq {r \in Runners : runner[r] # None}
    /\ queue \in Seq(Chunks) /\ \A i, j \in 1..Len(queue) : queue[i] = queue[j] => i = j
    /\ holder \in [Chunks -> Runners \cup {None}] /\ claiming \in [Runners -> Chunks \cup {None}]
    /\ reported \subseteq Runners /\ levers \subseteq Levers /\ calls \in 0..MaxCalls

(* Tenants stay apart: a runner stands under a host of its own tenant,     *)
(* serves projects of its own tenant, and holds chunks of its own tenant,  *)
(* whichever of the operator, the host and the runner made the calls.      *)
TenantsApart ==
    /\ \A r \in Runners : runner[r] # None =>
          /\ runner[r].host # None =>
                host[runner[r].host] # None /\ host[runner[r].host].tenant = runner[r].tenant
          /\ \A p \in ServedProjects(r) : p \in projects /\ p[1] = runner[r].tenant
    /\ \A c \in Chunks : holder[c] # None => ChunkProject[c][1] = runner[holder[c]].tenant

(* The identity route tells a runner the truth about its token: it answers *)
(* `known` exactly for the tokens the fleet gate admits, for the same      *)
(* runner, and `unknown` only for a token nobody was issued; even when a   *)
(* rotation overtook a retirement and left the runner a current token.     *)
IdentityAgrees ==
    \A k \in Tokens :
        /\ (Identity(k).answer = "known") <=> Admitted(k)
        /\ Admitted(k) => Identity(k).runner = token[k]
        /\ Identity(k).answer = "retired" => runner[Identity(k).runner].retired
        /\ Identity(k).answer = "unknown" => Unissued(k)

(* A peek is worth acting on: what a runner that may claim is shown, by    *)
(* the capabilities it registered, its claim is granted.                   *)
PeekIsClaimable ==
    \A r \in Runners : runner[r] # None /\ runner[r].connected /\ ~runner[r].paused /\ ~runner[r].retired =>
        \A hold \in BOOLEAN, wanted \in Optional(Declarations) :
            LET c == peek_matched(r, runner[r].capabilities, hold, wanted)
            IN  c # None => ClaimAnswer(r, c) = "granted"

(* The peek's scan answers the first chunk that may be offered: under hold *)
(* an unusable chunk stops its own project when the call named projects,   *)
(* and everything when it named none; a project not served never stalls it.*)
PeekIsFirstOfferable ==
    \A r \in Runners : runner[r] # None =>
        \A hold \in BOOLEAN, wanted \in Optional(Declarations) :
            LET p == runner[r].capabilities
                can == Offerable(QueueEntries(p), OfferedProjects(r, wanted), hold, wanted # None)
                c == peek_matched(r, p, hold, wanted)
            IN  IF can = {} THEN c = None ELSE \E i \in can : c = QueueEntries(p)[i].chunk /\ \A j \in can : i <= j

=============================================================================
