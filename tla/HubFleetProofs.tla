--------------------------- MODULE HubFleetProofs ---------------------------
(* Proofs about the registry and the queue (HubFleet): every reference names *)
(* a row that exists, tenants stay apart, and the peek answers the first     *)
(* chunk its runner may claim, for any fleet.                                *)
EXTENDS HubFleet, WellFoundedInduction, TLAPS

Known == {r \in Runners : runner[r] # None}

(* A runner's row among hosts and projects: it stands under a host of its    *)
(* tenant, and what its entries resolved to are projects of its tenant.      *)
Fits(row, hosts, known) ==
    /\ row.host # None => hosts[row.host] # None /\ hosts[row.host].tenant = row.tenant
    /\ \A s \in row.served : s.project # None => s.project \in known /\ s.project[1] = row.tenant

Registry ==
    /\ tenants \subseteq Tenants /\ projects \subseteq tenants \X Slugs
    /\ runner \in [Runners -> RunnerRow \cup {None}]
    /\ host \in [Hosts -> HostRow \cup {None}]
    /\ \A r \in Known : Fits(runner[r], host, projects)

(* Whom a token names or named, and who rotates one, is a runner that exists.*)
Credentials ==
    /\ token \in [Tokens -> Known \cup {None}]
    /\ revoked \in [Tokens -> Known \cup {None}]
    /\ enrolling \subseteq Known

(* A chunk's holder is of the chunk's tenant, and so is whoever is about to  *)
(* be granted it.                                                            *)
Work ==
    /\ queue \in Seq(Chunks) /\ \A i, j \in 1..Len(queue) : queue[i] = queue[j] => i = j
    /\ holder \in [Chunks -> Known \cup {None}]
    /\ \A c \in Chunks : holder[c] # None => ChunkProject[c][1] = runner[holder[c]].tenant
    /\ claiming \in [Runners -> Chunks \cup {None}]
    /\ \A r \in Runners : claiming[r] # None =>
          r \in Known /\ ChunkProject[claiming[r]][1] = runner[r].tenant

Bounds == reported \subseteq Runners /\ levers \subseteq Levers /\ calls \in 0..MaxCalls

FleetInv == Registry /\ Credentials /\ Work /\ Bounds

(* A runner that is known stays known, in its tenant.                        *)
KeepsRunners == \A r \in Known : r \in Known' /\ runner'[r].tenant = runner[r].tenant

-----------------------------------------------------------------------------
(* The rows.                                                                 *)
LEMMA RowShape ==
    ASSUME Registry, NEW r \in Known
    PROVE  /\ r \in Runners /\ runner[r] \in RunnerRow
           /\ runner[r].tenant \in Tenants /\ runner[r].host \in Hosts \cup {None}
           /\ runner[r].served \in SUBSET Served
BY DEF Registry, Known, RunnerRow

LEMMA NoneIsNoRow == None \notin RunnerRow /\ None \notin HostRow
BY FleetAssumption

LEMMA FitsKept ==
    ASSUME NEW row \in RunnerRow, NEW hosts, NEW hosts2, NEW known, NEW known2,
           Fits(row, hosts, known), known \subseteq known2,
           \A h \in Hosts : hosts[h] # None => hosts2[h] # None /\ hosts2[h].tenant = hosts[h].tenant
    PROVE  Fits(row, hosts2, known2)
BY DEF Fits, RunnerRow

(* What a declaration resolves to, in a tenant.                              *)
LEMMA DeclaredFits ==
    ASSUME Registry, NEW t \in Tenants, NEW entries \in SUBSET Entries
    PROVE  /\ Declared(t, entries) \in SUBSET Served
           /\ \A s \in Declared(t, entries) :
                 s.project # None => s.project \in projects /\ s.project[1] = t
<1>1. \A e \in entries : ResolveProject(t, e) \in TenantProjects(t) \cup {None}
  BY DEF ResolveProject
<1>2. TenantProjects(t) \subseteq projects /\ \A p \in TenantProjects(t) : p[1] = t
  BY DEF TenantProjects
<1>3. projects \subseteq Projects BY DEF Registry, Projects
<1>4. QED BY <1>1, <1>2, <1>3 DEF Declared, Served

LEMMA AddedFits ==
    ASSUME Registry, NEW t \in Tenants, NEW entries \in (SUBSET Entries) \cup {None}
    PROVE  /\ AddedDeclaration(t, entries) \in SUBSET Served
           /\ \A s \in AddedDeclaration(t, entries) :
                 s.project # None => s.project \in projects /\ s.project[1] = t
<1>1. CASE entries # None BY <1>1, DeclaredFits DEF AddedDeclaration
<1>2. CASE entries = None
  <2>1. projects \subseteq Projects BY DEF Registry, Projects
  <2>2. \A p \in TenantProjects(t) : p \in projects /\ p[1] = t BY DEF TenantProjects
  <2>3. QED BY <1>2, <2>1, <2>2 DEF AddedDeclaration, Served, Entries
<1>3. QED BY <1>1, <1>2

(* One runner's row is rewritten, and it still fits.                         *)
LEMMA RowRewritten ==
    ASSUME Registry, NEW r \in Known, NEW row \in RunnerRow,
           Fits(row, host, projects), row.tenant = runner[r].tenant,
           runner' = [runner EXCEPT ![r] = row], UNCHANGED <<tenants, projects, host>>
    PROVE  Registry' /\ KeepsRunners
<1>1. r \in Runners /\ runner' \in [Runners -> RunnerRow \cup {None}] BY DEF Registry, Known
<1>2. /\ runner'[r] = row
      /\ \A s \in Runners \ {r} : runner'[s] = runner[s]
  BY <1>1 DEF Registry
<1>3. Known' = Known BY <1>1, <1>2, NoneIsNoRow DEF Known
<1>4. \A s \in Known' : Fits(runner'[s], host', projects') BY <1>2, <1>3 DEF Registry, Known
<1>5. QED BY <1>1, <1>2, <1>3, <1>4 DEF Registry, KeepsRunners, Known

(* A runner is added, under no host or one of its tenant.                    *)
LEMMA RowAdded ==
    ASSUME Registry, NEW r \in Runners, NEW k \in Tokens, NEW t \in Tenants,
           NEW h \in Hosts \cup {None}, NEW entries \in (SUBSET Entries) \cup {None},
           h # None => host[h] # None /\ host[h].tenant = t,
           Added(r, k, t, h, entries)
    PROVE  Registry' /\ KeepsRunners /\ r \in Known'
<1> DEFINE row == NewRunner(t, h, entries)
<1>2. /\ row \in RunnerRow /\ row.host = h /\ row.tenant = t
      /\ row.served = AddedDeclaration(t, entries)
  BY AddedFits DEF NewRunner, RunnerRow
<1>3. Fits(row, host, projects) BY <1>2, AddedFits DEF Fits
<1>4. runner[r] = None /\ runner' = [runner EXCEPT ![r] = row] /\ UNCHANGED <<tenants, projects, host>>
  BY DEF Added
<1> HIDE DEF row
<1>5. /\ runner' \in [Runners -> RunnerRow \cup {None}]
      /\ runner'[r] = row /\ \A s \in Runners \ {r} : runner'[s] = runner[s]
  BY <1>2, <1>4 DEF Registry
<1>6. Known' = Known \cup {r} BY <1>2, <1>5, NoneIsNoRow DEF Known
<1>7. \A s \in Known' : Fits(runner'[s], host', projects')
  BY <1>3, <1>4, <1>5, <1>6 DEF Registry, Known
<1>8. QED BY <1>4, <1>5, <1>6, <1>7 DEF Registry, KeepsRunners, Known

-----------------------------------------------------------------------------
(* The calls that rewrite a row, one by one.                                 *)
LEMMA NamedExists == \A named : TenantNamed(named) \subseteq tenants
BY DEF TenantNamed

LEMMA SeedRows ==
    ASSUME Registry, (\E t \in Tenants : seed_tenant(t)) \/ (\E p \in Projects : seed_project(p))
    PROVE  Registry' /\ KeepsRunners
<1>1. /\ tenants' \subseteq Tenants /\ projects' \subseteq tenants' \X Slugs
      /\ projects \subseteq projects' /\ UNCHANGED <<runner, host>>
  BY FleetAssumption DEF Registry, seed_tenant, seed_project, Projects
<1>2. Known' = Known BY <1>1 DEF Known
<1>3. \A r \in Known : Fits(runner[r], host, projects') BY <1>1, RowShape, FitsKept DEF Registry
<1>4. QED BY <1>1, <1>2, <1>3 DEF Registry, KeepsRunners

LEMMA AddRow ==
    ASSUME Registry, NEW r \in Runners, NEW k \in Tokens, NEW named, NEW h \in Optional(Hosts),
           NEW entries \in Optional(Declarations), add_runner(r, k, named, h, entries)
    PROVE  Registry' /\ KeepsRunners /\ r \in Known'
<1>1. PICK t \in TenantNamed(named) :
          (h # None => host[h] # None /\ host[h].tenant = t) /\ Added(r, k, t, h, entries)
  BY DEF add_runner
<1>2. t \in Tenants BY NamedExists DEF Registry
<1>3. entries \in (SUBSET Entries) \cup {None} BY FleetAssumption DEF Optional
<1>4. QED BY <1>1, <1>2, <1>3, RowAdded DEF Optional

LEMMA AddHostRow ==
    ASSUME Registry, NEW h \in Hosts, NEW r \in Runners, NEW k \in Tokens,
           NEW entries \in Optional(Declarations), add_host_runner(h, r, k, entries)
    PROVE  Registry' /\ KeepsRunners /\ r \in Known'
<1>1. host[h] # None /\ Added(r, k, host[h].tenant, h, entries) BY DEF add_host_runner
<1>2. entries \in (SUBSET Entries) \cup {None} BY FleetAssumption DEF Optional
<1>3. host[h].tenant \in Tenants BY <1>1 DEF Registry, HostRow
<1>4. QED BY <1>1, <1>2, <1>3, RowAdded

(* register, set_runner_projects, set_paused and retire leave the tenant and *)
(* the host of the row they write alone.                                     *)
LEMMA UpdatedRow ==
    ASSUME Registry, NEW r \in Known,
           runner' = [runner EXCEPT ![r] = runner'[r]], runner'[r] \in RunnerRow,
           runner'[r].tenant = runner[r].tenant, runner'[r].host = runner[r].host,
           \A s \in runner'[r].served :
              s.project # None => s.project \in projects /\ s.project[1] = runner[r].tenant,
           UNCHANGED <<tenants, projects, host>>
    PROVE  Registry' /\ KeepsRunners
<1>1. PICK row : row = runner'[r] OBVIOUS
<1>2. Fits(row, host, projects) BY <1>1 DEF Fits, Registry
<1>3. QED BY <1>1, <1>2, RowRewritten

LEMMA Registered ==
    ASSUME Registry, NEW r \in Runners, NEW entries \in Optional(Declarations),
           NEW bindings \in Optional(BindingSets), NEW subscription \in Optional(Subscriptions),
           NEW capabilities \in Profiles, register(r, entries, bindings, subscription, capabilities)
    PROVE  Registry' /\ KeepsRunners
<1> DEFINE declares == Declares(r, entries, bindings)
<1>1. r \in Known BY DEF register, Calls, Known
<1>2. /\ declares \in SUBSET Served
      /\ \A s \in declares : s.project # None => s.project \in projects /\ s.project[1] = runner[r].tenant
  <2>1. CASE bindings # None
    <3>1. {b.project : b \in bindings} \in SUBSET Entries BY <2>1, FleetAssumption DEF Optional
    <3>2. QED BY <1>1, <2>1, <3>1, RowShape, DeclaredFits DEF Declares
  <2>2. CASE bindings = None /\ entries # None
    <3>1. entries \in SUBSET Entries BY <2>2, FleetAssumption DEF Optional
    <3>2. QED BY <1>1, <2>2, <3>1, RowShape, DeclaredFits DEF Declares
  <2>3. CASE bindings = None /\ entries = None
    BY <1>1, <2>3, RowShape DEF Declares, Registry, Fits
  <2>4. QED BY <2>1, <2>2, <2>3
<1> HIDE DEF declares
<1>3. runner' = [runner EXCEPT ![r].connected = TRUE, ![r].served = declares, ![r].bindings = bindings,
                               ![r].subscription = subscription, ![r].capabilities = capabilities]
  BY DEF register, declares
<1>4. runner[r] \in RunnerRow /\ runner \in [Runners -> RunnerRow \cup {None}]
  BY <1>1, RowShape DEF Registry
<1>5. /\ runner'[r] \in RunnerRow
      /\ runner'[r].tenant = runner[r].tenant /\ runner'[r].host = runner[r].host
      /\ runner'[r].served = declares
  BY ZenonT(60), <1>2, <1>3, <1>4 DEF RunnerRow, Optional
<1>6. runner' = [runner EXCEPT ![r] = runner'[r]] BY <1>3, <1>4
<1>7. UNCHANGED <<tenants, projects, host>> BY DEF register
<1>8. QED BY <1>1, <1>2, <1>5, <1>6, <1>7, UpdatedRow

LEMMA ProjectsSet ==
    ASSUME Registry, NEW r \in Runners, NEW entries \in Declarations, set_runner_projects(r, entries)
    PROVE  Registry' /\ KeepsRunners
<1> DEFINE declared == Declared(runner[r].tenant, entries)
<1>1. r \in Known BY DEF set_runner_projects, Known
<1>2. /\ declared \in SUBSET Served
      /\ \A s \in declared : s.project # None => s.project \in projects /\ s.project[1] = runner[r].tenant
  BY <1>1, RowShape, DeclaredFits, FleetAssumption
<1> HIDE DEF declared
<1>3. runner' = [runner EXCEPT ![r].served = declared] BY DEF set_runner_projects, declared
<1>4. runner[r] \in RunnerRow /\ runner \in [Runners -> RunnerRow \cup {None}]
  BY <1>1, RowShape DEF Registry
<1>5. /\ runner'[r] \in RunnerRow
      /\ runner'[r].tenant = runner[r].tenant /\ runner'[r].host = runner[r].host
      /\ runner'[r].served = declared
  BY <1>2, <1>3, <1>4 DEF RunnerRow
<1>6. runner' = [runner EXCEPT ![r] = runner'[r]] BY <1>3, <1>4
<1>7. UNCHANGED <<tenants, projects, host>> BY DEF set_runner_projects
<1>8. QED BY <1>1, <1>2, <1>5, <1>6, <1>7, UpdatedRow

LEMMA FlagWritten ==
    ASSUME Registry, NEW r \in Known, NEW flag \in BOOLEAN, UNCHANGED <<tenants, projects, host>>,
           \/ runner' = [runner EXCEPT ![r].paused = flag]
           \/ runner' = [runner EXCEPT ![r].retired = flag]
    PROVE  Registry' /\ KeepsRunners
<1>1. r \in Runners /\ runner[r] \in RunnerRow /\ runner \in [Runners -> RunnerRow \cup {None}]
  BY RowShape DEF Registry
<1>2. /\ runner'[r] \in RunnerRow
      /\ runner'[r].tenant = runner[r].tenant /\ runner'[r].host = runner[r].host
      /\ runner'[r].served = runner[r].served
  BY <1>1 DEF RunnerRow
<1>3. runner' = [runner EXCEPT ![r] = runner'[r]] BY <1>1
<1>4. \A s \in runner[r].served : s.project # None => s.project \in projects /\ s.project[1] = runner[r].tenant
  BY DEF Registry, Fits
<1>5. QED BY <1>2, <1>3, <1>4, UpdatedRow

(* A host is added with the runners it adopts: its tenant's own, under no    *)
(* host so far.                                                              *)
LEMMA HostAdded ==
    ASSUME Registry, NEW h \in Hosts, NEW name \in HostNames, NEW named, NEW adopt, NEW presented,
           add_host(h, name, named, adopt, presented)
    PROVE  Registry' /\ KeepsRunners
<1>1. PICK t \in TenantNamed(named) :
          /\ host[h] = None /\ AddHostAnswer(t, name, adopt, presented) = "added"
          /\ host' = [host EXCEPT ![h] = NewHost(t, name)]
          /\ runner' = [r \in Runners |-> IF r \in adopt THEN [runner[r] EXCEPT !.host = h] ELSE runner[r]]
          /\ UNCHANGED <<tenants, projects>>
  BY DEF add_host
<1>2. t \in Tenants BY NamedExists DEF Registry
<1>3. adopt \subseteq Adoptable(t) BY <1>1 DEF AddHostAnswer
<1>4. NewHost(t, name) \in HostRow /\ NewHost(t, name).tenant = t BY <1>2 DEF NewHost, HostRow
<1>5. /\ host' \in [Hosts -> HostRow \cup {None}]
      /\ host'[h] # None /\ host'[h].tenant = t
      /\ \A g \in Hosts : host[g] # None => host'[g] # None /\ host'[g].tenant = host[g].tenant
  BY <1>1, <1>4, NoneIsNoRow DEF Registry
<1>6. \A r \in Known :
        /\ runner'[r] \in RunnerRow /\ runner'[r].tenant = runner[r].tenant
        /\ Fits(runner'[r], host', projects')
  <2> TAKE r \in Known
  <2>1. runner[r] \in RunnerRow /\ r \in Runners BY RowShape
  <2>2. CASE r \in adopt
    <3>1. runner[r].tenant = t BY <1>3, <2>2 DEF Adoptable
    <3>2. runner'[r] = [runner[r] EXCEPT !.host = h] BY <1>1, <2>1, <2>2
    <3>3. /\ runner'[r] \in RunnerRow /\ runner'[r].tenant = t /\ runner'[r].host = h
          /\ runner'[r].served = runner[r].served
      BY <2>1, <3>1, <3>2 DEF RunnerRow
    <3>4. Fits(runner[r], host, projects) BY DEF Registry
    <3>5. QED BY <1>1, <1>5, <3>1, <3>3, <3>4 DEF Fits
  <2>3. CASE r \notin adopt
    <3>1. runner'[r] = runner[r] BY <1>1, <2>1, <2>3
    <3>2. Fits(runner[r], host', projects') BY <1>1, <1>5, <2>1, FitsKept DEF Registry
    <3>3. QED BY <2>1, <3>1, <3>2
  <2>4. QED BY <2>2, <2>3
<1>7. \A r \in Runners \ Known : runner'[r] = None BY <1>1, <1>3 DEF Known, Adoptable
<1>8. Known' = Known BY <1>6, <1>7, NoneIsNoRow DEF Known
<1>9. runner' \in [Runners -> RunnerRow \cup {None}]
  <2>1. \A r \in Runners : runner'[r] \in RunnerRow \cup {None} BY <1>6, <1>7
  <2>2. runner' = [r \in Runners |-> runner'[r]] BY <1>1
  <2>3. QED BY <2>1, <2>2
<1>10. QED BY <1>1, <1>5, <1>6, <1>8, <1>9 DEF Registry, KeepsRunners

LEMMA HostReported ==
    ASSUME Registry, NEW h \in Hosts, NEW name \in HostNames, NEW W \in SUBSET Workspaces,
           NEW S \in SUBSET Subscriptions, report_host(h, name, W, S)
    PROVE  Registry' /\ KeepsRunners
<1> DEFINE kept == Renamed(h, name)
<1>1. host[h] \in HostRow BY DEF report_host, Registry
<1>2. kept \in HostNames BY <1>1 DEF Renamed, HostRow
<1> HIDE DEF kept
<1>3. /\ host' = [host EXCEPT ![h].name = kept, ![h].reported = TRUE, ![h].workspaces = W, ![h].roster = S]
      /\ UNCHANGED <<tenants, projects, runner>>
  BY DEF report_host, kept
<1>4. host'[h] \in HostRow /\ host'[h].tenant = host[h].tenant
  BY <1>1, <1>2, <1>3 DEF Registry, HostRow
<1>5. /\ host' \in [Hosts -> HostRow \cup {None}]
      /\ \A g \in Hosts : host[g] # None => host'[g] # None /\ host'[g].tenant = host[g].tenant
  BY <1>3, <1>4, NoneIsNoRow DEF Registry
<1>6. Known' = Known BY <1>3 DEF Known
<1>7. \A r \in Known : Fits(runner[r], host', projects) BY <1>5, RowShape, FitsKept DEF Registry
<1>8. QED BY <1>3, <1>5, <1>6, <1>7 DEF Registry, KeepsRunners

LEMMA RowsUntouched ==
    ASSUME Registry, UNCHANGED rows
    PROVE  Registry' /\ KeepsRunners
BY DEF Registry, KeepsRunners, Known, rows

(* Every call but a reset keeps the rows in shape, and the runners known.    *)
LEMMA RegistryKept ==
    ASSUME Registry, Next, ~reset
    PROVE  Registry' /\ KeepsRunners
<1>1. CASE Operate
  <2>1. CASE (\E t \in Tenants : seed_tenant(t)) \/ (\E p \in Projects : seed_project(p)) BY <2>1, SeedRows
  <2>2. ASSUME NEW c \in Chunks, seed_chunk(c) PROVE Registry' /\ KeepsRunners
    BY <2>2, RowsUntouched DEF seed_chunk
  <2>3. ASSUME NEW r \in Runners, NEW k \in Tokens, NEW t \in Optional(Tenants), NEW h \in Optional(Hosts),
               NEW d \in Optional(Declarations), add_runner(r, k, t, h, d)
        PROVE  Registry' /\ KeepsRunners
    BY <2>3, AddRow
  <2>4. ASSUME NEW r \in Runners, NEW k \in Tokens, issue(r, k) PROVE Registry' /\ KeepsRunners
    BY <2>4, RowsUntouched DEF issue
  <2>5. ASSUME NEW r \in Runners, NEW t, enroll(r, t) \/ revoke_token(r)
        PROVE  Registry' /\ KeepsRunners
    BY <2>5, RowsUntouched DEF enroll, revoke_token
  <2>6. ASSUME NEW r \in Runners, retire(r) \/ set_paused(r) PROVE Registry' /\ KeepsRunners
    <3>1. r \in Known BY <2>6 DEF retire, set_paused, Known
    <3>2. runner[r].paused \in BOOLEAN BY <3>1, RowShape DEF RunnerRow
    <3>3. UNCHANGED <<tenants, projects, host>> BY <2>6 DEF retire, set_paused
    <3>4. CASE retire(r) BY <3>1, <3>3, <3>4, FlagWritten DEF retire
    <3>5. CASE set_paused(r)
      <4> DEFINE flag == ~runner[r].paused
      <4>1. runner' = [runner EXCEPT ![r].paused = flag] BY <3>5 DEF set_paused
      <4>2. flag \in BOOLEAN OBVIOUS
      <4> HIDE DEF flag
      <4>3. QED BY <3>1, <3>3, <4>1, <4>2, FlagWritten
    <3>6. QED BY <2>6, <3>4, <3>5
  <2>7. ASSUME NEW r \in Runners, NEW d \in Declarations, set_runner_projects(r, d)
        PROVE  Registry' /\ KeepsRunners
    BY <2>7, ProjectsSet
  <2>8. ASSUME NEW h \in Hosts, NEW n \in HostNames, NEW t, NEW A, NEW k,
               add_host(h, n, t, A, k) \/ AdoptionConflict(n, t, A, k)
        PROVE  Registry' /\ KeepsRunners
    BY <2>8, HostAdded, RowsUntouched DEF AdoptionConflict
  <2>9. ASSUME NEW l \in Levers, arm(l) PROVE Registry' /\ KeepsRunners
    BY <2>9, RowsUntouched DEF arm
  <2>10. QED BY <1>1, <2>1, <2>2, <2>3, <2>4, <2>5, <2>6, <2>7, <2>8, <2>9 DEF Operate
<1>2. ASSUME NEW h \in Hosts, NEW n \in HostNames, NEW W \in SUBSET Workspaces, NEW S \in SUBSET Subscriptions,
             report_host(h, n, W, S)
      PROVE  Registry' /\ KeepsRunners
  BY <1>2, HostReported
<1>3. ASSUME NEW h \in Hosts, NEW r \in Runners, NEW k \in Tokens, NEW d \in Optional(Declarations),
             add_host_runner(h, r, k, d)
      PROVE  Registry' /\ KeepsRunners
  BY <1>3, AddHostRow
<1>4. ASSUME NEW h \in Hosts, NEW r \in Runners, NEW force,
             retire_host_runner(h, r, force) \/ RetireConflict(h, r, force) \/ RetireInterrupted(h, r, force)
      PROVE  Registry' /\ KeepsRunners
  <2>1. CASE RetireConflict(h, r, force) BY <2>1, RowsUntouched DEF RetireConflict
  <2>2. CASE retire_host_runner(h, r, force) \/ RetireInterrupted(h, r, force)
    <3>1. r \in Known BY <2>2 DEF retire_host_runner, RetireInterrupted, RetireAnswer, Known
    <3>2. runner' = [runner EXCEPT ![r].retired = TRUE] /\ UNCHANGED <<tenants, projects, host>>
      BY <2>2 DEF retire_host_runner, RetireInterrupted, Retired
    <3>3. QED BY <3>1, <3>2, FlagWritten
  <2>3. QED BY <1>4, <2>1, <2>2
<1>5. CASE HostCalls BY <1>2, <1>3, <1>4, <1>5 DEF HostCalls
<1>6. ASSUME NEW r \in Runners, NEW d \in Optional(Declarations), NEW b \in Optional(BindingSets),
             NEW s \in Optional(Subscriptions), NEW p \in Profiles, register(r, d, b, s, p)
      PROVE  Registry' /\ KeepsRunners
  BY <1>6, Registered
<1>7. ASSUME NEW r \in Runners, RefuseVersion(r) \/ pause_fact(r) \/ grant(r)
      PROVE  Registry' /\ KeepsRunners
  BY <1>7, RowsUntouched DEF RefuseVersion, pause_fact, grant
<1>8. ASSUME NEW r \in Runners, NEW c \in Chunks, claim(r, c) \/ ClaimBlocked(r, c) \/ release(r, c)
      PROVE  Registry' /\ KeepsRunners
  BY <1>8, RowsUntouched DEF claim, ClaimBlocked, release
<1>9. CASE RunnerCalls BY <1>6, <1>7, <1>8, <1>9 DEF RunnerCalls
<1>10. QED BY <1>1, <1>5, <1>9 DEF Next

-----------------------------------------------------------------------------
(* The tokens.                                                               *)
LEMMA TokensUntouched ==
    ASSUME Credentials, KeepsRunners, UNCHANGED <<token, revoked>>, enrolling' \subseteq enrolling
    PROVE  Credentials'
BY DEF Credentials, KeepsRunners

(* replace_token, for a runner that exists.                                  *)
LEMMA TokensReplaced ==
    ASSUME Credentials, KeepsRunners, NEW r \in Known, NEW k, Replaced(r, k), enrolling' \subseteq enrolling
    PROVE  Credentials'
<1>1. r \in Known' BY DEF KeepsRunners
<1>2. \A q \in Known : q \in Known' BY DEF KeepsRunners
<1>3. /\ token' = [x \in Tokens |-> IF x = k THEN r ELSE IF x \in Held(r) THEN None ELSE token[x]]
      /\ revoked' = [x \in Tokens |-> IF x \in Held(r) THEN r ELSE revoked[x]]
  BY DEF Replaced
<1>4. \A x \in Tokens : token'[x] \in Known' \cup {None} /\ revoked'[x] \in Known' \cup {None}
  BY <1>1, <1>2, <1>3 DEF Credentials
<1>5. QED BY <1>2, <1>3, <1>4 DEF Credentials

LEMMA TokenAdded ==
    ASSUME Credentials, KeepsRunners, NEW r \in Known', NEW k \in Tokens,
           token' = [token EXCEPT ![k] = r], UNCHANGED <<revoked, enrolling>>
    PROVE  Credentials'
BY DEF Credentials, KeepsRunners

LEMMA CredentialsKept ==
    ASSUME Registry, Credentials, Next, ~reset
    PROVE  Credentials'
<1>0. KeepsRunners BY RegistryKept
<1>1. CASE Operate
  <2>1. ASSUME NEW r \in Runners, NEW k \in Tokens, NEW t \in Optional(Tenants), NEW h \in Optional(Hosts),
               NEW d \in Optional(Declarations), add_runner(r, k, t, h, d)
        PROVE  Credentials'
    <3>1. r \in Known' BY <2>1, AddRow
    <3>2. token' = [token EXCEPT ![k] = r] /\ UNCHANGED <<revoked, enrolling>>
      BY <2>1 DEF add_runner, Added
    <3>3. QED BY <1>0, <3>1, <3>2, TokenAdded
  <2>2. ASSUME NEW r \in Runners, NEW t, enroll(r, t) PROVE Credentials'
    <3>1. enrolling' = enrolling \cup {r} /\ UNCHANGED <<token, revoked>> /\ r \in Known
      BY <2>2 DEF enroll, Known
    <3>2. QED BY <1>0, <3>1 DEF Credentials, KeepsRunners
  <2>3. ASSUME NEW r \in Runners, NEW k \in Tokens, issue(r, k) PROVE Credentials'
    <3>1. r \in Known /\ Replaced(r, k) /\ enrolling' \subseteq enrolling BY <2>3 DEF issue, Credentials
    <3>2. QED BY <1>0, <3>1, TokensReplaced
  <2>4. ASSUME NEW r \in Runners, revoke_token(r) \/ retire(r) PROVE Credentials'
    <3>1. r \in Known /\ Replaced(r, None) /\ enrolling' \subseteq enrolling
      BY <2>4 DEF revoke_token, retire, Known
    <3>2. QED BY <1>0, <3>1, TokensReplaced
  <2>5. CASE UNCHANGED credentials BY SMTT(30), <1>0, <2>5, TokensUntouched DEF credentials
  <2>6. QED
    BY <1>1, <2>1, <2>2, <2>3, <2>4, <2>5
    DEF Operate, seed_tenant, seed_project, seed_chunk, set_paused, set_runner_projects, add_host,
        AdoptionConflict, arm, credentials
<1>2. CASE HostCalls
  <2>1. ASSUME NEW h \in Hosts, NEW r \in Runners, NEW k \in Tokens, NEW d \in Optional(Declarations),
               add_host_runner(h, r, k, d)
        PROVE  Credentials'
    <3>1. r \in Known' BY <2>1, AddHostRow
    <3>2. token' = [token EXCEPT ![k] = r] /\ UNCHANGED <<revoked, enrolling>>
      BY <2>1 DEF add_host_runner, Added
    <3>3. QED BY <1>0, <3>1, <3>2, TokenAdded
  <2>2. ASSUME NEW h \in Hosts, NEW r \in Runners, NEW force,
               retire_host_runner(h, r, force) \/ RetireInterrupted(h, r, force)
        PROVE  Credentials'
    <3>1. r \in Known BY <2>2 DEF retire_host_runner, RetireInterrupted, RetireAnswer, Known
    <3>2. enrolling' \subseteq enrolling /\ (UNCHANGED <<token, revoked>> \/ Replaced(r, None))
      BY <2>2 DEF retire_host_runner, RetireInterrupted, Retired
    <3>3. QED BY <1>0, <3>1, <3>2, TokensUntouched, TokensReplaced
  <2>3. CASE UNCHANGED credentials BY <1>0, <2>3, TokensUntouched DEF credentials
  <2>4. QED
    BY ZenonT(60), <1>2, <2>1, <2>2, <2>3 DEF HostCalls, report_host, RetireConflict, credentials
<1>3. CASE RunnerCalls
  <2>1. UNCHANGED credentials
    <3>1. \A r, d, b, s, p : register(r, d, b, s, p) => UNCHANGED credentials BY DEF register
    <3>2. \A r : RefuseVersion(r) \/ pause_fact(r) \/ grant(r) => UNCHANGED credentials
      BY DEF RefuseVersion, pause_fact, grant
    <3>3. \A r, c : claim(r, c) \/ ClaimBlocked(r, c) \/ release(r, c) => UNCHANGED credentials
      BY DEF claim, ClaimBlocked, release
    <3>4. QED BY <1>3, <3>1, <3>2, <3>3 DEF RunnerCalls
  <2>2. QED BY <1>0, <2>1, TokensUntouched DEF credentials
<1>4. QED BY <1>1, <1>2, <1>3 DEF Next

-----------------------------------------------------------------------------
(* The chunks held.                                                          *)
LEMMA WorkUntouched ==
    ASSUME Registry, Work, KeepsRunners, UNCHANGED <<queue, claiming>>,
           holder' \in [Chunks -> Runners \cup {None}],
           \A c \in Chunks : holder'[c] # None => holder'[c] = holder[c]
    PROVE  Work'
<1>1. \A c \in Chunks : holder'[c] # None =>
          holder'[c] \in Known' /\ ChunkProject[c][1] = runner'[holder'[c]].tenant
  BY DEF Work, KeepsRunners
<1>2. \A r \in Runners : claiming[r] # None =>
          r \in Known' /\ ChunkProject[claiming[r]][1] = runner'[r].tenant
  BY DEF Work, KeepsRunners
<1>3. QED BY <1>1, <1>2 DEF Work

LEMMA WorkKept ==
    ASSUME Registry, Work, Next, ~reset
    PROVE  Work'
<1>0. KeepsRunners BY RegistryKept
<1>h. holder \in [Chunks -> Runners \cup {None}] BY DEF Work, Known
<1>1. CASE UNCHANGED work BY <1>0, <1>h, <1>1, WorkUntouched DEF work
<1>2. ASSUME NEW c \in Chunks, seed_chunk(c) PROVE Work'
  <2>1. /\ queue' = Append(queue, c) /\ \A i \in 1..Len(queue) : queue[i] # c
        /\ UNCHANGED <<runner, holder, claiming>>
    BY <1>2 DEF seed_chunk, rows
  <2>2. /\ queue' \in Seq(Chunks) /\ Len(queue') = Len(queue) + 1
        /\ queue'[Len(queue) + 1] = c /\ \A i \in 1..Len(queue) : queue'[i] = queue[i]
    BY <2>1 DEF Work
  <2>3. \A i, j \in 1..Len(queue') : queue'[i] = queue'[j] => i = j BY <2>1, <2>2 DEF Work
  <2>4. Known' = Known BY <2>1 DEF Known
  <2>5. QED BY <2>1, <2>2, <2>3, <2>4 DEF Work
<1>3. ASSUME NEW h, NEW r \in Runners, NEW force, retire_host_runner(h, r, force) PROVE Work'
  <2>1. /\ holder' = [c \in Chunks |-> IF holder[c] = r THEN None ELSE holder[c]]
        /\ UNCHANGED <<queue, claiming>>
    BY <1>3 DEF retire_host_runner
  <2>2. QED BY <1>0, <1>h, <2>1, WorkUntouched
<1>4. ASSUME NEW r \in Runners, NEW c \in Chunks, claim(r, c) PROVE Work'
  <2>1. /\ r \in Known /\ ChunkProject[c][1] = runner[r].tenant
        /\ claiming' = [claiming EXCEPT ![r] = c] /\ UNCHANGED <<runner, queue, holder>>
    BY <1>4 DEF claim, Calls, ClaimAnswer, Visible, Known, rows
  <2>2. Known' = Known BY <2>1 DEF Known
  <2>3. \A q \in Runners : claiming'[q] # None =>
            q \in Known /\ ChunkProject[claiming'[q]][1] = runner[q].tenant
    BY <2>1 DEF Work
  <2>4. claiming' \in [Runners -> Chunks \cup {None}] BY <2>1 DEF Work
  <2>5. QED BY <2>1, <2>2, <2>3, <2>4 DEF Work
<1>5. ASSUME NEW r \in Runners, grant(r) PROVE Work'
  <2>1. /\ claiming[r] # None /\ UNCHANGED <<runner, queue>>
        /\ holder' = [holder EXCEPT ![claiming[r]] = r] /\ claiming' = [claiming EXCEPT ![r] = None]
    BY <1>5 DEF grant, rows
  <2>2. Known' = Known BY <2>1 DEF Known
  <2>3. claiming[r] \in Chunks /\ r \in Known /\ ChunkProject[claiming[r]][1] = runner[r].tenant
    BY <2>1 DEF Work
  <2>4. /\ holder' \in [Chunks -> Known \cup {None}]
        /\ \A c \in Chunks : holder'[c] # None => ChunkProject[c][1] = runner[holder'[c]].tenant
    BY <2>1, <2>3 DEF Work
  <2>5. /\ claiming' \in [Runners -> Chunks \cup {None}]
        /\ \A q \in Runners : claiming'[q] # None => claiming'[q] = claiming[q]
    BY <2>1 DEF Work
  <2>6. QED BY <2>1, <2>2, <2>4, <2>5 DEF Work
<1>6. ASSUME NEW r \in Runners, NEW c \in Chunks, release(r, c) PROVE Work'
  <2>1. holder' = [holder EXCEPT ![c] = None] /\ UNCHANGED <<queue, claiming>> BY <1>6 DEF release
  <2>2. QED BY <1>0, <1>h, <2>1, WorkUntouched
<1>7. CASE Operate
  <2>1. UNCHANGED work \/ \E c \in Chunks : seed_chunk(c)
    BY <1>7 DEF Operate, seed_tenant, seed_project, add_runner, Added, enroll, issue, revoke_token, retire,
        set_paused, set_runner_projects, add_host, AdoptionConflict, arm
  <2>2. QED BY <1>1, <1>2, <2>1
<1>8. CASE HostCalls
  <2>1. \A h, n, W, S : report_host(h, n, W, S) => UNCHANGED work BY DEF report_host
  <2>2. \A h, r, k, d : add_host_runner(h, r, k, d) => UNCHANGED work BY DEF add_host_runner, Added
  <2>3. \A h, r, force : RetireConflict(h, r, force) \/ RetireInterrupted(h, r, force) => UNCHANGED work
    BY DEF RetireConflict, RetireInterrupted
  <2>4. QED BY <1>1, <1>3, <1>8, <2>1, <2>2, <2>3 DEF HostCalls
<1>9. CASE RunnerCalls
  <2>1. \A r, d, b, s, p : register(r, d, b, s, p) => UNCHANGED work BY DEF register
  <2>2. \A r, c : RefuseVersion(r) \/ pause_fact(r) \/ ClaimBlocked(r, c) => UNCHANGED work
    BY DEF RefuseVersion, pause_fact, ClaimBlocked
  <2>3. QED BY <1>1, <1>4, <1>5, <1>6, <1>9, <2>1, <2>2 DEF RunnerCalls
<1>10. QED BY <1>7, <1>8, <1>9 DEF Next

-----------------------------------------------------------------------------
LEMMA BoundsKept ==
    ASSUME Bounds, Next
    PROVE  Bounds'
<1>1. calls' \in 0..MaxCalls BY FleetAssumption DEF Next, Within, Bounds
<1>2. CASE Operate
  <2> DEFINE Quiet == UNCHANGED reported /\ levers' \subseteq Levers
  <2>1. \A r, k, t, h, d : add_runner(r, k, t, h, d) => Quiet BY DEF add_runner, Added, Bounds
  <2>2. /\ \A r, t : enroll(r, t) => Quiet
        /\ \A r, k : issue(r, k) => Quiet
        /\ \A r : revoke_token(r) \/ retire(r) \/ set_paused(r) => Quiet
        /\ \A r, d : set_runner_projects(r, d) => Quiet
    BY DEF enroll, issue, revoke_token, retire, set_paused, set_runner_projects, Bounds
  <2>3. /\ \A t : seed_tenant(t) \/ seed_project(t) \/ seed_chunk(t) => Quiet
        /\ \A h, n, t, A, k : add_host(h, n, t, A, k) => Quiet
    BY DEF seed_tenant, seed_project, seed_chunk, add_host, Bounds
  <2>4. /\ \A n, t, A, k : AdoptionConflict(n, t, A, k) => Quiet
        /\ reset => Quiet
        /\ \A l \in Levers : arm(l) => Quiet
    BY DEF AdoptionConflict, reset, arm, Bounds
  <2> HIDE DEF Quiet
  <2>5. Quiet BY <1>2, <2>1, <2>2, <2>3, <2>4 DEF Operate
  <2>6. QED BY <1>1, <2>5 DEF Bounds, Quiet
<1>3. CASE HostCalls
  <2>1. \A h, n, W, S : report_host(h, n, W, S) => UNCHANGED reported /\ levers' \subseteq levers
    BY DEF report_host
  <2>2. \A h, r, k, d : add_host_runner(h, r, k, d) => UNCHANGED reported /\ levers' \subseteq levers
    BY DEF add_host_runner, Added
  <2>3. \A h, r, force : retire_host_runner(h, r, force) \/ RetireConflict(h, r, force)
                             \/ RetireInterrupted(h, r, force)
                                 => UNCHANGED reported /\ levers' \subseteq levers
    BY DEF retire_host_runner, RetireConflict, RetireInterrupted
  <2>4. UNCHANGED reported /\ levers' \subseteq levers BY <1>3, <2>1, <2>2, <2>3 DEF HostCalls
  <2>5. QED BY <1>1, <2>4 DEF Bounds
<1>4. CASE RunnerCalls
  <2>1. \A r, d, b, s, p : register(r, d, b, s, p) => UNCHANGED <<reported, levers>> BY DEF register
  <2>2. \A r, c : RefuseVersion(r) \/ grant(r) \/ claim(r, c) \/ ClaimBlocked(r, c) \/ release(r, c)
                     => UNCHANGED reported /\ levers' \subseteq levers
    BY DEF RefuseVersion, grant, claim, ClaimBlocked, release
  <2>3. \A r \in Runners : pause_fact(r) => UNCHANGED levers /\ reported' \subseteq reported \cup {r}
    BY DEF pause_fact
  <2>4. reported' \subseteq Runners /\ levers' \subseteq levers
    BY <1>4, <2>1, <2>2, <2>3 DEF RunnerCalls, Bounds
  <2>5. QED BY <1>1, <2>4 DEF Bounds
<1>5. QED BY <1>2, <1>3, <1>4 DEF Next

(* A fresh hub, and one a reset leaves behind.                               *)
Fresh ==
    /\ tenants = {FirstTenant} /\ projects = {<<FirstTenant, DefaultSlug>>}
    /\ runner = [r \in Runners |-> None] /\ host = [h \in Hosts |-> None]
    /\ token = [k \in Tokens |-> None] /\ revoked = [k \in Tokens |-> None] /\ enrolling = {}
    /\ queue = << >> /\ holder = [c \in Chunks |-> None]
    /\ claiming \in [Runners -> {None}]

LEMMA FreshFits == Fresh => Registry /\ Credentials /\ Work
<1> SUFFICES ASSUME Fresh PROVE Registry /\ Credentials /\ Work OBVIOUS
<1>1. Known = {} BY DEF Fresh, Known
<1>2. Registry BY <1>1, FleetAssumption DEF Fresh, Registry
<1>3. Credentials BY <1>1 DEF Fresh, Credentials
<1>4. Work BY <1>1 DEF Fresh, Work
<1>5. QED BY <1>2, <1>3, <1>4

LEMMA ResetFits ==
    ASSUME Work, reset
    PROVE  (Registry /\ Credentials /\ Work)'
<1>1. Fresh' BY DEF reset, TokensCleared, Work, Fresh
<1>2. (Fresh => Registry /\ Credentials /\ Work)' BY FreshFits, PTL
<1>3. QED BY <1>1, <1>2

LEMMA FleetInit == Init => FleetInv
<1>1. Init => Fresh BY DEF Init, Fresh
<1>2. Init => Bounds BY FleetAssumption DEF Init, Bounds
<1>3. QED BY <1>1, <1>2, FreshFits DEF FleetInv

LEMMA FleetStep == FleetInv /\ [Next]_vars => FleetInv'
<1> SUFFICES ASSUME FleetInv, [Next]_vars PROVE FleetInv' OBVIOUS
<1>1. CASE Next /\ reset BY <1>1, ResetFits, BoundsKept DEF FleetInv
<1>2. CASE Next /\ ~reset BY <1>2, RegistryKept, CredentialsKept, WorkKept, BoundsKept DEF FleetInv
<1>3. CASE UNCHANGED vars
  <2>1. UNCHANGED <<tenants, projects, runner, host, token, revoked, enrolling>>
        /\ UNCHANGED <<queue, holder, claiming, reported, levers, calls>>
    BY <1>3 DEF vars, rows, credentials, work
  <2>2. Known' = Known BY <2>1 DEF Known
  <2>3. Registry' /\ Credentials' BY <2>1, <2>2 DEF FleetInv, Registry, Credentials
  <2>4. Work' /\ Bounds' BY <2>1, <2>2 DEF FleetInv, Work, Bounds
  <2>5. QED BY <2>3, <2>4 DEF FleetInv
<1>4. QED BY <1>1, <1>2, <1>3

(* The invariant of the registry and the queue, for every fleet.             *)
THEOREM FleetInvariant == Spec => []FleetInv
BY FleetInit, FleetStep, PTL DEF Spec

(* Every row keeps its shape and every token, rotation and route names a     *)
(* runner that exists: the store the fleet routes write has no dangling      *)
(* reference, whichever calls a rotation or a claim is interleaved with.     *)
THEOREM TypeCorrect == Spec => []TypeOK
<1>1. FleetInv => TypeOK
  <2> SUFFICES ASSUME FleetInv PROVE TypeOK OBVIOUS
  <2>1. Known \subseteq Runners BY DEF Known
  <2>2. /\ tenants \subseteq Tenants /\ projects \subseteq tenants \X Slugs
        /\ runner \in [Runners -> RunnerRow \cup {None}] /\ host \in [Hosts -> HostRow \cup {None}]
    BY DEF FleetInv, Registry
  <2>3. /\ token \in [Tokens -> Runners \cup {None}] /\ revoked \in [Tokens -> Runners \cup {None}]
        /\ \A k \in Tokens : {token[k], revoked[k]} \ {None} \subseteq Known
        /\ enrolling \subseteq Known
    BY <2>1 DEF FleetInv, Credentials
  <2>4. /\ queue \in Seq(Chunks) /\ \A i, j \in 1..Len(queue) : queue[i] = queue[j] => i = j
        /\ holder \in [Chunks -> Runners \cup {None}] /\ claiming \in [Runners -> Chunks \cup {None}]
    BY <2>1 DEF FleetInv, Work
  <2>5. QED BY <2>2, <2>3, <2>4 DEF FleetInv, Bounds, TypeOK, Known
<1>2. QED BY <1>1, FleetInvariant, PTL

(* Tenants stay apart: a runner stands under a host of its own tenant,       *)
(* serves its projects and holds its chunks, whoever made the calls and      *)
(* whatever came between a claim's checks and its grant (add_host,           *)
(* add_host_runner, register, claim).                                        *)
THEOREM TenantsStayApart == Spec => []TenantsApart
<1>1. FleetInv => TenantsApart
  <2> SUFFICES ASSUME FleetInv PROVE TenantsApart OBVIOUS
  <2>1. ASSUME NEW r \in Runners, runner[r] # None
        PROVE  /\ runner[r].host # None =>
                     host[runner[r].host] # None /\ host[runner[r].host].tenant = runner[r].tenant
               /\ \A p \in ServedProjects(r) : p \in projects /\ p[1] = runner[r].tenant
    BY <2>1 DEF FleetInv, Registry, Known, Fits, ServedProjects
  <2>2. QED BY <2>1 DEF FleetInv, Work, TenantsApart
<1>2. QED BY <1>1, FleetInvariant, PTL

(* GET /identity and the fleet gate agree on every token, also on the one a  *)
(* rotation leaves with a runner that was retired meanwhile; and the answer  *)
(* is only ever about a runner that exists, so neither route meets a token   *)
(* whose row is gone.                                                        *)
THEOREM IdentityTold ==
    Spec => [](IdentityAgrees
               /\ \A k \in Tokens : ~Unissued(k) => runner[Identity(k).runner] \in RunnerRow)
<1>1. FleetInv => IdentityAgrees
  <2> SUFFICES ASSUME FleetInv, NEW k \in Tokens
               PROVE  /\ (Identity(k).answer = "known") <=> Admitted(k)
                      /\ Admitted(k) => Identity(k).runner = token[k]
                      /\ Identity(k).answer = "retired" => runner[Identity(k).runner].retired
                      /\ Identity(k).answer = "unknown" => Unissued(k)
      BY DEF IdentityAgrees
  <2>1. CASE token[k] # None BY <2>1 DEF Identity, Admitted
  <2>2. CASE token[k] = None /\ revoked[k] = None BY <2>2 DEF Identity, Admitted, Unissued
  <2>3. CASE token[k] = None /\ revoked[k] # None BY <2>3 DEF Identity, Admitted
  <2>4. QED BY <2>1, <2>2, <2>3
<1>2. FleetInv => \A k \in Tokens : ~Unissued(k) => runner[Identity(k).runner] \in RunnerRow
  <2> SUFFICES ASSUME FleetInv, NEW k \in Tokens, ~Unissued(k)
               PROVE  runner[Identity(k).runner] \in RunnerRow
      OBVIOUS
  <2>1. Identity(k).runner = IF token[k] # None THEN token[k] ELSE revoked[k] BY DEF Identity, Unissued
  <2>2. Identity(k).runner \in Known BY <2>1 DEF FleetInv, Credentials, Unissued
  <2>3. QED BY <2>2, RowShape DEF FleetInv
<1>3. QED BY <1>1, <1>2, FleetInvariant, PTL

-----------------------------------------------------------------------------
(* The scan of the queue.  A set of naturals that is not empty has a least   *)
(* member, so a set that holds 0 and what follows each of its members holds  *)
(* them all: what the recursion of Scans is proved with.                     *)
LEMMA Least ==
    ASSUME NEW T, T \subseteq Nat, T # {}
    PROVE  \E n \in T : \A m \in T : n <= m
<1> DEFINE R == OpToRel(<, Nat)
<1>1. IsWellFoundedOn(R, Nat) BY NatLessThanWellFounded
<1>2. \A x, y \in Nat : x < y => <<x, y>> \in R BY DEF OpToRel
<1> HIDE DEF R
<1>3. PICK x \in T : \A y \in T : <<y, x>> \notin R BY <1>1, WFMin
<1>4. \A y \in T : x <= y
  <2> TAKE y \in T
  <2>1. x \in Nat /\ y \in Nat /\ ~(y < x) BY <1>2, <1>3
  <2>2. QED BY <2>1
<1>5. QED BY <1>4

LEMMA Climb ==
    ASSUME NEW n \in Nat, NEW T, 0 \in T, \A i \in 1..n : i - 1 \in T => i \in T
    PROVE  0..n \subseteq T
<1> DEFINE Left == (0..n) \ T
<1>1. SUFFICES ASSUME Left # {} PROVE FALSE OBVIOUS
<1>2. PICK i \in Left : \A j \in Left : i <= j
  <2>1. Left \subseteq Nat OBVIOUS
  <2> HIDE DEF Left
  <2>2. QED BY <1>1, <2>1, Least
<1>3. i \in 1..n /\ i - 1 \in 0..n /\ ~(i <= i - 1) BY <1>2
<1>4. i - 1 \in T BY <1>2, <1>3
<1>5. QED BY <1>2, <1>3, <1>4

(* The recursive definition of Scans defines what it says.                   *)
LEMMA ScansUnfold ==
    ASSUME NEW entries, NEW served, NEW hold, NEW narrowed, Len(entries) \in Nat
    PROVE  LET S == Scans(entries, served, hold, narrowed)
           IN  /\ S[0] = Start
               /\ \A i \in 1..Len(entries) : S[i] = Scanned(S[i - 1], entries[i], served, hold, narrowed)
<1> DEFINE Up(f, m) == f = [i \in 0..m |->
                IF i = 0 THEN Start ELSE Scanned(f[i - 1], entries[i], served, hold, narrowed)]
           n == Len(entries)
           Good == {m \in 0..n : \E f : Up(f, m)}
<1>1. 0 \in Good
  <2>1. Up([i \in 0..0 |-> Start], 0) OBVIOUS
  <2> HIDE DEF Up
  <2>2. QED BY <2>1
<1>2. ASSUME NEW m \in 1..n, m - 1 \in Good PROVE m \in Good
  <2>1. PICK f : Up(f, m - 1) BY <1>2
  <2> DEFINE g == [i \in 0..m |->
                     IF i = m THEN Scanned(f[m - 1], entries[m], served, hold, narrowed) ELSE f[i]]
  <2>2. \A i \in 0..(m - 1) :
          f[i] = IF i = 0 THEN Start ELSE Scanned(f[i - 1], entries[i], served, hold, narrowed)
    BY <2>1
  <2>3. \A i \in 0..m :
          g[i] = IF i = 0 THEN Start ELSE Scanned(g[i - 1], entries[i], served, hold, narrowed)
    BY <2>2
  <2>4. Up(g, m) BY <2>3
  <2> HIDE DEF Up
  <2>5. \E h : Up(h, m) BY <2>4
  <2>6. QED BY <2>5
<1>3. n \in Good
  <2> HIDE DEF Good
  <2>1. 0..n \subseteq Good BY <1>1, <1>2, Climb
  <2>2. QED BY <2>1
<1>4. \E f : Up(f, n) BY <1>3
<1>5. Scans(entries, served, hold, narrowed) = CHOOSE f : Up(f, n) BY DEF Scans
<1>6. Up(Scans(entries, served, hold, narrowed), n) BY <1>4, <1>5
<1>7. QED BY <1>6

EntrySeq(entries) ==
    /\ Len(entries) \in Nat
    /\ \A i \in 1..Len(entries) :
          entries[i].ready \in BOOLEAN /\ entries[i].usable \in BOOLEAN /\ entries[i].chunk # None

Due(entries, served) == {i \in 1..Len(entries) : entries[i].ready /\ entries[i].project \in served}

IsFirst(pick, entries, can) ==
    IF can = {} THEN pick = None
    ELSE \E k \in can : pick = entries[k].chunk /\ \A j \in can : k <= j

(* The state of the scan after i entries: while it goes on, none of them may *)
(* be offered, and it stopped the projects of those that hold it up; once it *)
(* is over, its pick is the first that may be.                               *)
ScannedTo(i, st, entries, served, hold, narrowed) ==
    LET can == Offerable(entries, served, hold, narrowed)
    IN  /\ st = [pick |-> st.pick, over |-> st.over, stopped |-> st.stopped] /\ st.over \in BOOLEAN
        /\ ~st.over =>
              /\ st.pick = None
              /\ \A j \in can : j > i
              /\ \A x : x \in st.stopped <=>
                    /\ hold /\ narrowed
                    /\ \E j \in Due(entries, served) : j <= i /\ ~entries[j].usable /\ entries[j].project = x
              /\ hold /\ ~narrowed => \A j \in Due(entries, served) : j <= i => entries[j].usable
        /\ st.over => IsFirst(st.pick, entries, can)

LEMMA ScanStep ==
    ASSUME NEW entries, EntrySeq(entries), NEW served, NEW hold \in BOOLEAN, NEW narrowed \in BOOLEAN,
           NEW i \in 1..Len(entries), NEW st, ScannedTo(i - 1, st, entries, served, hold, narrowed)
    PROVE  ScannedTo(i, Scanned(st, entries[i], served, hold, narrowed), entries, served, hold, narrowed)
<1> DEFINE e == entries[i]
           due == Due(entries, served)
           can == Offerable(entries, served, hold, narrowed)
           next == Scanned(st, e, served, hold, narrowed)
<1>1. /\ due \subseteq 1..Len(entries) /\ can \subseteq due
      /\ i \in due <=> e.ready /\ e.project \in served
      /\ \A j \in due : j \in can <=>
            /\ entries[j].usable
            /\ hold => \A k \in due :
                  k < j /\ (narrowed => entries[k].project = entries[j].project) => entries[k].usable
  BY DEF Due, Offerable
<1>2. st = [pick |-> st.pick, over |-> st.over, stopped |-> st.stopped] /\ st.over \in BOOLEAN
  BY DEF ScannedTo
<1>3. ~st.over =>
        /\ st.pick = None
        /\ \A j \in can : j > i - 1
        /\ \A x : x \in st.stopped <=>
              hold /\ narrowed /\ \E j \in due : j <= i - 1 /\ ~entries[j].usable /\ entries[j].project = x
        /\ hold /\ ~narrowed => \A j \in due : j <= i - 1 => entries[j].usable
  BY DEF ScannedTo
<1>4. e.ready \in BOOLEAN /\ e.usable \in BOOLEAN /\ e.chunk # None /\ i \in Nat /\ Len(entries) \in Nat
  BY DEF EntrySeq
<1>5. \A j \in due : (j <= i <=> j <= i - 1 \/ j = i) /\ (j > i <=> j > i - 1 /\ j # i) BY <1>1, <1>4
<1> HIDE DEF can, due
<1>6. CASE st.over
  <2>1. next = st BY <1>6 DEF Scanned
  <2>2. QED BY <1>2, <1>6, <2>1 DEF ScannedTo, can, due
<1>7. CASE ~st.over /\ (i \notin due \/ e.project \in st.stopped)
  <2>1. next = st BY <1>1, <1>7 DEF Scanned
  <2>2. i \notin can
    <3>1. SUFFICES ASSUME i \in can PROVE FALSE OBVIOUS
    <3>2. e.project \in st.stopped /\ i \in due BY <1>1, <1>7, <3>1
    <3>3. /\ hold /\ narrowed
          /\ \E j \in due : j <= i - 1 /\ ~entries[j].usable /\ entries[j].project = e.project
      BY <1>3, <1>7, <3>2
    <3>4. PICK j \in due : j <= i - 1 /\ ~entries[j].usable /\ entries[j].project = e.project BY <3>3
    <3>5. j < i BY <1>1, <1>4, <3>4
    <3>6. QED BY <1>1, <3>1, <3>2, <3>3, <3>4, <3>5
  <2>3. \A j \in can : j > i BY <1>1, <1>3, <1>5, <1>7, <2>2
  <2>4. \A x : x \in st.stopped <=>
          hold /\ narrowed /\ \E j \in due : j <= i /\ ~entries[j].usable /\ entries[j].project = x
    BY <1>3, <1>5, <1>7
  <2>5. hold /\ ~narrowed => \A j \in due : j <= i => entries[j].usable BY <1>3, <1>5, <1>7
  <2>6. QED BY <1>2, <1>3, <1>7, <2>1, <2>3, <2>4, <2>5 DEF ScannedTo, can, due
<1>8. CASE ~st.over /\ i \in due /\ e.project \notin st.stopped /\ e.usable
  <2>1. next = [st EXCEPT !.pick = e.chunk, !.over = TRUE] BY <1>1, <1>8 DEF Scanned
  <2>2. next.over /\ next.pick = e.chunk
        /\ next = [pick |-> next.pick, over |-> next.over, stopped |-> next.stopped]
    BY <1>2, <2>1
  <2>3. i \in can
    <3>1. ASSUME hold, NEW k \in due, k < i, narrowed => entries[k].project = e.project
          PROVE  entries[k].usable
      <4>1. k <= i - 1 BY <1>1, <1>4, <3>1
      <4>2. CASE narrowed BY <1>3, <1>8, <3>1, <4>1, <4>2
      <4>3. CASE ~narrowed BY <1>3, <1>8, <3>1, <4>1, <4>3
      <4>4. QED BY <4>2, <4>3
    <3>2. QED BY <1>1, <1>8, <3>1
  <2>4. \A j \in can : i <= j BY <1>1, <1>3, <1>4, <1>8
  <2>5. IsFirst(next.pick, entries, can) BY <2>2, <2>3, <2>4 DEF IsFirst
  <2>6. QED BY <2>2, <2>5 DEF ScannedTo, can
<1>9. CASE ~st.over /\ i \in due /\ e.project \notin st.stopped /\ ~e.usable
  <2>1. i \notin can /\ \A j \in can : j > i BY <1>1, <1>3, <1>5, <1>9
  <2>2. CASE ~hold
    <3>1. next = st BY <1>1, <1>9, <2>2 DEF Scanned
    <3>2. QED BY <1>2, <1>3, <1>9, <2>1, <2>2, <3>1 DEF ScannedTo, can, due
  <2>3. CASE hold /\ ~narrowed
    <3>1. next = [st EXCEPT !.over = TRUE] BY <1>1, <1>9, <2>3 DEF Scanned, HoldStopsScan
    <3>2. next.over /\ next.pick = None
          /\ next = [pick |-> next.pick, over |-> next.over, stopped |-> next.stopped]
      BY <1>2, <1>3, <1>9, <3>1
    <3>3. can = {}
      <4>1. SUFFICES ASSUME NEW j \in can PROVE FALSE OBVIOUS
      <4>2. j \in due /\ i < j BY <1>1, <1>4, <2>1
      <4>3. QED BY <1>1, <1>9, <2>3, <4>2
    <3>4. QED BY <3>2, <3>3 DEF ScannedTo, IsFirst, can
  <2>4. CASE hold /\ narrowed
    <3>1. next = [st EXCEPT !.stopped = @ \cup {e.project}] BY <1>1, <1>9, <2>4 DEF Scanned, HoldStopsScan
    <3>2. /\ ~next.over /\ next.over \in BOOLEAN /\ next.pick = None /\ next.stopped = st.stopped \cup {e.project}
          /\ next = [pick |-> next.pick, over |-> next.over, stopped |-> next.stopped]
      BY <1>2, <1>3, <1>9, <3>1
    <3>3. \A x : x \in next.stopped <=>
             hold /\ narrowed /\ \E j \in due : j <= i /\ ~entries[j].usable /\ entries[j].project = x
      BY <1>3, <1>4, <1>5, <1>9, <2>4, <3>2
    <3>4. QED BY <2>1, <2>4, <3>2, <3>3 DEF ScannedTo, can, due
  <2>5. QED BY <2>2, <2>3, <2>4
<1>10. QED BY <1>4, <1>6, <1>7, <1>8, <1>9

(* The scan answers the first entry that may be offered, for every queue.    *)
LEMMA ScanFindsFirst ==
    ASSUME NEW entries, EntrySeq(entries), NEW served, NEW hold \in BOOLEAN, NEW narrowed \in BOOLEAN
    PROVE  IsFirst(Scan(entries, served, hold, narrowed), entries, Offerable(entries, served, hold, narrowed))
<1> DEFINE S == Scans(entries, served, hold, narrowed)
           n == Len(entries)
           Fine == {i \in 0..n : ScannedTo(i, S[i], entries, served, hold, narrowed)}
<1>1. n \in Nat BY DEF EntrySeq
<1>2. S[0] = Start /\ \A i \in 1..n : S[i] = Scanned(S[i - 1], entries[i], served, hold, narrowed)
  BY <1>1, ScansUnfold
<1> HIDE DEF S
<1>3. ScannedTo(0, S[0], entries, served, hold, narrowed)
  <2>1. \A j \in Due(entries, served) : ~(j <= 0) /\ j > 0 BY <1>1 DEF Due
  <2>2. Offerable(entries, served, hold, narrowed) \subseteq Due(entries, served) BY DEF Offerable, Due
  <2>3. QED BY <1>2, <2>1, <2>2 DEF ScannedTo, Start
<1>4. \A i \in 1..n : i - 1 \in Fine => i \in Fine BY <1>1, <1>2, ScanStep
<1>5. n \in Fine
  <2>1. 0 \in Fine BY <1>1, <1>3
  <2> HIDE DEF Fine
  <2>2. 0..n \subseteq Fine BY <1>1, <1>4, <2>1, Climb
  <2>3. QED BY <1>1, <2>2
<1>6. ScannedTo(n, S[n], entries, served, hold, narrowed) BY <1>5
<1>7. S[n].over \in BOOLEAN BY <1>6 DEF ScannedTo
<1>8. CASE S[n].over BY <1>6, <1>8 DEF ScannedTo, Scan, S
<1>9. CASE ~S[n].over
  <2>1. \A j \in Offerable(entries, served, hold, narrowed) : j \in 1..n /\ j > n
    BY <1>6, <1>9 DEF ScannedTo, Offerable
  <2>2. Offerable(entries, served, hold, narrowed) = {} BY <1>1, <2>1
  <2>3. S[n].pick = None BY <1>6, <1>9 DEF ScannedTo
  <2>4. QED BY <2>2, <2>3 DEF IsFirst, Scan, S
<1>10. QED BY <1>7, <1>8, <1>9

LEMMA QueueIsEntries ==
    ASSUME Work, NEW capabilities
    PROVE  /\ EntrySeq(QueueEntries(capabilities)) /\ Len(QueueEntries(capabilities)) = Len(queue)
           /\ \A i \in 1..Len(queue) :
                 QueueEntries(capabilities)[i] = Entry(queue[i], capabilities) /\ queue[i] \in Chunks
<1>1. Len(queue) \in Nat /\ \A i \in 1..Len(queue) : queue[i] \in Chunks BY DEF Work
<1>2. /\ Len(QueueEntries(capabilities)) = Len(queue)
      /\ \A i \in 1..Len(queue) : QueueEntries(capabilities)[i] = Entry(queue[i], capabilities)
  BY <1>1 DEF QueueEntries
<1>3. \A c \in Chunks :
        /\ Entry(c, capabilities).ready \in BOOLEAN /\ Entry(c, capabilities).usable \in BOOLEAN
        /\ Entry(c, capabilities).chunk # None
  BY FleetAssumption DEF Entry
<1> QED BY <1>1, <1>2, <1>3 DEF EntrySeq

(* The matched peek answers the first chunk that may be offered, for every   *)
(* queue and declaration: the hold that stops a project, or everything, is   *)
(* the one peek_matched documents, and a project not served stalls nothing.  *)
THEOREM PeekFindsFirst == Spec => []PeekIsFirstOfferable
<1>1. FleetInv => PeekIsFirstOfferable
  <2> SUFFICES ASSUME FleetInv, NEW r \in Runners, NEW hold \in BOOLEAN, NEW wanted \in Optional(Declarations)
               PROVE  LET p == runner[r].capabilities
                          can == Offerable(QueueEntries(p), OfferedProjects(r, wanted), hold, wanted # None)
                      IN  IsFirst(peek_matched(r, p, hold, wanted), QueueEntries(p), can)
      BY DEF PeekIsFirstOfferable, IsFirst
  <2>1. EntrySeq(QueueEntries(runner[r].capabilities)) BY QueueIsEntries DEF FleetInv
  <2>2. (wanted # None) \in BOOLEAN OBVIOUS
  <2>3. QED BY <2>1, <2>2, ScanFindsFirst DEF peek_matched
<1>2. QED BY <1>1, FleetInvariant, PTL

(* A peek is worth acting on: the claim of what a runner is shown by the     *)
(* capabilities it registered is granted, because a runner is only offered   *)
(* projects it serves, which are its tenant's.                               *)
THEOREM PeekIsGranted == Spec => []PeekIsClaimable
<1>1. FleetInv => PeekIsClaimable
  <2> SUFFICES ASSUME FleetInv, NEW r \in Runners, runner[r] # None, runner[r].connected,
                      ~runner[r].paused, ~runner[r].retired,
                      NEW hold \in BOOLEAN, NEW wanted \in Optional(Declarations),
                      NEW c, c = peek_matched(r, runner[r].capabilities, hold, wanted), c # None
               PROVE  ClaimAnswer(r, c) = "granted"
      BY DEF PeekIsClaimable
  <2> DEFINE p == runner[r].capabilities
             can == Offerable(QueueEntries(p), OfferedProjects(r, wanted), hold, wanted # None)
  <2>1. IsFirst(c, QueueEntries(p), can)
    <3>1. EntrySeq(QueueEntries(p)) BY QueueIsEntries DEF FleetInv
    <3>2. (wanted # None) \in BOOLEAN OBVIOUS
    <3> HIDE DEF p
    <3>3. QED BY <3>1, <3>2, ScanFindsFirst DEF peek_matched, p
  <2>2. PICK i \in can : c = QueueEntries(p)[i].chunk BY <2>1 DEF IsFirst
  <2>3. /\ i \in 1..Len(QueueEntries(p)) /\ QueueEntries(p)[i].ready /\ QueueEntries(p)[i].usable
        /\ QueueEntries(p)[i].project \in OfferedProjects(r, wanted)
    BY <2>2 DEF Offerable
  <2>4. i \in 1..Len(queue) /\ QueueEntries(p)[i] = Entry(queue[i], p) /\ queue[i] \in Chunks
    BY <2>3, QueueIsEntries DEF FleetInv
  <2>5. /\ c = queue[i] /\ holder[c] = None /\ ~Blocked(c) /\ p \in Workable[c]
        /\ ChunkProject[c] \in OfferedProjects(r, wanted)
    <3> HIDE DEF p, can
    <3>1. /\ Entry(queue[i], p).chunk = queue[i] /\ Entry(queue[i], p).project = ChunkProject[queue[i]]
          /\ Entry(queue[i], p).ready = (holder[queue[i]] = None)
          /\ Entry(queue[i], p).usable = (~Blocked(queue[i]) /\ p \in Workable[queue[i]])
      BY DEF Entry
    <3>2. c = queue[i] BY <2>2, <2>4, <3>1
    <3>3. holder[queue[i]] = None BY <2>3, <2>4, <3>1
    <3>4. ~Blocked(queue[i]) /\ p \in Workable[queue[i]] BY <2>3, <2>4, <3>1
    <3>5. QED BY <2>3, <2>4, <3>1, <3>2, <3>3, <3>4
  <2>6. OfferedProjects(r, wanted) \subseteq ServedProjects(r) BY DEF OfferedProjects, ServedProjects
  <2>7. ChunkProject[c] \in ServedProjects(r) /\ ChunkProject[c][1] = runner[r].tenant
    <3>1. r \in Known BY DEF Known
    <3>2. \A q \in ServedProjects(r) : q[1] = runner[r].tenant
      BY <3>1 DEF ServedProjects, FleetInv, Registry, Fits
    <3>3. QED BY <2>5, <2>6, <3>2
  <2>8. Visible(r, c) BY <2>4, <2>5, <2>7 DEF Visible, Seeded
  <2>9. QED BY <2>5, <2>7, <2>8 DEF ClaimAnswer
<1>2. QED BY <1>1, FleetInvariant, PTL

=============================================================================
