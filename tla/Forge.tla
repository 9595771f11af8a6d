-------------------------------- MODULE Forge --------------------------------
(***************************************************************************)
(* ForgeService, the mock GitHub, over one repository: its branches and    *)
(* pull requests, and the levers that bend them.  (Its issues and the      *)
(* middleware every request passes are in ForgeDesk.)  Routes are served   *)
(* on a thread pool without a lock.  A request is one step, except the two *)
(* that hold a git worktree or a seed repository for long, which are cut   *)
(* where git does its work:                                                *)
(*   creating the repository    claim the path | seed it (or clean up)     *)
(*   landing a pull             check | replay (rebase) | land | record    *)
(* Workers push to the bare repository directly, at any moment.            *)
(*                                                                         *)
(* Titles, bodies, authors and times are left out.                         *)
(***************************************************************************)
EXTENDS ForgeGit

CONSTANTS
    Threads,        \* requests that may be in the forge at once
    Branches,       \* branch names; main is the default branch
    main,
    Kinds,          \* the levers that are armed, over a repository, a pull or a branch
    ArmedRuns,      \* the check runs armed against a revision, "none" for no runs
    Methods,        \* the merge methods asked for
    Proposals,      \* the pulls asked for: <<head, base>>
    MaxPulls,       \* bound: pulls
    MaxCommits,     \* bound: commits in the repository
    MaxArmed        \* bound: levers, and revisions with armed runs, at once

ASSUME ForgeAssumption ==
    /\ main \in Branches
    /\ MaxPulls \in Nat /\ MaxCommits \in Nat \ {0} /\ MaxArmed \in Nat

(* The levers of one repository or pull that this service reads.           *)
StateLevers == {"merge_conflict", "merge_rejected", "merge_commits_disallowed", "stale_branch",
                "mergeable_state", "checks_pending", "checks_failed", "checks_startup_failure",
                "base_checks_failed"}

(* The levers over a branch: protection, and a ruleset whose glob it meets. *)
RuleLevers == {"branch_protected", "ruleset"}

MergeMethods == {"merge", "squash", "rebase"}
CheckStatuses == {"pending", "failed", "success"}

ASSUME InputAssumption ==
    /\ Kinds \subseteq StateLevers \cup RuleLevers /\ ArmedRuns \subseteq CheckStatuses \cup {"none"}
    /\ Methods \subseteq MergeMethods /\ Proposals \subseteq Branches \X Branches

Numbers == 1..MaxPulls
AnyNumber == 0      \* a lever on the whole repository

PullRow == [head : Branches, base : Branches, open : BOOLEAN, merged : BOOLEAN,
            closed_head : 0..MaxCommits, base_pinned : BOOLEAN]

VARIABLES
    made,       \* the path of the bare repository: absent, claimed, served
    refs,       \* refs[b]: the branch's tip, NoCommit if it is not there
    log,        \* the commits
    pulls,      \* pulls[n], for the numbers that are pulls
    levers,     \* armed levers <<kind, number>>
    rules,      \* armed levers <<kind, branch>>
    checks,     \* checks[c]: the named runs armed against a revision
    flight      \* flight[t]: the request a thread holds across git work

vars == <<made, refs, log, pulls, levers, rules, checks, flight>>

Idle == [op |-> "idle"]

Init ==
    /\ made = "absent"
    /\ refs = [b \in Branches |-> NoCommit]
    /\ log = <<>>
    /\ pulls = <<>>
    /\ levers = {} /\ rules = {} /\ checks = <<>>
    /\ flight = [t \in Threads |-> Idle]

-----------------------------------------------------------------------------
(* The stores                                                              *)
Served == made = "served"
Exists(b) == refs[b] # NoCommit
Tip(b) == refs[b]

(* The next number of the repository's counter.                            *)
NextNumber == Cardinality(DOMAIN pulls) + 1

Put(store, n, row) == [k \in DOMAIN store \cup {n} |-> IF k = n THEN row ELSE store[k]]

OpenPulls == {n \in DOMAIN pulls : pulls[n].open}

(* A lever on the repository matches every pull of it.                     *)
Armed(kind, n) == \E k \in {n, AnyNumber} : <<kind, k>> \in levers

(* The lever `find` returns: the one armed first; either may be.           *)
Found(kind, n) == {l \in levers : l[1] = kind /\ l[2] \in {n, AnyNumber}}

-----------------------------------------------------------------------------
(* What a pull is served as                                                *)

(* Live mergeability: a forced state first, then the refs.                 *)
MutStartupFailureIsGreen(n) ==
    IF Armed("merge_conflict", n) THEN "dirty"
    ELSE IF Armed("mergeable_state", n) THEN "unstable"
    ELSE IF Armed("stale_branch", n) THEN "behind"
    ELSE IF Armed("checks_pending", n) \/ Armed("checks_failed", n) THEN "blocked"
    ELSE IF IsMergeable(log, Tip(pulls[n].base), Tip(pulls[n].head)) THEN "clean" ELSE "dirty"
LiveState(n) ==
    IF Armed("merge_conflict", n) THEN "dirty"
    ELSE IF Armed("mergeable_state", n) THEN "unstable"
    ELSE IF Armed("stale_branch", n) THEN "behind"
    ELSE IF Armed("checks_pending", n) \/ Armed("checks_failed", n)
            \/ Armed("checks_startup_failure", n) THEN "blocked"
    ELSE IF IsMergeable(log, Tip(pulls[n].base), Tip(pulls[n].head)) THEN "clean"
    ELSE "dirty"

Mergeability(n) == IF pulls[n].merged \/ ~pulls[n].open THEN "unknown" ELSE LiveState(n)

(* The head sha a pull is served with, frozen once it is closed, and       *)
(* whether there is a base sha: the base's tip, or the one it closed with. *)
(* Without either the read is refused.                                     *)
ViewHead(n) == IF ~pulls[n].open /\ pulls[n].closed_head # NoCommit THEN pulls[n].closed_head ELSE Tip(pulls[n].head)
HasBase(n) == Exists(pulls[n].base) \/ pulls[n].base_pinned

(* The first open pull whose head is at this revision.                     *)
PullsAt(c) == {n \in OpenPulls : Tip(pulls[n].head) = c}
PullAt(c) == CHOOSE n \in PullsAt(c) : \A m \in PullsAt(c) : n <= m

(* The runs of a revision: those armed against it, or one read off the     *)
(* levers of the pull it heads.                                            *)
CheckRuns(c) ==
    IF c \in DOMAIN checks THEN checks[c]
    ELSE LET on(kind) == PullsAt(c) # {} /\ Armed(kind, PullAt(c))
         IN  IF \/ on("checks_failed") \/ on("checks_startup_failure")
                \/ Armed("base_checks_failed", AnyNumber) /\ c = Tip(main)
             THEN {"failed"}
             ELSE IF on("checks_pending") THEN {"pending"} ELSE {"success"}

-----------------------------------------------------------------------------
(* The repository                                                          *)

(* mkdir claims the path: of two creates one goes on.                      *)
ClaimRepository(t) ==
    /\ made = "absent" /\ flight[t] = Idle
    /\ made' = "claimed"
    /\ flight' = [flight EXCEPT ![t] = [op |-> "create"]]
    /\ UNCHANGED <<refs, log, pulls, levers, rules, checks>>

SeedRepository(t) ==
    /\ flight[t].op = "create"
    /\ made' = "served"
    /\ log' = Committed(<<>>, {}, {})
    /\ refs' = [refs EXCEPT ![main] = 1]
    /\ flight' = [flight EXCEPT ![t] = Idle]
    /\ UNCHANGED <<pulls, levers, rules, checks>>

(* Seeding raises: the path is given back, so that a retry may claim it.   *)
SeedFails(t) ==
    /\ flight[t].op = "create"
    /\ made' = "absent"
    /\ flight' = [flight EXCEPT ![t] = Idle]
    /\ UNCHANGED <<refs, log, pulls, levers, rules, checks>>

(* A worker pushes a change to a branch, past the forge.                   *)
Push(b, x) ==
    /\ Served /\ Exists(b) /\ Len(log) < MaxCommits /\ x \notin Holds(log, Tip(b))
    /\ log' = Committed(log, Line(log, Tip(b)), Holds(log, Tip(b)) \cup {x})
    /\ refs' = [refs EXCEPT ![b] = Len(log) + 1]
    /\ UNCHANGED <<made, pulls, levers, rules, checks, flight>>

create_ref(b, c) ==
    /\ Served /\ <<"ruleset", b>> \notin rules /\ ~Exists(b)
    /\ refs' = [refs EXCEPT ![b] = c]
    /\ UNCHANGED <<made, log, pulls, levers, rules, checks, flight>>

update_ref(b, c, force) ==
    /\ Served /\ <<"branch_protected", b>> \notin rules /\ Exists(b)
    /\ force \/ IsAncestor(log, Tip(b), c)
    /\ refs' = [refs EXCEPT ![b] = c]
    /\ UNCHANGED <<made, log, pulls, levers, rules, checks, flight>>

merge_branches(base, head) ==
    /\ Served /\ Exists(base) /\ Exists(head) /\ <<"ruleset", base>> \notin rules
    /\ ~IsAncestor(log, Tip(head), Tip(base))
    /\ IsMergeable(log, Tip(base), Tip(head)) /\ Len(log) < MaxCommits
    /\ log' = Merge(log, Tip(base), Tip(head))
    /\ refs' = [refs EXCEPT ![base] = TipAfter(log, Tip(base), log')]
    /\ UNCHANGED <<made, pulls, levers, rules, checks, flight>>

(* _freeze resolves both branches, and raises where one is gone.           *)
Freezable(n) == Exists(pulls[n].head) /\ Exists(pulls[n].base)
MutCloseUnfrozen(n) == [pulls[n] EXCEPT !.open = FALSE]
Closed(n) == [pulls[n] EXCEPT !.open = FALSE, !.closed_head = Tip(pulls[n].head), !.base_pinned = TRUE]

(* Every open pull of the branch closes with it, in order; the first that  *)
(* cannot be frozen ends the request with the branch still there.          *)
delete_ref(b) ==
    LET over == {n \in OpenPulls : b \in {pulls[n].head, pulls[n].base}}
        stuck == {n \in over : ~Freezable(n)}
        done == {n \in over : \A m \in stuck : n < m}
    IN  /\ Served /\ Exists(b)
        /\ pulls' = [n \in DOMAIN pulls |-> IF n \in done THEN Closed(n) ELSE pulls[n]]
        /\ refs' = IF stuck = {} THEN [refs EXCEPT ![b] = NoCommit] ELSE refs
        /\ UNCHANGED <<made, log, levers, rules, checks, flight>>

-----------------------------------------------------------------------------
(* Pull requests                                                           *)
MutMayOpenAnyHead(head, base) == Exists(base)
MayOpen(head, base) ==
    /\ Exists(head) /\ Exists(base)
    /\ \A n \in OpenPulls : pulls[n].head # head \/ pulls[n].base # base

create_pull(head, base) ==
    /\ Served /\ MayOpen(head, base) /\ Cardinality(DOMAIN pulls) < MaxPulls
    /\ pulls' = Put(pulls, NextNumber,
                    [head |-> head, base |-> base, open |-> TRUE, merged |-> FALSE, closed_head |-> NoCommit, base_pinned |-> FALSE])
    /\ UNCHANGED <<made, refs, log, levers, rules, checks, flight>>

(* Reopening looks for the head of a pull that has not merged, and for     *)
(* nothing else.                                                           *)
set_pull_state(n, open) ==
    /\ Served
    /\ IF ~open
       THEN /\ pulls[n].open => Freezable(n)
            /\ pulls' = [pulls EXCEPT ![n] = IF pulls[n].open THEN Closed(n) ELSE pulls[n]]
       ELSE /\ pulls[n].merged \/ Exists(pulls[n].head)
            /\ pulls' = [pulls EXCEPT ![n].open = TRUE,
                                      ![n].closed_head = IF pulls[n].merged THEN @ ELSE NoCommit,
                                      ![n].base_pinned = @ /\ pulls[n].merged]
    /\ UNCHANGED <<made, refs, log, levers, rules, checks, flight>>

(* What merge_pull refuses before it looks at git; sha is the head the     *)
(* caller read, or NoCommit.                                               *)
MergeAccepted(n, method) ==
    /\ pulls[n].open /\ ~pulls[n].merged
    /\ method = "merge" => ~Armed("merge_commits_disallowed", AnyNumber)
    /\ ~Armed("merge_rejected", n) /\ ~Armed("merge_conflict", n)

Landing(t, n, method) ==
    flight' = [flight EXCEPT ![t] = [op |-> "checked", n |-> n, method |-> method,
                                     head |-> Tip(pulls[n].head), tip |-> NoCommit]]

CheckMerge(t, n, method, sha) ==
    /\ Served /\ flight[t] = Idle
    /\ MergeAccepted(n, method) /\ Exists(pulls[n].head)
    /\ sha \in {NoCommit, Tip(pulls[n].head)}
    /\ Landing(t, n, method)
    /\ UNCHANGED <<made, refs, log, pulls, levers, rules, checks>>

(* The externally_merged lever lands a pull no policy is asked about, a    *)
(* closed one too.                                                         *)
ExternalMerge(t, n, method) ==
    /\ Served /\ flight[t] = Idle
    /\ ~pulls[n].merged /\ Exists(pulls[n].head)
    /\ Landing(t, n, method)
    /\ UNCHANGED <<made, refs, log, pulls, levers, rules, checks>>

(* git resolves both branches again: what lands is the head of this moment. *)
CanLand(n) == Exists(pulls[n].head) /\ Exists(pulls[n].base)
              /\ IsMergeable(log, Tip(pulls[n].base), Tip(pulls[n].head))

LandRefused(t) ==
    /\ flight[t].op = "checked" /\ ~CanLand(flight[t].n)
    /\ flight' = [flight EXCEPT ![t] = Idle]
    /\ UNCHANGED <<made, refs, log, pulls, levers, rules, checks>>

(* merge and squash commit on the base itself.                             *)
LandedRefs(p, tip) == [refs EXCEPT ![p.base] = tip]

Land(t) ==
    LET f == flight[t]
        p == pulls[f.n]
        grown == IF f.method = "merge" THEN Merge(log, Tip(p.base), Tip(p.head))
                                       ELSE Squash(log, Tip(p.base), Tip(p.head))
        tip == TipAfter(log, Tip(p.base), grown)
    IN  /\ f.op = "checked" /\ f.method \in {"merge", "squash"} /\ CanLand(f.n)
        /\ Len(log) < MaxCommits
        /\ log' = grown
        /\ refs' = LandedRefs(p, tip)
        /\ flight' = [flight EXCEPT ![t] = [f EXCEPT !.op = "landed", !.tip = tip]]
        /\ UNCHANGED <<made, pulls, levers, rules, checks>>

(* A rebase is replayed first, on the base of that moment, and the base    *)
(* is set to the result afterwards, wherever it is by then.                *)
Replay(t) ==
    LET f == flight[t]
        p == pulls[f.n]
        grown == Rebase(log, Tip(p.base), Tip(p.head))
    IN  /\ f.op = "checked" /\ f.method = "rebase" /\ CanLand(f.n)
        /\ Len(log) < MaxCommits
        /\ log' = grown
        /\ flight' = [flight EXCEPT ![t] = [f EXCEPT !.op = "replayed", !.tip = TipAfter(log, Tip(p.base), grown)]]
        /\ UNCHANGED <<made, refs, pulls, levers, rules, checks>>

LandReplay(t) ==
    /\ flight[t].op = "replayed"
    /\ refs' = LandedRefs(pulls[flight[t].n], flight[t].tip)
    /\ flight' = [flight EXCEPT ![t].op = "landed"]
    /\ UNCHANGED <<made, log, pulls, levers, rules, checks>>

(* _record_merge: the head it records is the one the check read.           *)
Recorded(n, f) ==
    [pulls[n] EXCEPT !.merged = TRUE, !.open = FALSE,
                     !.closed_head = f.head, !.base_pinned = TRUE]

RecordMerge(t) ==
    /\ flight[t].op = "landed"
    /\ pulls' = [pulls EXCEPT ![flight[t].n] = Recorded(flight[t].n, flight[t])]
    /\ flight' = [flight EXCEPT ![t] = Idle]
    /\ UNCHANGED <<made, refs, log, levers, rules, checks>>

(* update-branch merges the base into the head and takes off one           *)
(* stale_branch lever.                                                     *)
update_branch(n, sha) ==
    /\ Served /\ pulls[n].open /\ ~pulls[n].merged
    /\ Exists(pulls[n].head) /\ sha \in {NoCommit, Tip(pulls[n].head)}
    /\ ~Armed("merge_conflict", n) /\ CanLand(n) /\ Len(log) < MaxCommits
    /\ log' = Merge(log, Tip(pulls[n].head), Tip(pulls[n].base))
    /\ refs' = [refs EXCEPT ![pulls[n].head] = TipAfter(log, Tip(pulls[n].head), log')]
    /\ IF Found("stale_branch", n) = {} THEN levers' = levers
       ELSE \E l \in Found("stale_branch", n) : levers' = levers \ {l}
    /\ UNCHANGED <<made, pulls, rules, checks, flight>>

-----------------------------------------------------------------------------
(* Levers                                                                  *)
MayArm == Cardinality(levers) + Cardinality(rules) + Cardinality(DOMAIN checks) < MaxArmed

ArmLever(kind, n) ==
    /\ MayArm
    /\ kind = "merge_commits_disallowed" => n = AnyNumber
    /\ kind = "mergeable_state" => n # AnyNumber
    /\ levers' = levers \cup {<<kind, n>>}
    /\ UNCHANGED <<made, refs, log, pulls, rules, checks, flight>>

ArmRule(kind, b) ==
    /\ MayArm
    /\ rules' = rules \cup {<<kind, b>>}
    /\ UNCHANGED <<made, refs, log, pulls, levers, checks, flight>>

clear_lever ==
    /\ \/ \E l \in levers : levers' = levers \ {l} /\ UNCHANGED rules
       \/ \E l \in rules : rules' = rules \ {l} /\ UNCHANGED levers
    /\ UNCHANGED <<made, refs, log, pulls, checks, flight>>

clear_all_levers ==
    /\ levers' = {} /\ rules' = {} /\ checks' = <<>>
    /\ UNCHANGED <<made, refs, log, pulls, flight>>

(* ref_checks arms no runs, or a run in place of the one of its name       *)
(* (there is one name here).                                               *)
RefChecks(c, status) ==
    /\ Served
    /\ c \in DOMAIN checks \/ MayArm
    /\ checks' = Put(checks, c, IF status = "none" THEN {} ELSE {status})
    /\ UNCHANGED <<made, refs, log, pulls, levers, rules, flight>>

-----------------------------------------------------------------------------
(* The routers                                                             *)
RepoRoutes == \E t \in Threads : ClaimRepository(t) \/ SeedRepository(t) \/ SeedFails(t)

RefRoutes ==
    \E b \in Branches :
        \/ \E x \in Changes : Push(b, x)
        \/ \E c \in Commits(log) : create_ref(b, c) \/ \E force \in BOOLEAN : update_ref(b, c, force)
        \/ \E head \in Branches : merge_branches(b, head)
        \/ delete_ref(b)

PullRoutes ==
    \/ \E p \in Proposals : create_pull(p[1], p[2])
    \/ \E n \in DOMAIN pulls :
        \/ \E open \in BOOLEAN : set_pull_state(n, open)
        \/ \E sha \in {NoCommit} \cup Commits(log) :
            \/ update_branch(n, sha)
            \/ \E t \in Threads, m \in Methods : CheckMerge(t, n, m, sha)
    \/ \E t \in Threads : LandRefused(t) \/ Land(t) \/ Replay(t) \/ LandReplay(t) \/ RecordMerge(t)

LeverRoutes ==
    \/ \E kind \in Kinds \ RuleLevers, n \in DOMAIN pulls \cup {AnyNumber} : ArmLever(kind, n)
    \/ \E kind \in Kinds \cap RuleLevers, b \in Branches : ArmRule(kind, b)
    \/ \E n \in DOMAIN pulls, t \in Threads, m \in Methods : ExternalMerge(t, n, m)
    \/ \E c \in Commits(log), status \in ArmedRuns : RefChecks(c, status)
    \/ clear_lever \/ clear_all_levers

Next == RepoRoutes \/ RefRoutes \/ PullRoutes \/ LeverRoutes

Spec == Init /\ [][Next]_vars
-----------------------------------------------------------------------------
(* Properties                                                              *)

FlightRow ==
    [op : {"idle"}] \cup [op : {"create"}]
      \cup [op : {"checked", "replayed", "landed"}, n : Numbers, method : MergeMethods,
            head : 1..MaxCommits, tip : 0..MaxCommits]

(* Every store keeps its shape: numbers start at 1, a tip is a commit of   *)
(* the repository, a request in flight is about a pull there is.           *)
TypeOK ==
    /\ made \in {"absent", "claimed", "served"}
    /\ log \in Seq(CommitRow(MaxCommits)) /\ Len(log) <= MaxCommits
    /\ refs \in [Branches -> {NoCommit} \cup Commits(log)]
    /\ DOMAIN pulls \subseteq Numbers /\ \A n \in DOMAIN pulls : pulls[n] \in PullRow
    /\ levers \subseteq Kinds \X (DOMAIN pulls \cup {AnyNumber}) /\ rules \subseteq RuleLevers \X Branches
    /\ DOMAIN checks \subseteq Commits(log) /\ \A c \in DOMAIN checks : checks[c] \subseteq CheckStatuses
    /\ flight \in [Threads -> FlightRow]

(* A closed or merged pull is always served: whatever was deleted, moved   *)
(* or landed since, it still has the shas it closed with (_freeze, _view). *)
ClosedPullsList == \A n \in DOMAIN pulls : ~pulls[n].open => ViewHead(n) # NoCommit /\ HasBase(n)

(* The head of an open pull that has not merged is there: create_pull and  *)
(* a reopening look for it, and deleting the branch closes the pull first, *)
(* also when a landing of that pull is under way.                          *)
OpenHeadsExist == \A n \in OpenPulls : ~pulls[n].merged => Exists(pulls[n].head)

(* A pull that is served as dirty, by lever or by its refs, cannot land by *)
(* any method (_mergeability against merge_pull and git).                  *)
DirtyNeverLands ==
    \A n \in OpenPulls : (Exists(pulls[n].head) /\ Exists(pulls[n].base) /\ Mergeability(n) = "dirty") =>
        \A m \in MergeMethods : ~(MergeAccepted(n, m) /\ CanLand(n))

(* A pull served as clean has no red or pending run of its own on its      *)
(* head: the two ladders of levers, in _mergeability and in                *)
(* list_check_runs, agree.  Of two pulls with one head the first counts,   *)
(* and runs armed against the revision stand by themselves.                *)
CleanPullsAreGreen ==
    \A n \in OpenPulls :
        LET c == Tip(pulls[n].head)
        IN  (/\ ~pulls[n].merged /\ Exists(pulls[n].base) /\ Exists(pulls[n].head)
             /\ PullAt(c) = n /\ c \notin DOMAIN checks
             /\ ~(Armed("base_checks_failed", AnyNumber) /\ c = Tip(main))
             /\ Mergeability(n) = "clean")
              => CheckRuns(c) = {"success"}

(* The merge state a pull is served with is true: dirty never lands, and   *)
(* clean has green checks.                                                 *)
MergeStateIsTrue == DirtyNeverLands /\ CleanPullsAreGreen
=============================================================================
