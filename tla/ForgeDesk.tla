------------------------------ MODULE ForgeDesk ------------------------------
(***************************************************************************)
(* What every request to the forge passes: LeverMiddleware, which may      *)
(* refuse it, RateHeaderMiddleware, which counts it against the rate       *)
(* window of its credential, and behind them the routes: here those of     *)
(* issues, comments and labels (pulls and branches: Forge).  Both layers   *)
(* run on the event loop and keep their state to themselves between two    *)
(* awaits: a request is one step.                                          *)
(*                                                                         *)
(* Time is the injected clock.  Texts, authors and times are left out.     *)
(***************************************************************************)
EXTENDS Integers, FiniteSets

CONSTANTS
    Credentials,    \* tokens in Authorization
    anonymous,      \* the bucket of a request without one
    Labels,
    Limit,          \* DEFAULT_RATE_LIMIT
    Span,           \* RATE_WINDOW_SECONDS
    MaxTime,        \* bound: the clock
    MaxEach,        \* bound: issues, and pulls
    MaxComments,    \* bound: comments
    Budgets,        \* the remaining a rate_budget lever sets
    Counts,         \* the remaining a refusing lever is armed with
    None

Window == [remaining : Nat, reset : Nat]

ASSUME DeskAssumption ==
    /\ anonymous \in Credentials
    /\ Limit \in Nat /\ Span \in Nat \ {0} /\ MaxTime \in Nat /\ MaxEach \in Nat /\ MaxComments \in Nat
    /\ Budgets \subseteq Nat /\ Counts \subseteq Nat /\ None \notin Nat \cup Window

Resources == {"core", "graphql"}
Buckets == Credentials \X Resources
Refusals == {"unreachable", "token_rejected", "rate_limited", "secondary_rate_limited"}
Expiring == {"rate_limited", "secondary_rate_limited"}

Lever == [kind : Refusals, left : Nat \cup {None}, armed : Nat \cup {None}]
IssueRow == [open : BOOLEAN, labels : SUBSET Labels, comments : 0..MaxComments]

VARIABLES
    now,        \* the clock
    windows,    \* windows[b]: the rate window of a bucket, None if it has none
    template,   \* what a bucket opened later starts from, or None
    lever,      \* the refusing lever that is armed, or None
    issues,     \* issues[n], for the numbers that are issues
    pull_numbers, \* the numbers that are pulls
    labels,     \* the repository's labels
    budget,     \* history: the budget last set for every token, or None
    hits        \* history: requests the armed lever has refused

ledger == <<windows, template>>
store == <<issues, pull_numbers, labels>>
deskVars == <<now, windows, template, lever, issues, pull_numbers, labels, budget, hits>>

DeskInit ==
    /\ now = 0
    /\ windows = [b \in Buckets |-> None] /\ template = None
    /\ lever = None
    /\ issues = <<>> /\ pull_numbers = {} /\ labels = {}
    /\ budget = None /\ hits = 0

-----------------------------------------------------------------------------
(* The rate ledger                                                         *)

(* A window ends at its reset.                                             *)
Live(w) == IF w # None /\ now >= w.reset THEN None ELSE w

MutFreshIgnoresTemplate(tpl) == [remaining |-> Limit, reset |-> now + Span]
Fresh(tpl) == IF Live(tpl) # None THEN tpl ELSE [remaining |-> Limit, reset |-> now + Span]

(* Opening a window also forgets a template whose reset has passed.        *)
Opened(b) == IF Live(windows[b]) # None THEN windows[b] ELSE Fresh(template)
TemplateAfter(b) == IF Live(windows[b]) # None THEN template ELSE Live(template)

peek(b) == Opened(b)
Peeked(b) == [windows EXCEPT ![b] = Live(@)]

Spent(w) == [w EXCEPT !.remaining = IF @ > 0 THEN @ - 1 ELSE 0]

count(b) ==
    /\ windows' = [windows EXCEPT ![b] = Spent(Opened(b))]
    /\ template' = TemplateAfter(b)

Applied(w, remaining, reset) ==
    [remaining |-> IF remaining = None THEN w.remaining ELSE remaining,
     reset |-> IF reset = None THEN w.reset ELSE reset]

(* A budget for one token, or for every bucket: those that are live, and   *)
(* through the template those opened later.                                *)
SetBudget(c, remaining, reset) ==
    /\ windows' = [windows EXCEPT ![<<c, "core">>] = Applied(Opened(<<c, "core">>), remaining, reset)]
    /\ template' = TemplateAfter(<<c, "core">>)
    /\ budget' = None
    /\ UNCHANGED <<now, lever, issues, pull_numbers, labels, hits>>

BudgetedWindow(b, remaining, reset) ==
    IF Live(windows[b]) # None THEN Applied(windows[b], remaining, reset)
    ELSE IF b = <<anonymous, "core">> /\ windows[b] = None THEN Applied(Fresh(template), remaining, reset)
    ELSE None

SetBudgetForAll(remaining, reset) ==
    /\ windows' = [b \in Buckets |-> BudgetedWindow(b, remaining, reset)]
    /\ template' = [remaining |-> IF remaining = None THEN Limit ELSE remaining,
                    reset |-> IF reset = None THEN now + Span ELSE reset]
    /\ budget' = IF remaining = None THEN None ELSE template'
    /\ UNCHANGED <<now, lever, issues, pull_numbers, labels, hits>>

-----------------------------------------------------------------------------
(* The middleware                                                          *)

(* A lever with a remaining goes when it is used up; one armed with none   *)
(* or one refuses a single request.                                        *)
MutConsumeKeepsLast == IF lever.left = None THEN lever
                       ELSE IF lever.left < 0 THEN None ELSE [lever EXCEPT !.left = @ - 1]
Consumed == IF lever.left = None THEN lever
            ELSE IF lever.left <= 1 THEN None ELSE [lever EXCEPT !.left = @ - 1]

(* unreachable and token_rejected answer before the window is looked at;   *)
(* the rate refusals read it and spend nothing.                            *)
Refuse(c) ==
    /\ lever # None
    /\ IF lever.kind \in Expiring
       THEN /\ lever' = Consumed /\ hits' = IF lever' = None \/ lever.left = None THEN 0 ELSE hits + 1
            /\ windows' = Peeked(<<c, "core">>) /\ template' = TemplateAfter(<<c, "core">>)
       ELSE UNCHANGED <<lever, windows, template, hits>>
    /\ UNCHANGED <<now, issues, pull_numbers, labels, budget>>

(* A request that reaches a route spends one from its window.              *)
Reach(c) ==
    /\ lever = None
    /\ count(<<c, "core">>)
    /\ UNCHANGED <<now, lever, budget, hits>>

(* A read is counted, unless its ETag still matches: then it is answered   *)
(* 304.                                                                    *)
ListIssues(c, matches) ==
    /\ IF ~matches THEN Reach(c)
       ELSE /\ lever = None
            /\ windows' = Peeked(<<c, "core">>) /\ template' = TemplateAfter(<<c, "core">>)
            /\ UNCHANGED <<now, lever, budget, hits>>
    /\ UNCHANGED store

(* /graphql has a window of its own, and an empty one answers RATE_LIMITED *)
(* without spending.                                                       *)
Graphql(c) ==
    LET b == <<c, "graphql">>
    IN  /\ lever = None
        /\ IF Opened(b).remaining <= 0
           THEN windows' = [Peeked(b) EXCEPT ![<<c, "core">>] = Live(@)] /\ template' = TemplateAfter(b)
           ELSE /\ windows' = [Peeked(<<c, "core">>) EXCEPT ![b] = Spent(Opened(b))]
                /\ template' = TemplateAfter(b)
        /\ UNCHANGED <<now, lever, issues, pull_numbers, labels, budget, hits>>

-----------------------------------------------------------------------------
(* Issues, comments, labels                                                *)
NewNumber == Cardinality(DOMAIN issues) + Cardinality(pull_numbers) + 1
Comments == {m \in (DOMAIN issues) \X (1..MaxComments) : m[2] <= issues[m[1]].comments}

create_issue(c, ls) ==
    /\ Reach(c) /\ Cardinality(DOMAIN issues) < MaxEach
    /\ issues' = [n \in DOMAIN issues \cup {NewNumber} |->
                    IF n \in DOMAIN issues THEN issues[n] ELSE [open |-> TRUE, labels |-> ls, comments |-> 0]]
    /\ UNCHANGED <<pull_numbers, labels>>

(* create_pull takes its number from the same counter.                     *)
number_pull(c) ==
    /\ Reach(c) /\ Cardinality(pull_numbers) < MaxEach
    /\ pull_numbers' = pull_numbers \cup {NewNumber}
    /\ UNCHANGED <<issues, labels>>

set_issue_state(c, n, open) ==
    /\ Reach(c)
    /\ issues' = [issues EXCEPT ![n].open = open]
    /\ UNCHANGED <<pull_numbers, labels>>

create_issue_comment(c, n) ==
    /\ Reach(c) /\ Cardinality(Comments) < MaxComments
    /\ issues' = [issues EXCEPT ![n].comments = @ + 1]
    /\ UNCHANGED <<pull_numbers, labels>>

create_label(c, l) ==
    /\ Reach(c)
    /\ labels' = labels \cup {l}
    /\ UNCHANGED <<issues, pull_numbers>>

(* An issue may carry a label the repository does not define.              *)
add_issue_labels(c, n, l) ==
    /\ Reach(c)
    /\ issues' = [issues EXCEPT ![n].labels = @ \cup {l}]
    /\ UNCHANGED <<pull_numbers, labels>>

remove_issue_label(c, n, l) ==
    /\ Reach(c)
    /\ issues' = [issues EXCEPT ![n].labels = @ \ {l}]
    /\ UNCHANGED <<pull_numbers, labels>>

-----------------------------------------------------------------------------
(* Levers and the clock: their paths are exempt from the middleware.       *)
ArmRefusal(kind, left) ==
    /\ lever' = [kind |-> kind, left |-> IF kind \in Expiring THEN left ELSE None,
                 armed |-> IF kind \in Expiring THEN left ELSE None]
    /\ hits' = 0
    /\ UNCHANGED <<now, windows, template, issues, pull_numbers, labels, budget>>

ClearRefusal ==
    /\ lever' = None /\ hits' = 0
    /\ UNCHANGED <<now, windows, template, issues, pull_numbers, labels, budget>>

(* Clearing every lever clears the rate windows with them.                 *)
ClearAll ==
    /\ lever' = None /\ hits' = 0
    /\ windows' = [b \in Buckets |-> None] /\ template' = None /\ budget' = None
    /\ UNCHANGED <<now, issues, pull_numbers, labels>>

Tick ==
    /\ now < MaxTime
    /\ now' = now + 1
    /\ UNCHANGED <<windows, template, lever, issues, pull_numbers, labels, budget, hits>>

IssueRoutes ==
    \E c \in Credentials :
        \/ number_pull(c) \/ \E matches \in BOOLEAN : ListIssues(c, matches)
        \/ \E ls \in SUBSET Labels : create_issue(c, ls)
        \/ \E n \in DOMAIN issues : create_issue_comment(c, n) \/ \E open \in BOOLEAN : set_issue_state(c, n, open)

LabelRoutes ==
    \E c \in Credentials, l \in Labels :
        \/ create_label(c, l)
        \/ \E n \in DOMAIN issues : add_issue_labels(c, n, l) \/ remove_issue_label(c, n, l)

DeskLeverRoutes ==
    \/ \E kind \in Refusals, left \in Counts \cup {None} : ArmRefusal(kind, left)
    \/ \E remaining \in Budgets \cup {None}, reset \in (now + 1)..(now + Span) \cup {None} :
        SetBudgetForAll(remaining, reset) \/ \E c \in Credentials : SetBudget(c, remaining, reset)
    \/ ClearRefusal \/ ClearAll

DeskNext == IssueRoutes \/ LabelRoutes \/ DeskLeverRoutes \/ Tick \/ \E c \in Credentials : Refuse(c) \/ Graphql(c)

DeskSpec == DeskInit /\ [][DeskNext]_deskVars

-----------------------------------------------------------------------------
(* Properties                                                              *)

(* Every window keeps its shape, the remaining never under zero.           *)
DeskTypeOK ==
    /\ now \in 0..MaxTime
    /\ windows \in [Buckets -> Window \cup {None}]
    /\ template \in Window \cup {None} /\ budget \in Window \cup {None}
    /\ lever \in Lever \cup {None} /\ hits \in Nat
    /\ DOMAIN issues \subseteq 1..(2 * MaxEach) /\ \A n \in DOMAIN issues : issues[n] \in IssueRow
    /\ pull_numbers \subseteq 1..(2 * MaxEach) /\ labels \subseteq Labels

(* A budget set for every token binds every bucket until its reset:        *)
(* windows that were live, windows that run out before it, and buckets     *)
(* first used later (set_budget, _fresh, _live).                           *)
BudgetBindsEveryBucket ==
    budget # None /\ now < budget.reset => \A b \in Buckets : peek(b).remaining <= budget.remaining

(* A lever armed to refuse k requests refuses k, or one when k is zero     *)
(* (ILeverStore.consume).                                                  *)
LeverRefusesItsCount ==
    lever # None /\ lever.armed # None => hits < (IF lever.armed > 1 THEN lever.armed ELSE 1)

=============================================================================
