------------------------------ MODULE HubChunk ------------------------------
(***************************************************************************)
(* The mock hub's chunk lifecycle: the ChunkState rows MockHubService      *)
(* advances (claim, re-key, release, pause, stop, completion, decision,    *)
(* hub-advance, host retire), the chunk-scoped facts that fence them       *)
(* (lease.minted, escalation.recorded, question.asked, answer.delivered)   *)
(* and the levers that refuse or replay a call.                            *)
(*                                                                         *)
(* One action is one service call that writes.  A call the code refuses    *)
(* raises before its first write, so it is a stuttering step unless it     *)
(* consumes a lever (ConsumeLever).                                        *)
(***************************************************************************)
EXTENDS Integers, FiniteSets

CONSTANTS
    Chunks,      \* chunk ids a scenario may seed
    Runners,     \* runners added, registered and enrolled under one host
    Questions,   \* question ids a runner may ask under
    Nodes,       \* the node ids of the seeded graph
    HubNodes,    \* the nodes whose executor is the hub
    Entry,       \* the graph's entry node
    ChoiceNames, \* the choice names a completion may carry
    Goto,        \* Goto[n][ch]: where choice ch of node n leads, None if n has no such choice
    SeedStatuses, \* the statuses a scenario seeds chunks at
    Epochs,      \* the epochs runners report
    Levers,      \* the lever kinds a scenario arms
    MaxSeeds,    \* bound: how often one chunk id is seeded
    MaxRekeys,   \* bound: how often one row's token is re-keyed
    Dangling,    \* a choice target naming no node of the graph
    None

TERMINAL == "done"

Statuses == {"not_ready", "ready", "paused", "running", "delivering",
             "needs_human", "done", "stopped"}
Outcomes == {"next", "done", "hub_node_taken", "failure"}
LeverKinds == {"pinned_graph_missing", "claim_refused", "dependency_unmet",
               "replay", "enforce_release_route_token",
               "host_retire_lifecycle_conflict"}

ASSUME GraphAssumption ==
    /\ HubNodes \subseteq Nodes
    /\ Entry \in Nodes
    /\ TERMINAL \notin Nodes /\ Dangling \notin Nodes /\ None \notin Nodes
    /\ TERMINAL # Dangling /\ TERMINAL # None /\ Dangling # None
    /\ Goto \in [Nodes -> [ChoiceNames -> Nodes \cup {TERMINAL, Dangling, None}]]

ASSUME BoundAssumption ==
    /\ Epochs \subseteq Nat /\ 0 \in Epochs
    /\ MaxSeeds \in Nat /\ MaxRekeys \in Nat
    /\ Levers \subseteq LeverKinds
    /\ SeedStatuses \subseteq Statuses

Keys == Nodes \X Epochs                    \* f"{from_node_id}#{epoch}"
Tokens == [epoch : Epochs, rekey : Nat]    \* the two parts of a route token that vary

Row == [status : Statuses,
        status_before_pause : Statuses \cup {None},
        current_node : Nodes \cup {TERMINAL, None},
        latest_epoch : Epochs,
        claimed : BOOLEAN,
        route_runner : Runners \cup {None},
        rekey_count : Nat,
        live_route_token : Tokens \cup {None},
        applied : [Keys -> Outcomes \cup {None}],
        last_response : Outcomes \cup {None},
        escalation : Epochs \cup {None}]

ASSUME NoneAssumption ==
    /\ None \notin Statuses /\ None \notin Runners /\ None \notin Outcomes /\ None \notin Nat
    /\ None \notin Tokens /\ None \notin Row

QuestionRow == [chunk : Chunks, epoch : Epochs, answered : BOOLEAN, delivered : BOOLEAN]

VARIABLES
    chunk,      \* chunk[c]: the row, or None while c was never seeded
    question,   \* question[q]: the question's row, or None
    runner,     \* runner[r]: the registry bits the calls below consult
    levers,     \* levers[c]: the lever kinds armed for c
    retire_lever, \* the armed host_retire_lifecycle_conflict, or None
    seeds,      \* history: how often c was seeded, so "the same row" can be said
    moves,      \* history: per row and key, how often a completion moved the chunk
    issued      \* history: the route tokens handed out on the row

vars == <<chunk, question, runner, levers, retire_lever, seeds, moves, issued>>

RunnerRow == [authed : BOOLEAN, paused : BOOLEAN, retired : BOOLEAN]

(* The row seed_chunk writes: nothing of an earlier row under the same id  *)
(* survives on it.                                                         *)
FreshRow(s) ==
    [status |-> s, status_before_pause |-> None, current_node |-> None,
     latest_epoch |-> 0, claimed |-> FALSE, route_runner |-> None,
     rekey_count |-> 0, live_route_token |-> None,
     applied |-> [k \in Keys |-> None], last_response |-> None,
     escalation |-> None]

Init ==
    /\ chunk = [c \in Chunks |-> None]
    /\ question = [q \in Questions |-> None]
    /\ runner = [r \in Runners |-> [authed |-> TRUE, paused |-> FALSE, retired |-> FALSE]]
    /\ levers = [c \in Chunks |-> {}]
    /\ retire_lever = None
    /\ seeds = [c \in Chunks |-> 0]
    /\ moves = [c \in Chunks |-> [k \in Keys |-> 0]]
    /\ issued = [c \in Chunks |-> {}]

-----------------------------------------------------------------------------
(* Reads the handlers share                                                *)

Seeded(c) == chunk[c] # None
Ended(c) == chunk[c].status \in {"done", "stopped"}
Held(c) == Seeded(c) /\ chunk[c].claimed
Pausable(s) == s \notin {"done", "stopped", "delivering"}
StatusIfPaused(s) == IF s = "needs_human" THEN s ELSE "paused"

(* A resume gives back the status the pause found, ready when the chunk    *)
(* was seeded paused.  The variants below it are what a slip here would do. *)
MutResumeUnchecked(row) ==
    IF row.status # "paused" THEN row.status ELSE row.status_before_pause
MutResumeToReady(row) == IF row.status # "paused" THEN row.status ELSE "ready"
ResumedStatus(row) ==
    IF row.status # "paused" THEN row.status
    ELSE IF row.status_before_pause = None THEN "ready" ELSE row.status_before_pause

(* The fence keeps the newest epoch reported.                              *)
MutNewestIsLast(current, e) == e
NewestEpoch(current, e) == IF e > current THEN e ELSE current

(* A re-keyed token folds the row's re-key count in.                       *)
MutRekeyUncounted(row) == [epoch |-> row.latest_epoch, rekey |-> 1]
RekeyedToken(row) == [epoch |-> row.latest_epoch, rekey |-> row.rekey_count + 1]

(* _require plus _check_pinned_graph: the prologue of every graph call.    *)
GraphReadable(c) == Seeded(c) /\ "pinned_graph_missing" \notin levers[c]

(* The caller's token resolves, then refuse_retired_runner and             *)
(* refuse_braked_runner.                                                   *)
RunnerMayClaim(r) == runner[r].authed /\ ~runner[r].retired /\ ~runner[r].paused

(* refuse_claim: ended, then held, then any status but ready.              *)
ClaimGranted(c) == ~Ended(c) /\ ~chunk[c].claimed /\ chunk[c].status = "ready"

OpenQuestions(c, e) ==
    {q \in Questions : /\ question[q] # None
                       /\ question[q].chunk = c /\ question[q].epoch = e
                       /\ ~question[q].answered}

(* _incoherent_attempt, as the absence of a reason.                        *)
Coherent(c, from, e) ==
    /\ chunk[c].current_node \in {None, from}
    /\ chunk[c].escalation # e
    /\ OpenQuestions(c, e) = {}

(* _fence_refusal, as the absence of a reason.                             *)
FenceAdmits(c, e) ==
    /\ ~Ended(c)
    /\ chunk[c].latest_epoch = 0 \/ e >= chunk[c].latest_epoch

HeldBy(r) == {c \in Chunks : Held(c) /\ chunk[c].route_runner = r}

-----------------------------------------------------------------------------
(* Seeding and the operator's verbs                                        *)

SeedChunk(c, s) ==
    /\ seeds[c] < MaxSeeds
    /\ s # "running"      \* ChunkSpec._routeless
    /\ chunk' = [chunk EXCEPT ![c] = FreshRow(s)]
    /\ seeds' = [seeds EXCEPT ![c] = @ + 1]
    /\ moves' = [moves EXCEPT ![c] = [k \in Keys |-> 0]]
    /\ issued' = [issued EXCEPT ![c] = {}]
    /\ UNCHANGED <<question, runner, levers, retire_lever>>

PauseChunk(r, c) ==
    /\ runner[r].authed
    /\ Seeded(c)
    /\ Pausable(chunk[c].status) /\ chunk[c].status # "paused"
    /\ chunk' = [chunk EXCEPT ![c].status_before_pause = chunk[c].status,
                              ![c].status = StatusIfPaused(chunk[c].status)]
    /\ UNCHANGED <<question, runner, levers, retire_lever, seeds, moves, issued>>

ResumeChunk(r, c) ==
    /\ runner[r].authed
    /\ Seeded(c)
    /\ chunk' = [chunk EXCEPT ![c].status = ResumedStatus(chunk[c]),
                              ![c].status_before_pause = None]
    /\ UNCHANGED <<question, runner, levers, retire_lever, seeds, moves, issued>>

StopChunk(c) ==
    /\ Seeded(c)
    /\ chunk' = [chunk EXCEPT ![c].status = "stopped", ![c].claimed = FALSE]
    /\ UNCHANGED <<question, runner, levers, retire_lever, seeds, moves, issued>>

AnswerQuestion(q) ==
    /\ question[q] # None
    /\ question' = [question EXCEPT ![q].answered = TRUE]
    /\ UNCHANGED <<chunk, runner, levers, retire_lever, seeds, moves, issued>>

-----------------------------------------------------------------------------
(* The route                                                               *)

Claim(r, c) ==
    /\ GraphReadable(c)
    /\ RunnerMayClaim(r)
    /\ "claim_refused" \notin levers[c]
    /\ ClaimGranted(c)
    /\ "dependency_unmet" \notin levers[c]
    /\ LET token == [epoch |-> chunk[c].latest_epoch, rekey |-> 0]
           node == IF chunk[c].current_node = None THEN Entry ELSE chunk[c].current_node
       IN /\ chunk' = [chunk EXCEPT ![c].claimed = TRUE,
                                    ![c].route_runner = r,
                                    ![c].current_node = node,
                                    ![c].status = "running",
                                    ![c].live_route_token = token]
          /\ issued' = [issued EXCEPT ![c] = @ \cup {token}]
    /\ UNCHANGED <<question, runner, levers, retire_lever, seeds, moves>>

RekeyRouteToken(r, c) ==
    /\ runner[r].authed
    /\ Held(c) /\ chunk[c].route_runner = r
    /\ ~Ended(c)
    /\ chunk[c].rekey_count < MaxRekeys
    /\ LET token == RekeyedToken(chunk[c])
       IN /\ chunk' = [chunk EXCEPT ![c].rekey_count = @ + 1,
                                    ![c].live_route_token = token]
          /\ issued' = [issued EXCEPT ![c] = @ \cup {token}]
    /\ UNCHANGED <<question, runner, levers, retire_lever, seeds, moves>>

Release(r, c, e, presented) ==
    /\ runner[r].authed
    /\ Seeded(c)
    /\ "enforce_release_route_token" \in levers[c] =>
         /\ chunk[c].claimed /\ chunk[c].live_route_token # None
         /\ presented = chunk[c].live_route_token
    /\ ~Ended(c)
    /\ chunk[c].claimed /\ chunk[c].route_runner = r
    /\ chunk[c].status = "running"
    /\ e = chunk[c].latest_epoch
    /\ chunk' = [chunk EXCEPT ![c].claimed = FALSE, ![c].route_runner = None,
                              ![c].status = "ready", ![c].live_route_token = None]
    /\ UNCHANGED <<question, runner, levers, retire_lever, seeds, moves, issued>>

-----------------------------------------------------------------------------
(* Chunk-scoped facts (_apply_fact); FactIntake is the lane that carries   *)
(* them.                                                                   *)

LeaseMinted(r, c, e) ==
    /\ runner[r].authed
    /\ Seeded(c)
    /\ chunk' = [chunk EXCEPT ![c].latest_epoch = NewestEpoch(@, e)]
    /\ UNCHANGED <<question, runner, levers, retire_lever, seeds, moves, issued>>

EscalationRecorded(r, c, e) ==
    /\ runner[r].authed
    /\ Seeded(c)
    /\ FenceAdmits(c, e)
    /\ chunk' = [chunk EXCEPT ![c].escalation = e]
    /\ UNCHANGED <<question, runner, levers, retire_lever, seeds, moves, issued>>

(* A question already on file skips the fence and is written afresh.       *)
QuestionAsked(r, q, c, e) ==
    /\ runner[r].authed
    /\ (Seeded(c) /\ question[q] = None) => FenceAdmits(c, e)
    /\ question' = [question EXCEPT
         ![q] = [chunk |-> c, epoch |-> e, answered |-> FALSE, delivered |-> FALSE]]
    /\ UNCHANGED <<chunk, runner, levers, retire_lever, seeds, moves, issued>>

AnswerDelivered(r, q, c) ==
    /\ runner[r].authed
    /\ question[q] # None
    /\ question[q].chunk = c
    /\ question[q].answered
    /\ question' = [question EXCEPT ![q].delivered = TRUE]
    /\ UNCHANGED <<chunk, runner, levers, retire_lever, seeds, moves, issued>>

-----------------------------------------------------------------------------
(* Reports that move the chunk                                             *)

(* _advance: the row after taking the choice that leads to target, and the *)
(* outcome answered.                                                       *)
Outcome(target) ==
    CASE target = TERMINAL -> "done"
      [] target \in HubNodes -> "hub_node_taken"
      [] target \in Nodes \ HubNodes -> "next"
      [] OTHER -> "failure"

Advanced(row, target) ==
    IF Outcome(target) = "failure" THEN row
    ELSE [row EXCEPT !.current_node = target,
                     !.status = IF Outcome(target) = "next" THEN "running" ELSE "done"]

(* A report whose key was applied before is answered from `applied` and a  *)
(* report the fence or coherence refuses is answered failure: neither      *)
(* writes.                                                                 *)
MutAdmitAppliedAgain(c, from, e) ==
    e >= chunk[c].latest_epoch /\ Coherent(c, from, e) /\ from \notin HubNodes
CompletionAdmitted(c, from, e) ==
    /\ chunk[c].applied[<<from, e>>] = None
    /\ e >= chunk[c].latest_epoch
    /\ Coherent(c, from, e)
    /\ from \notin HubNodes

ApplyCompletion(r, c, from, e, choice) ==
    /\ runner[r].authed
    /\ GraphReadable(c)
    /\ ~("replay" \in levers[c] /\ chunk[c].last_response # None)
    /\ CompletionAdmitted(c, from, e)
    /\ Goto[from][choice] # None
    /\ LET target == Goto[from][choice]
       IN /\ chunk' = [chunk EXCEPT ![c] =
               [Advanced(chunk[c], target) EXCEPT
                   !.applied[<<from, e>>] = Outcome(target),
                   !.last_response = Outcome(target)]]
          /\ moves' = [moves EXCEPT ![c][<<from, e>>] =
                          IF Outcome(target) = "failure" THEN @ ELSE @ + 1]
    /\ UNCHANGED <<question, runner, levers, retire_lever, seeds, issued>>

ApplyDecision(r, c, from, e) ==
    /\ runner[r].authed
    /\ GraphReadable(c)
    /\ e >= chunk[c].latest_epoch
    /\ Coherent(c, from, e)
    /\ chunk' = [chunk EXCEPT ![c].status = "needs_human"]
    /\ UNCHANGED <<question, runner, levers, retire_lever, seeds, moves, issued>>

HubAdvance(r, c) ==
    /\ runner[r].authed
    /\ GraphReadable(c)
    /\ chunk[c].current_node \in HubNodes
    /\ chunk[c].status # "done"
    /\ chunk' = [chunk EXCEPT ![c].status = "done"]
    /\ UNCHANGED <<question, runner, levers, retire_lever, seeds, moves, issued>>

-----------------------------------------------------------------------------
(* The runner registry, as far as the route depends on it                  *)

SetPaused(r, p) ==
    /\ runner' = [runner EXCEPT ![r].paused = p]
    /\ UNCHANGED <<chunk, question, levers, retire_lever, seeds, moves, issued>>

RevokeToken(r) ==
    /\ runner' = [runner EXCEPT ![r].authed = FALSE]
    /\ UNCHANGED <<chunk, question, levers, retire_lever, seeds, moves, issued>>

MayEnroll(r) == ~runner[r].retired

Enroll(r) ==
    /\ MayEnroll(r)
    /\ runner' = [runner EXCEPT ![r].authed = TRUE]
    /\ UNCHANGED <<chunk, question, levers, retire_lever, seeds, moves, issued>>

(* retire: a second retire is a no-op; the first revokes the token too.    *)
RetiredRegistry(r) ==
    IF runner[r].retired THEN runner
    ELSE [runner EXCEPT ![r].retired = TRUE, ![r].authed = FALSE]

Retire(r) ==
    /\ runner' = RetiredRegistry(r)
    /\ UNCHANGED <<chunk, question, levers, retire_lever, seeds, moves, issued>>

(* retire_host_runner's tail: every held route given up, a running chunk   *)
(* back to ready.                                                          *)
MutGiveUpKeepsClaim(row) ==
    [row EXCEPT !.route_runner = None, !.status = IF @ = "running" THEN "ready" ELSE @]
MutGiveUpAlwaysReady(row) ==
    [row EXCEPT !.claimed = FALSE, !.route_runner = None, !.status = "ready"]
RouteGivenUp(row) ==
    [row EXCEPT !.claimed = FALSE, !.route_runner = None,
                !.status = IF @ = "running" THEN "ready" ELSE @]

HostMayRetire(r, force) == HeldBy(r) = {} \/ force \/ runner[r].retired

RetireHostRunner(r, force) ==
    /\ HostMayRetire(r, force)
    /\ retire_lever = None \/ (retire_lever = "interrupted" /\ HeldBy(r) = {})
    /\ runner' = RetiredRegistry(r)
    /\ chunk' = [c \in Chunks |-> IF c \in HeldBy(r) THEN RouteGivenUp(chunk[c]) ELSE chunk[c]]
    /\ UNCHANGED <<question, levers, retire_lever, seeds, moves, issued>>

(* The lifecycle-conflict lever: the retire is refused, and when armed as  *)
(* interrupted it fails half-way, the runner retired and its routes held.  *)
RetireHostRunnerConflict(r, force) ==
    /\ HostMayRetire(r, force)
    /\ \/ retire_lever = "conflict" /\ runner' = runner
       \/ retire_lever = "interrupted" /\ HeldBy(r) # {} /\ runner' = RetiredRegistry(r)
    /\ retire_lever' \in {None, retire_lever}
    /\ UNCHANGED <<chunk, question, levers, seeds, moves, issued>>

-----------------------------------------------------------------------------
(* Levers: a sticky lever survives its use, a counted one may clear        *)

ArmLever(c, k) ==
    /\ levers' = [levers EXCEPT ![c] = @ \cup {k}]
    /\ UNCHANGED <<chunk, question, runner, retire_lever, seeds, moves, issued>>

(* Cleared by the scenario, or consumed by the call it refused or replayed. *)
ConsumeLever(c, k) ==
    /\ levers' = [levers EXCEPT ![c] = @ \ {k}]
    /\ UNCHANGED <<chunk, question, runner, retire_lever, seeds, moves, issued>>

ArmRetireLever(how) ==
    /\ "host_retire_lifecycle_conflict" \in Levers
    /\ retire_lever' = how
    /\ UNCHANGED <<chunk, question, runner, levers, seeds, moves, issued>>

-----------------------------------------------------------------------------
Operator ==
    \E c \in Chunks :
        \/ \E s \in SeedStatuses : SeedChunk(c, s)
        \/ StopChunk(c)
        \/ \E k \in Levers \ {"host_retire_lifecycle_conflict"} :
              ArmLever(c, k) \/ ConsumeLever(c, k)

RunnerCall ==
    \E r \in Runners, c \in Chunks :
        \/ Claim(r, c)
        \/ RekeyRouteToken(r, c)
        \/ \E e \in Epochs, t \in issued[c] : Release(r, c, e, t)
        \/ PauseChunk(r, c)
        \/ ResumeChunk(r, c)
        \/ HubAdvance(r, c)
        \/ \E e \in Epochs, n \in Nodes \cup {TERMINAL} : ApplyDecision(r, c, n, e)
        \/ \E e \in Epochs, n \in Nodes, ch \in ChoiceNames : ApplyCompletion(r, c, n, e, ch)

Fact ==
    \E r \in Runners, c \in Chunks :
        \/ \E e \in Epochs : LeaseMinted(r, c, e) \/ EscalationRecorded(r, c, e)
        \/ \E q \in Questions, e \in Epochs : QuestionAsked(r, q, c, e)
        \/ \E q \in Questions : AnswerDelivered(r, q, c)

Registry ==
    \/ \E r \in Runners :
        \/ \E p \in BOOLEAN : SetPaused(r, p)
        \/ RevokeToken(r)
        \/ Enroll(r)
        \/ Retire(r)
        \/ \E force \in BOOLEAN : RetireHostRunner(r, force) \/ RetireHostRunnerConflict(r, force)
    \/ \E how \in {"conflict", "interrupted"} : ArmRetireLever(how)

Next ==
    \/ Operator
    \/ \E q \in Questions : AnswerQuestion(q)
    \/ RunnerCall
    \/ Fact
    \/ Registry

Spec == Init /\ [][Next]_vars

-----------------------------------------------------------------------------
(* Properties                                                              *)

(* Every row, question, registry bit and lever stays in its declared set.  *)
TypeOK ==
    /\ chunk \in [Chunks -> Row \cup {None}]
    /\ question \in [Questions -> QuestionRow \cup {None}]
    /\ runner \in [Runners -> RunnerRow]
    /\ levers \in [Chunks -> SUBSET LeverKinds]
    /\ retire_lever \in {None, "conflict", "interrupted"}
    /\ seeds \in [Chunks -> Nat]
    /\ moves \in [Chunks -> [Keys -> Nat]]
    /\ issued \in [Chunks -> SUBSET Tokens]

(* A held chunk is never offered: while a runner holds its route the       *)
(* status is one a claimed chunk can have, whatever pauses, resumes,       *)
(* decisions and retirements happen meanwhile, so peek never lists it and  *)
(* refuse_claim's three tests agree with each other.                       *)
HeldNotOffered ==
    \A c \in Chunks : Held(c) => chunk[c].status \in {"running", "paused", "needs_human", "done"}

(* A held route is whole: the runner, the node and the token chunk_detail  *)
(* and the release check serve are there as long as `claimed` is.          *)
RouteWhole ==
    \A c \in Chunks : Held(c) => /\ chunk[c].route_runner # None
                                 /\ chunk[c].current_node # None
                                 /\ chunk[c].live_route_token # None

(* A retired runner has no current token, call by call: also after an      *)
(* interrupted host retire, or a revoke in between.  (Where a retire comes *)
(* between an enrolment's check and its token: HubFleet.)                  *)
RetiredLockedOut == \A r \in Runners : runner[r].retired => ~runner[r].authed

(* A node-step completion moves the chunk at most once per (node, epoch),  *)
(* however often it is re-sent after a dropped ack, also round a self-loop *)
(* that leaves the chunk at the node it reports from.                      *)
MovesOnce == \A c \in Chunks, k \in Keys : moves[c][k] <= 1

SameRow(c) == seeds'[c] = seeds[c]

(* A route changes hands only through a release, a stop or a retire: no    *)
(* call takes a held chunk from one runner and gives it to another.        *)
RouteNotTransferred ==
    [][\A c \in Chunks :
        (Held(c) /\ SameRow(c) /\ chunk'[c].claimed)
            => chunk'[c].route_runner = chunk[c].route_runner]_vars

(* The fence never moves back: a late or reordered lease.minted cannot     *)
(* re-admit an attempt a newer lease has superseded.                       *)
FenceMonotone ==
    [][\A c \in Chunks :
        (Seeded(c) /\ SameRow(c)) => chunk'[c].latest_epoch >= chunk[c].latest_epoch]_vars

(* A re-key never echoes a token handed out before on the row, by a claim  *)
(* or an earlier re-key, also across a release and a second claim at the   *)
(* same epoch.                                                             *)
RekeyFresh ==
    [][\A c \in Chunks :
        (Held(c) /\ SameRow(c) /\ chunk'[c].rekey_count > chunk[c].rekey_count)
            => chunk'[c].live_route_token \notin issued[c]]_vars

(* A retired runner that holds no route gains none: no claim in flight, no *)
(* enrolment and no half-done host retire hands it a chunk afterwards.     *)
RetiredGainsNothing ==
    [][\A r \in Runners :
        (runner[r].retired /\ HeldBy(r) = {}) => HeldBy(r)' = {}]_vars

(* ClaimDeniedTerminal: an ended chunk "can never be claimed again".  The  *)
(* status may leave done and stopped, by a late report, but never for      *)
(* ready, as long as the row is not seeded anew.                           *)
EndedNeverOffered ==
    \A c \in Chunks, k \in 1..MaxSeeds :
        []((seeds[c] = k /\ Seeded(c) /\ Ended(c)) => [](seeds[c] = k => chunk[c].status # "ready"))

(* What ChunkSpec says of the code: "a chunk is running only under a live  *)
(* route".  It is not so: see the README's deviations.                     *)
RunningUnderLiveRoute ==
    \A c \in Chunks : (Seeded(c) /\ chunk[c].status = "running") => chunk[c].claimed

=============================================================================
