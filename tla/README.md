# A TLA+ verification of blizzard-mock

blizzard-mock is the mock fleet of blizzard: services that stand in for the hub,
the runner, the coding harnesses, the forge and the identity provider. Each is a
real service over a real wire, with levers that steer it into a named
misbehaviour. This directory models the parts that keep protocol state, checks
them with TLC and proves with TLAPS, for every value of the constants, each safety
property the passing runs check. Liveness is left to TLC.

- [Inventory](#inventory): the parts, their state, what is hard about them
- [Plan](#plan): what is done, what comes next
- The hub: [HubChunk](#hubchunk), [FactIntake and FactLog](#factintake-and-factlog),
  [Transcripts](#transcripts), [HubFleet and QueueMatch](#hubfleet-and-queuematch)
- The runner: [RunnerDrive and Walk](#runnerdrive-and-walk)
- The harnesses: [Sessions](#sessions), [HarnessTurn and CodexAuth](#harnessturn-and-codexauth)
- The forge: [Forge, ForgeGit and ForgeDesk](#forge-forgegit-and-forgedesk)
- The seeder: [SeedStore and SeedRows](#seedstore-and-seedrows)
- [Runs](#runs), [Findings](#findings), [Deviations without a run](#deviations-without-a-run),
  [Proofs](#proofs), [Limits](#limits), [Not modelled](#not-modelled)

## Inventory

All paths are below `src/src/blizzard_mock/`.

| part | state it keeps | operations | what is hard | what makes it correct |
|---|---|---|---|---|
| `mock_hub` chunks (`domain/service.py`) | `ChunkState` rows, questions | seed, claim, re-key, release, pause, resume, stop, completion, decision, hub advance, chunk facts | calls of several runners and an operator in any order, re-sent reports, a half-done host retire | a held chunk is never offered and its route is whole; a report moves a chunk once; the fence never moves back |
| `mock_hub` fact lanes | one mark per runner and per host | `ingest_facts`, `ingest_host_facts`, reset | lost answers, rejected facts, two pushes at once with no lock | a fact is applied once, in order, none skipped |
| `mock_hub` transcript lane | a mark per runner, epoch owners, records by key, bytes per chunk | ingest, read back, reset | replays, caps, records that arrive before the owner of their epoch is known | bytes count once, an answer is true of the store, an epoch keeps its owner |
| `mock_hub` registry | tenants, projects, runners, hosts, tokens | add, adopt, register, report, enroll, revoke, retire, reset | names resolved within a tenant, a retirement during an enrolment | tenants stay apart; the identity route and the gate agree on every token |
| `mock_hub` matched peek (`domain/matching.py`) | none | eligibility, blocking, the scan | peek and claim decide by different code | a chunk peek offers is one claim grants; the first that may be offered is offered |
| `levers.py` and the levers of each service | armed levers, counts | arm, clear, consume | counted levers | a counted lever affects exactly that many requests |
| `mock_runner` | held leases, two sequence counters, levers | claim, complete, escalate, ask, decide, pushes, reset | a driver on a thread pool, lost calls and answers, replays | the chunk walks its graph once per attempt; a lease at rest is one the hub takes |
| OpenCode 2 session engine (`harness/opencode2_core/internal/sessions.py`, `harness/opencode2_engine/internal/turns.py`) | sessions, queues, inboxes, permission requests, forms, worker threads, the store file | create, prompt, compact, interrupt, reply, remove, halt, load, and the worker's own steps | threads, a child process per turn, interrupts at any point, crash and restart | one worker per session, no lost wake-up, a store that can be resumed from, every session comes to rest |
| OpenCode 2 service shell, scripts, permission rules | registration file, settings; rules are pure | HTTP routes, signal handler, helpers | the order of halt, load and resume | the last matching rule wins |
| exec-engine harnesses and facades (`harness/engine.py`, `harness/facades`) | a session file, a transcript, the Codex auth file and its audit log | one process per turn; app-servers that rotate the auth file | a kill between any two writes, two turns of one session, rotations by several processes | turns are counted, asks and identity survive, the transcript tells the turn; no rotation is lost |
| OpenCode 1 surface | one state document | one command per process | output formats | - |
| `forge` | branches, pulls, check runs, levers, branch rules, rate windows, issues, labels | open, land by three methods, close, reopen, update, push, delete, arm, budget | a landing in git that is recorded later, branches deleted meanwhile, two ladders of levers | a closed pull still lists; a pull is served with the state it has; a budget binds every bucket |
| `mock_data` | rows of a hub's and a runner's store it does not own | create verbs, scenarios, reset | reads before writes in another transaction, three writes to two stores, numbering, tenancy | a chunk derives the status asked for; a scenario cut short is safe |
| `idp` | authorisation codes | authorise, exchange | - | a code is redeemed once |
| `fixture_workspace` | repositories it writes once | seed | - | - |

**Interaction.** A runner (the real one, or `mock_runner`) calls the hub over
HTTP: it registers, peeks, claims a chunk, pushes facts and transcript records to
its lanes and reports a completion; the hub never calls back. The handlers are
synchronous functions on FastAPI's thread pool and the hub's state has no lock; the
same holds of the mock runner's and the forge's routes. The scenario steers each
service through its seed and lever routes. A harness is a child process of a runner
and meets other turns only in files. In OpenCode 2 a client calls the service; every
call runs under one engine lock, a session's work is done by a worker thread, and the
turn is a child process that talks to its worker over a pipe. Sessions interact
through `spawn_child`, the parent's join and the parent's inbox. The seeder writes
into the stores of a hub and a runner while their daemons may be running.

## Plan

| step | module | composes | proved in | left to TLC |
|---|---|---|---|---|
| 1 | `HubChunk` | - | `HubChunkProofs` | - |
| 2 | `FactIntake`, abstract `FactLog` | implements `FactLog` | `LaneProofs` | - |
| 3 | `Sessions` | - | `SessionsProofs` | `Settles` |
| 4 | `Transcripts` | beside `FactIntake` in `MCFactIntake` | `LaneProofs` | - |
| 5 | `HubFleet` over `QueueMatch` | the registry, its tokens and the matched peek with the claim | `HubFleetProofs` | - |
| 6 | `RunnerDrive`, abstract `Walk` | the mock runner with the hub's claim, completions and lanes; implements `Walk` | `RunnerDriveProofs` | - |
| 7 | `Forge` over `ForgeGit`; `ForgeDesk` | - | `ForgeProofs` | - |
| 8 | `SeedStore` over `SeedRows` | the seeder with both stores | `SeedStoreProofs` | - |
| 9 | `HarnessTurn`, `CodexAuth` | side by side in `MCHarness` | `HarnessProofs` | - |

What comes next: the hazards no property covers yet (`PROJECT.json` says why for
each), the windows inside calls that [Limits](#limits) names, and the rest of the
OpenCode 2 shell around `Sessions`, the order of halt, load and resume first.

## HubChunk

One row per chunk id, as `ChunkState`: `status`, `status_before_pause`,
`current_node`, `latest_epoch`, `claimed`, `route_runner`, `rekey_count`,
`live_route_token`, `applied` (`applied_completions`), `last_response`,
`escalation`. `question`, `runner` (authed, paused, retired), `levers` and
`retire_lever` are the other state the calls read. `seeds`, `moves` and `issued`
are histories for the properties; no action's guard reads `moves`, and `issued`
only supplies the tokens a runner can present at a release.

One action is one service call that writes, with the guards in the order of the
code's early returns. A refused call raises before its first write and is a
stutter, except that it may consume a lever.

| action | code (`mock_hub/domain/service.py`) |
|---|---|
| `SeedChunk` | `seed_chunk`; a re-seed writes a fresh row |
| `Claim`, `RekeyRouteToken`, `Release` | `claim` with `refuse_claim`, `rekey_route_token`, `release` |
| `PauseChunk`, `ResumeChunk`, `StopChunk` | the chunk verbs |
| `ApplyCompletion`, `ApplyDecision`, `HubAdvance` | `apply_completion` with `_advance`, `apply_decision`, `hub_advance` |
| `LeaseMinted`, `EscalationRecorded`, `QuestionAsked`, `AnswerDelivered` | the chunk-scoped branches of `_apply_fact` |
| `SetPaused`, `RevokeToken`, `Enroll`, `Retire`, `RetireHostRunner`, `RetireHostRunnerConflict` | the registry calls a route depends on |
| `ArmLever`, `ConsumeLever`, `ArmRetireLever` | `levers.py` |

**Abstractions.** A route token is the pair of its parts that vary (epoch, re-key
count). The graph is a function from node and choice to a target; a target may be
the terminal, a node that does not exist (`Dangling`), or absent (`None`). All
runners serve the chunks' project and have the capabilities the graph asks for, so
the two incompatibility refusals of `claim` do not arise; they are `HubFleet`'s. Artifacts, decision
rows, titles and timestamps are data no guard of the route reads. One call is one
step; see [Limits](#limits).

## FactIntake and FactLog

`ingest_facts` and `ingest_host_facts` have one shape: read the sender's mark,
sort the batch, for each fact re-ack it at or under the mark, else apply it and
move the mark or reject it and leave the mark, and at the end write the mark back.
Handlers run on a thread pool without a lock, so the read of the mark
(`BeginIngest`), each fact (`ReackFact`, `ApplyFact`, `RejectFact`) and the
write-back (`EndIngest`) are separate actions of a call `k`. `Reset` is
`POST /_seed/reset`. The sender is an outbox: it pushes any run of facts that
starts no later than the first one it has no answer for, may lose any answer, and
may add a fact without a seq, which counts as 0. What a fact does is `HubChunk`'s
concern, so applied or rejected is a free choice, per fact and per try.

The constant `Overlap` says whether a sender pushes again while its last push is
still being served. The outbox this lane serves pushes one batch at a time
(`Overlap = FALSE`); a client that times out and retries makes it `TRUE`.

`FactLog` is what the lane promises: facts of one sender take effect in the order
of seq. `FactIntake` implements it with `newest` mapped to itself, as a property
of a run and as a theorem.

## Transcripts

`ingest_transcripts` has the outline of `ingest_facts` and more state: records are
kept by natural key, a chunk has a budget of bytes, and a record is refused while
another runner owns its epoch. The owner is the first runner whose `lease.minted`
reached the hub, through the other lane, so it may come after the records.

| action | code (`mock_hub/domain/service.py`) |
|---|---|
| `BeginPush`, `EndPush` | the read of the mark, and the mark's write with the answer, heard or lost |
| `RefuseRecord`, `ReplayRecord`, `KnownRecord`, `CapRecord`, `AcceptRecord` | the branches of the loop, in the order of its tests |
| `MintLease` | `_advance_fence`, as far as it sets the owner |
| `ResetLane` | `reset` |

`Visible`, `Superseded` and `Truncated` are `lease_transcript`'s read-back. The
module is one tenant's slice, since every key carries the tenant. A record is one
step; its truncation flag and the order of turns within a read-back are left out.

## HubFleet and QueueMatch

`QueueMatch` holds the pure part: which lineages of a chunk's graph a runner's
capabilities satisfy (`CapabilityIneligible`) and the scan of the ready order
(`Scan`), next to a reference definition of what may be offered (`Offerable`). The scan
is a recursive function over the whole queue, one entry per step as in the code's loop;
an entry says whether its chunk is ready, of a project that is served, and usable.
`HubFleet` is the registry around it. One action is one call, named after it:
`seed_tenant`, `seed_project`, `add_runner`, `register`, `set_runner_projects`,
`set_paused`, `retire`, `revoke_token`, `add_host`, `report_host`,
`add_host_runner`, `retire_host_runner`, `seed_chunk`, `release`, `pause_fact`,
`reset`, and the levers. Two calls check first and write later and are two actions
each: `enroll` with `issue`, `claim` with `grant`. The calls a lever interrupts
(`RefuseVersion`, `AdoptionConflict`, `RetireConflict`, `RetireInterrupted`,
`ClaimBlocked`) are actions of their own. `peek_matched` is an operator, since a peek
writes nothing: the properties speak of every peek any runner might make in a state.

**Abstractions.** A project id is the pair of its tenant and slug. What a chunk goes
through between claim and end is `HubChunk`'s; here it is ready or held. Names are
left out except those of hosts. A reset happens between calls.

## RunnerDrive and Walk

`RunnerDrive` composes the mock runner's verbs with the part of the hub they meet:
the claim, the fence, the attempts applied and the marks of the two lanes. A verb is
cut at every call over the link and at the counter it numbers a fact with:

| actions | code (`mock_runner/domain/service.py`) |
|---|---|
| `claim`, `ClaimWritten`, `ClaimAnswered` | `claim`; the hub's check and its write are two steps, the answer may be lost |
| `complete`, `CompletionApplied`, `CompletionLost`, `Replayed`, `CompletionAnswered` | `complete` and `_advance`, with the levers `stale_epoch`, `conflicting_fact`, `replay`, `drop_ack`, `unreachable` |
| `escalate`, `ask`, `push_transcript`, `report_event` | the verbs that push a fact |
| `TakeNumber`, `SendFact`, `FactLost` | `_push_fact`: the counter, the call, the lost call |
| `decide`, `AnswerQuestions`, `reset`, `arm_lever`, `clear_lever` | the other routes |

`Walk` is all a reader of the graph needs to know: the chunk walks the edges of its
graph, and an attempt (a node and an epoch) takes it over at most one edge.
`WalksOnce` says that `RunnerDrive` implements it, with `at` mapped to the hub's node
and `spent` to the attempts the hub has applied, also when the hub granted the chunk
twice. `spoiled` is a history, the set of what spoils a lease: `reclaimed` when a claim
came in behind another one, `moved` when verbs that move the lease overlapped or a stale
epoch was submitted. `Walk` allows a start over behind `reclaimed` only.

## Sessions

| variable | code |
|---|---|
| `sess[s]` | the `Session` object: `running`, `current`, `outcome`, `cancel`, `pending`, `inbox`, the permission request `ask`, the `form`, and `holder`, the turn's process (`live`, `dead` once killed) |
| `thread[t]` | a worker thread: its session and where it is |
| `store[s]` | what the store file holds of the session (`Session.stored`) |
| `halted` | `Engine._halted` |
| `boot[s]` | `load`'s list of interrupted sessions: `waiting` until `resume` comes to the session, `resumed` after |
| `due`, `stop`, `used` | histories and bounds |

One action is one critical section of the engine's lock, or one look at a flag or
event outside it. `Create`, `Submit` (prompt and compact), `Interrupt`,
`ReplyPermission`, `CancelForm` and `Remove` are clients' calls. `TakePending`,
`TakeInbox`, `WorkerExits`, `WorkerQuits`, `DeliverInbox`, `RunCompact` and
`UserMessage` are `_worker`'s loop. `OpenTurn` to `ScriptFails` are `_Turn.run` and
its conversation with the script's process; the script itself may make any request
its helpers can make. `Halt` is the signal handler's `halt`; `Restart` the process's
end (by `os._exit` or a crash at any point) followed by the next lifetime's `load`;
`ResumeSession` one turn of `resume`'s loop, parents before children as in the
store, during which workers already started run and a signal may arrive; and
`Resume` is `_resume_worker`. Clients are answered once the loop is done
(`Listening`).

**Abstractions.** Message texts, usage, published events and permission rules are
data. A tool call either needs a permission request or is invisible. A session id
is used once. An interrupt on a session at rest, or one the `interrupt_ignored`
lever swallows, changes nothing and is a stutter. `Parent` fixes which
session is whose child; the constant's forest has depth one in the runs.

**Fairness.** `EngineFair`: every worker thread is scheduled (weak fairness of the
engine's own steps), a killed process closes its pipe, a signal handler that has
started reaches `os._exit`. These are properties of the operating system. Nothing
there forces a script to end: `hang()` is a script. `RequestsAnswered`: a client
answers an open permission request and closes an open form, the assumption of
every test that uses one. `ScriptsEnd`: strong fairness of `ScriptEnds`, since a
script without `hang()` is a finite program and comes to its end if its requests
are answered each time; strong, because every request takes the thread away
from `run` in between. `HangSpec`, `UnansweredSpec` and `FairSpec` combine them,
each run with the weakest that its question allows.

## HarnessTurn and CodexAuth

`HarnessTurn` is `run_prompt`: one process, one turn. `launch` passes the fence and
reads the session's file, `begin_turn` counts the turn, `record_user` and the
script's helpers (`tool_call`, `tool_result`, `verdict`, `judge`, `usage_limited`,
`ask`) follow, `finish`, `fail` and `leave` are the three ends of a script,
`save_end`, `close`, `record_result`, `render` and `on_session_end` the way out. A
whole-file write is two steps, `Truncate` and `flush`: another process may look in
between and `kill` may come there, which leaves the file `Torn`. Claude Code's
transcript is appended to, OpenCode's rewritten whole; both are `log`, one per facade and
session, since each facade has a directory of its own.

`CodexAuth` is the app-server: `acquire`, `read_locked`, `replace`, `append_audit`,
`release` are the rotation under `flock`, `read_account` the read without it, and
`die` drops the lock with the process.

**Abstractions.** A process stands for what is its own: its message, its ask, its
verdict, the session it mints. Wordings, usage numbers and the git helpers are data.
A generation of tokens is a number and a digest is the content itself.

## Forge, ForgeGit and ForgeDesk

`ForgeGit` is what the forge uses of git: commits with a tree of changes, reachability,
merge, squash and replay, and conflicts as a relation on changes. `Forge` serves the
routes over one repository: `Push`, `create_ref`, `update_ref`, `merge_branches`,
`delete_ref`, `create_pull`, `set_pull_state`, `update_branch`, the levers, the branch
rules and `RefChecks`. A request is one step, except the creation of a repository
(`ClaimRepository`, `SeedRepository`, `SeedFails`) and a landing: `CheckMerge` or
`ExternalMerge`, then `Land`, or `Replay` and `LandReplay` for a rebase, then
`RecordMerge`; pushes and other requests come in between. `LiveState`, `Mergeability`
and `CheckRuns` are the two ladders of levers.

`ForgeDesk` is what every request passes, `LeverMiddleware` and `RateHeaderMiddleware`
with the ledger's windows, and the routes of issues, comments and labels. Both layers
run on the event loop and do not await while they change state, so a request is one step.
`Tick` is the injected clock.

**Abstractions.** Titles, bodies, authors and times are left out; a tree is the set of
changes it holds. `Mergeability` of a merged or closed pull is `unknown`, as served.

## SeedStore and SeedRows

`SeedRows` holds the composers of `mock_data/domain`: pure functions from the flags of
an invocation to rows, refusals included. A row keeps its table, key, parent, instant
and the columns a reader looks at. `SeedStore` runs them: a verb
(`create_chunk`, `create_lease`, `scenario_board`, ...) reads, composes and hands its
writes over as steps; `land` takes one step's rows in one transaction, stamped with
tenant, project and outbox numbers, `refuse` is a write the store turns down, `crash`
a process killed between two writes, `reset` the reset command. `daemon_registers` and
`daemon_adds_project` are the live hub beside it. `DerivedStatus` is how the hub
derives a chunk's status from its rows; it is external, written from how the composers
and their tests use it, as are the keys and foreign keys of the two schemas.

An invocation that is refused before it writes changes nothing and is not a step. The
ids the composers draw are numbers, and an absent column and the terminal are none
(`ColumnAssumption`); a chunk that mirrors a fleet is seeded by a board and by no call
of its own, and what a verb writes into a runner store names one of `Runners` or none
(`CallAssumption`). A store to start from holds at most one chunk of an earlier
invocation, made by the same composer in a tenant it holds, and its runner is one of
`Runners` or none (`StoreAssumption`).

## Runs

Bounds are chosen so that the case a property is about happens more than once.

| run | instance | question |
|---|---|---|
| `chunk_route` | 1 chunk, 2 runners, 2 re-keys, the smallest graph, seeds ready, paused and done, four levers | can a held chunk be offered, its route be partial, a re-key echo an earlier token, also after a host retire that failed half-way? Two runners are enough for one to lose a route and the other to gain it |
| `chunk_moves` | 1 chunk, 1 runner, 1 question, 2 epochs, three nodes with a self-loop, a dangling target and a hub node | can a re-sent completion move a chunk twice, the fence move back, a row that ended become ready again? |
| `fact_lane` | facts: 2 senders, 2 handler threads, 3 facts; transcripts: 2 runners, 4 records over 2 attempts, one record over its cap and one superseded, a budget that does not hold all | facts once, in order, none skipped, with lost answers, rejections and resets; bytes counted once, answers true of the store, owners for life |
| `session_workers` | a root and a child, 3 threads, the child removable, any three of 2 submissions, 1 interrupt and 2 restarts | one worker, no lost wake-up, store never behind, no finished turn run again |
| `session_settle` | a root and a joined child, any three of 2 submissions of every kind, 2 interrupts and 1 restart | does every session come to rest, also what a restart resumes? |
| `session_lost_interrupt` | 1 session, 1 thread, 1 submission, 1 interrupt | does an interrupt end the turn it was sent to? It does not: see the findings |
| `forge_pulls` | 2 threads, 1 pull between 2 branches, 3 commits, two clashing changes, squash and rebase, three state levers, branch protection, failed runs armed against a revision | does a closed pull still list, does an open one have its head, is the merge state it is served with true, with landings, pushes and deletions in between? |
| `forge_desk` | 1 client with two buckets, a limit of 2, windows of 2 ticks, 1 issue and 1 pull, levers counted 0 and 2 | does a budget for all bind windows that are live, expired and not opened yet? does a counted lever refuse its count? |
| `runner_drive` | 1 driver, 2 threads, a looping graph of 2 nodes, 3 verbs, 1 lever armed of five, 1 reset | the refinement of `Walk`, good leases at rest, fresh pushes, with any call or answer lost |
| `hub_fleet` | 2 tenants, 2 runners, 2 hosts, 3 tokens, 2 chunks of two projects; any 4 calls from a fresh hub, any 3 from a fleet at work (`Working`) | do tenants stay apart, do gate and identity agree, is a peek worth acting on? |
| `seed_store` | 2 tenants, 2 runners, two invocations in flight, three stores to start from (empty; one tenant with a chunk running; two with one done), the flags that lead to different rows or refusals, boards of 4 and 9 | statuses as asked, numbers once, reads that still hold at the write, a fleet cut short |
| `harness` | turns: 2 processes, 3 named sessions and minted ones, 10 ways to call; rotations: 3 app-servers, 3 generations | what survives kills and resumes in the session's file, the transcript, the envelope, the audit log |

Where two parts share no state, one run checks both in behaviours of one or of the
other (`MCFactIntake`, `MCHarness`), so that their states add up instead of
multiplying. The `Sessions` runs do not check deadlock: all sessions at rest and the
clients' bounds used up is a legitimate end; so is a fleet, a seeder or a harness whose
calls are used up. `MaxSeeds`, `MaxRekeys`, `MaxSeq`, `MaxThreads`, `MaxSubmits`,
`MaxInterrupts`, `MaxRestarts`, `MaxEvents`, `MaxPulls`, `MaxCommits`, `MaxArmed`,
`MaxTime`, `MaxEach`, `MaxComments`, `MaxVerbs`, `MaxResets`, `MaxCalls`,
`MaxInvocations`, `MaxTools` and `MaxGeneration` are bounds of the models, not of the
code. `TypeOK` is in the runs of `HubChunk`, `FactIntake` and `Sessions`; those of the
other modules say what the variables are, most of them are proved, and none is among the
runs' properties.

`session_workers` lets clients delete the child; what a deleted root does to its worker is
left to the proof, which holds for any `Removable`. Deleting a child leaves its
parent's worker in a join that does not end or dead between spawning and prompting
(`PromptChildLost`); `QueueServed` therefore lets a parent that lost a child run without
a worker, and nothing else.
`session_settle` leaves out children in the background, because of the spinning inbox
(deviations 4 and 5).

## Findings

**An interrupt can be lost** (`session_lost_interrupt`): `user_message` clears the
cancel flag after the prompt was taken off the queue in another critical section, so an
interrupt accepted in between is forgotten and the turn runs to its end.

## Deviations without a run

Each of these was reached with TLC or shows in the model's steps. The first six have a
formula in their module which the named specification violates; a configuration that
lists only that formula shows the trace.

1. **A chunk can be running with no route** (`HubChunk!RunningUnderLiveRoute`, `Spec`). A
   host retire keeps `status_before_pause` of a paused chunk whose route it gives up, and
   a resume writes `running` back; a completion that arrives after a stop or a release
   does the same. `ChunkSpec` says only a claim reaches it.
2. **A rejected fact does not hold the mark** (`FactIntake!RejectedHoldsMark`, `Spec`): a
   later fact of the batch that applies moves past it, and a re-send is acked as applied.
3. **A permission request registered just after an interrupt hangs**
   (`Sessions!InterruptedAskReturns`, `UnansweredSpec`).
4. **A report to an interrupted parent makes its worker spin** (`Sessions!InboxDrains`,
   `FairSpec`): `_deliver_inbox` returns while the cancel flag is set and nothing clears it.
5. **Deleting a running child hangs its parent's join** (`Sessions!JoinEnds`, `FairSpec`).
6. **A turn can be lost in a halt** (`Sessions!HaltKeepsTurns`, `Spec`): a signal that
   arrives after the service has registered and before `resume` has come to a session
   makes `halt` save it as not running. A worker that notices its killed process before
   `os._exit` loses its turn as well, saving it as ended over what `halt` saved.

The rest follow from steps the models take, and the properties are stated so as to leave
them out:

- *Hub.* With `Overlap = TRUE` two pushes of one sender served at once apply a fact twice.
  A `question.asked` under an id already on file skips the fence and is written afresh,
  also on an ended chunk, where the mock hub's README says it is rejected. Two claims at
  once may both be granted. An enrolment overtaken by a retirement leaves the retired
  runner a current token; the gate and the identity route both refuse it. `reset` keeps
  what runners reported (`_reported`), though its docstring says every row is gone. Two
  runners that ship to a lease nobody owns yet make `lease_transcript_owner` raise.
- *Mock runner.* Of two completions of one chunk that overlap, the later answer takes the
  lease back. The `stale_epoch` lever, meant to be fenced out, moves the chunk when the
  report of its lease was lost. After a reset of the mock runner alone the hub keeps its
  mark and swallows what is pushed next.
- *Forge.* A rebase writes the base ref without comparing and overwrites a landing or push
  that came in between. `merge_pull` compares the caller's sha with the head and resolves
  the head again to land it. A merged pull may be reopened and its head then moves, where
  a comment says real GitHub never updates it. A pull reopened after its base was deleted
  is open and cannot be read.
- *Harness.* Turns of one session that overlap lose each other's entries. A kill inside a
  write leaves a torn session file, on which later turns fail.
- *Sessions.* `resume` starts workers one by one and does not save, so one started early may
  save while a later session is still marked as not running; `StoreMatches` names the window.

## Proofs

All theorems hold for every value of the constants that satisfies the assumptions the
modules name. They say what a constant is (`GraphAssumption`: the graph's targets are
nodes, the terminal, dangling or absent; `ForestAssumption`: sessions form a forest,
and the store lists a parent before its children; `OutboxAssumption`, `DriveAssumption`,
`FleetAssumption`, `DeskAssumption`, `ForgeAssumption`, `InputAssumption`,
`TurnAssumption`, and `CallAssumption` and `StoreAssumption` of `SeedStore`), that bounds are naturals (`BoundAssumption`, `GenerationAssumption`;
the forge's `MaxCommits` leaves room for the commit a repository is seeded with), and
that `None` and its like are none of the values they stand beside (`NoneAssumption`,
`LaneAssumption`, `CallAssumption` of `FactIntake`, `UnreadableAssumption`,
`ColumnAssumption`). TLC evaluates them in the
runs of their modules.

What a recursive function or a fold computes is proved by induction done by hand: if the
statement failed somewhere it would fail at a least place, which `Least` finds. The
library's induction theorems take the statement as an operator and cannot be
instantiated. `SelectSeq` is out of reach, being defined by a recursive operator; the
properties to be proved say the same with indices.

**HubChunkProofs.** `TypeCorrect` comes first. `StepByRow` then reduces
every step to what it does to one row (`Reseeded`, `Granted`, `Rekeyed`,
`Completed`, `Paused`, `Released`, `GivenUp`, `Resumed`, `Fenced`, `StatusSet`), so
each later argument goes over ten row changes, not over thirty actions. The
inductive invariant `ChunkInv` has three parts per row, since none of the
properties is inductive by itself:

- `HeldRow`: while claimed, the status is one a held chunk can have, a paused one
  *was paused while running*, a done one stands where no completion leaves, and
  runner, node and token are there. Without the second part a resume could bring
  `ready` back under a route; without the third a late completion could move a done
  chunk. Gives `HeldNotOffered` and `RouteWhole`.
- `MovesRow`: a key not in `applied` never moved the chunk. Gives `MovesOnce`.
- `IssuedRow`: no token handed out has a re-key count above the row's. Gives
  `RekeyFresh`.

`FenceMonotone`, `RouteNotTransferred` and `RetiredGainsNothing` are action
properties over `StepByRow`; `RetiredLockedOut` is inductive with the types;
`EndedNeverOffered` needs `Spent`, since a row may leave done and stopped: once it
ended it is unrouted and neither ready nor paused from ready, or routed and
parked at a node no completion leaves.

**LaneProofs.** Of `FactIntake`, `TypeCorrect` holds with overlapping pushes or without;
the other theorems assume `~Overlap`, without which `AppliedOnce` is false (see
the deviations). `FactInv` is `OnePush` (one push per sender is in the hub),
`MarksNewest` (the mark, of the call while there is one and of the table else, is
the newest fact applied), `Once` and `NoGap` (every fact under a mark, or passed
over by a call in progress, was decided). From it follow `FactAppliedOnce`,
`NoFactSkipped` and `IntakeImplementsLog`, the refinement of `FactLog`.

Of `Transcripts`, `AnswersStayTrue` and `OwnerKept` rest on `LaneInv`: what a push has
left has no gap behind its mark, the mark passes no record without an answer
(`MarksTold`), a refusal is for good since an attempt keeps its owner, and what the other
answers say is backed by the keys and the records filed under them. `BytesStayAccounted` needs that what the charge adds
up is the sum over the records kept. The sum is a fold over a set, which takes its members
in whatever order `CHOOSE` has: `SumsExist`, `SumsRemove` and `SumsAgree` show by induction
on the cardinality that the order does not matter and a member more is its size more, and
`Charged`, inductive beside `LaneInv`, lifts it to the step that accepts a record.

**SessionsProofs.** `TypeCorrect` is inductive with `ChildKnown`: a worker that has
spawned a child knows a child of its own session. `StepKinds` then sorts the steps by
what they do to the workers and the store: nothing (`Quiet`), a save (`Saved`), a
worker started (`Started`, with who asked for it), a worker's exit, a child created, a
restart or a resume; the arguments below go over those seven kinds.

- `StoreUpToDate`: `StoreMatches` is inductive with the types.
- `WorkersApart`: `OneWorker` needs `WorkerInv`. A worker's session is marked running,
  so `_start` finds the worker. A session waiting for its resume exists and is not
  running, so an API call, a new child or a report must not start a worker for it
  before `resume` does: the server does not listen yet, a child just spawned was never
  on file, and a reporting child's parents are done waiting. The last is the set of
  `Clear`, closed under `Parent`; that `resume` goes by the order of the store, parents
  before children (`ForestAssumption`), is what extends it.
- `FinishedStaysFinished`: the action property from `StoreMatches`, which a resumed
  worker without a current turn needs.

- `QueuesServed`: `Served` adds to `QueueServed` that a listed session exists, one that
  does not has nothing queued, and the child a worker spawned exists. `StepKinds` does not
  suffice here, as a queue matters as well: a step is `Harmless` (it queues nothing, starts no
  worker and ends none that may not end), or one of a submission, a report, an exit, a removal or a restart.

**HubFleetProofs.** `FleetInv` says of every row what it refers to: a runner's host and the
projects it is served stand and are of its tenant (`Registry`), a token, a revoked token and
a rotation name runners that exist (`Credentials`), a holder is of its chunk's tenant *and so
is a runner whose claim was checked and is not granted yet* (`Work`). The last part is why
`TenantsApart` is not inductive: between `claim` and `grant` other calls come in, and
what keeps it true is that no call changes a runner's tenant while its row stands. From it
follow `TenantsStayApart` and `IdentityTold`. `PeekFindsFirst` is about the scan alone, for
queues of any length: `ScannedTo` says of every prefix that the scan has picked its first
offerable entry, or is over, or knows the projects it stopped. `PeekIsGranted` joins it with
the invariant.

**RunnerDriveProofs.**

- `TypeCorrect` is not plain: an epoch is minted one over another, so that they stay in
  bounds has to be paid for. `EpochsPaid` says that epochs are bounded by the verbs driven less
  those whose minting is still owed.
- `WalksOnceHolds`, the refinement of `Walk`, needs `OfferedOnce`: claims are granted
  before the first is written, while the chunk is at no node, so each is offered the entry.
- `LonePushFresh` needs `LanesAhead`: the hub's mark is behind the counter of a driver that
  was not reset, and a push alone in its lane stays ahead of the mark until it is sent.
- `LeaseStaysGood` needs `Tenure`, which holds until something spoils the lease
  (`UnspoiledTenure`): one call at most has the lease in hand, from the answer of the claim to
  the report of the lease; the answer it carries, be it the first or a replay's, is of the
  row as it is; one driver at most holds a lease, and it is good.

**ForgeProofs.** `ForgeInv` has, beside the types, `Frozen` (a closed pull keeps a head and
a pinned base), `OpenHeadsExist`, `Grounded` (a landing in flight is about a pull there is
and, once replayed, has a commit to land), `SeededOnce` (while the repository is being
created there is one request and nothing else) and `Lined` (a commit reaches itself and
only older ones). `Grounded` carries the first two over the window between the check and
the record of a landing, in which the branch may move or go. `MergeStateTold` holds by the
two ladders of levers, case by case. `CommitsBuildOn` is the action property of `Lined`: a
landing, a merge of branches or an update-branch puts a commit on a branch that has the
old tip in its line. A rebase's replay is not among them, as it compares nothing (see the
deviations).

Of `ForgeDesk`, the same module proves `DeskInv`: while a budget for every token lasts the template is that
budget, so a window opened later starts from it, and no live window has more left (`Bound`,
for `BudgetBinds`); what a lever has left and has refused make what it was armed with
(`Levered`, for `LeverCounts`); issues and pulls are numbered by one counter without a gap
(`Numbered`, for `NumberingShared`).

**HarnessProofs.** Of `CodexAuth`, `AuditTells`, `OneRotation` and `RestsOnTheFile` follow
from `AuthInv`: the process between `acquire` and `release` is the only one, what it read
is what the file still says, generations only grow, and every generation is in the log or
its writer died between the rename and the line. Of `HarnessTurn`, `TurnInv` follows a turn
through memory and file. `Listed` and `Begins` say that a session counts the turns that
began, and no other; `Remembering` that mark and credential are those of the newest turn
that bears one, in the file and in every memory made from it; `Alone` that live turns of a
session that is not overlapped are one; `Complete` that the file then lists all turns;
`AsksKept` that an ask answered is on file and in every memory; `SavedIsFile` that a turn
that has saved holds what the file holds. A kill inside a write leaves the file torn, and
each part speaks of files that can be read. `SessionsRemember` and `EnvelopeIsLast` follow.

`TranscriptTells` needs `TaleInv` beside it. `Tale` is what a turn has told so far: its
message first, each call answered but the one it is at, its own result last. A turn that
appends tells it to the file (`Appending`), one that rewrites to its document, which is what
is on file unless the file is torn (`Rewriting`); a turn not heard of has told nothing
(`Silence`); and the tale of a turn that is over is in the file and in the document of every
later turn of its session (`HandedOn`), the part that makes the rest inductive: a document
is taken up from the file once and written back many times. `TurnTells` reduces every step
to what it does to the texts (`Telling`), and `Spares` says that what one turn says leaves
the others' lines where they were.

`RouteNotTransferred`, `RetiredLockedOut` and `RetiredGainsNothing` are proved of
`HubChunk`, where a call is one step, and are not among the runs' properties any more:
`HubFleet` and `RunnerDrive` take the calls apart and show what holds between threads.

**SeedStoreProofs.** `IInv` has three parts beside the count of invocations.

- `SeqsInv`: a lane's counter bounds the numbers in the lane, or the counter is unset and
  what the lane holds is the row a store from before counters was found with. A
  transaction advances the counter it reads by the rows it adds, hence `SeqsIssuedOnce`.
- `HubInv`: keys are keys, every row has its parent and is `Grounded`, that is, what a
  reader takes from it stands in the hub: its tenant's graph or chunk, a node of its
  chunk's own graph, its epoch's owner. `ReadsHold` follows.
- `StepsInv` speaks of the hand-overs still to come, since what they rest on was read
  earlier. Each `Fits` the hub as it stands and as far as the invocation's earlier
  hand-overs will have added to it (`Ahead`): its rows will be grounded, and each chunk
  among them `Derives` the status asked for. `GroundedGrows` is why a landing of another
  invocation does not spoil this. A fleet is before its brake, before its board with the
  brake engaged, or before its mirror with the chunks held (`Fleet`).

`Derives` speaks of every hub the chunk is `NewTo`, not of the one that was read: a board
composed against one hub lands on another. That a composer's rows derive the status is
proved for each status and each way to ask for it, and lifted to boards of any size: a
board is its `Members`, each about a chunk of its own, and what derives a chunk's status
are the rows about it (`FlattenRows` unfolds the fold of the community modules).
`LandsAsAsked` needs beside `IInv` that only a landing adds chunks (`MovesByLanding`) and
that the chunks it adds were new to the hub (`NewHere`); `CutFleetIsSafe` that no other
invocation's landing moves a fleet (`FleetNext`).

`TypeCorrect` needs `Typed` beside `IInv`: a write is stamped with a tenant the hub holds
when it lands (`StampHeld`), no landing adds or a reset drops a tenant, and a hand-over to
a runner store names a runner or takes the store's own.

**Only model-checked.** `Settles`, since fairness is out of the prover's reach.

## Limits

- The hub's calls are one step each in `HubChunk`. The handlers run on threads;
  `RunnerDrive` and `HubFleet` take `claim` and `enroll` apart, `FactIntake` and
  `Transcripts` the lanes. Windows inside the other calls are not modelled: two `add_host`
  calls with one name, two enrolments of one runner, two pushes that add to one chunk's
  bytes at once.
- `POST /_seed/reset` is modelled for the lanes and the fleet, between calls, and not for
  the chunks, where it equals starting over from `Init`.
- `RunnerDrive` drives one chunk. The gateway's fields for the last response, which every
  thread writes, are diagnostics no step reads and are left out.
- `Forge`: the run has one pull, so that a head shared by two pulls, and the pulls closed
  before one that cannot be frozen, are in the module and not in the run; the run lands by
  squash and rebase. A window inside `delete_ref` or `create_pull` is not modelled.
- `ForgeDesk`: one refusing lever is armed at a time; scopes of levers by path or credential
  are one set.
- `SeedStore`: the run has two invocations; `reset` runs while no invocation is between its steps. Which
  of two graphs stamped with one instant is the newest is a free choice.
- `HarnessTurn`: in the run, turns at the same time are of one session, since turns of
  different sessions touch different files.

## Not modelled

- Artifact checks, request capture, wire records, permission rules and the facades'
  renderings: they shape data and keep no protocol state; a reference definition would be
  the code again.
- The OpenCode 1 surface: a command reads one state document, changes it and replaces it
  by a rename. The read-modify-write is the one `HarnessTurn` has; the rest is output.
- `idp`: a code is put into a dictionary and popped from it, each in one step.
- `fixture_workspace`: writes repositories once and reads nothing back.
- Of the OpenCode 2 shell: HTTP framing, the registration file, settings and the TUI.
