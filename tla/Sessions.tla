------------------------------ MODULE Sessions ------------------------------
(***************************************************************************)
(* The OpenCode 2 mock service's session engine (Engine) with the scripted *)
(* turns it runs (ScriptedTurns): API calls under one lock, one worker     *)
(* thread per running session, the turn's child process, permission        *)
(* requests, forms, child sessions, interrupts, the store and restarts.    *)
(*                                                                         *)
(* One action is one critical section of the engine's lock, or one look at *)
(* an event or a flag outside it.  Message texts, usage and published      *)
(* events are left out.                                                    *)
(***************************************************************************)
EXTENDS Integers, Sequences, FiniteSets, Relation

CONSTANTS
    Sessions,       \* session ids, each used at most once
    Parent,         \* Parent[s]: the session s is a child of, None for a root
    Order,          \* Order[s]: the place of s in the store, a child's after its parent's
    Removable,      \* the sessions clients delete
    Kinds,          \* what clients submit: "prompt", "steer", "compact"
    Modes,          \* how scripts spawn children: TRUE in the background, FALSE joined
    MaxThreads,     \* bound: worker threads alive at once
    MaxSubmits,     \* bound: how often clients prompt or compact
    MaxInterrupts,  \* bound: how often clients interrupt
    MaxRestarts,    \* bound: how often the service ends and starts again
    MaxEvents,      \* bound: how many of the three happen in all
    None

Threads == 1..MaxThreads

ASSUME ForestAssumption ==
    /\ Parent \in [Sessions -> Sessions \cup {None}]
    /\ Order \in [Sessions -> Nat]
    /\ \A s, p \in Sessions : Order[s] = Order[p] => s = p
    /\ \A s \in Sessions : Parent[s] # None => Order[Parent[s]] < Order[s]
    /\ Removable \subseteq Sessions

ASSUME BoundAssumption ==
    /\ Kinds \subseteq {"prompt", "steer", "compact"} /\ Modes \subseteq BOOLEAN
    /\ MaxThreads \in Nat /\ MaxEvents \in Nat
    /\ MaxSubmits \in Nat /\ MaxInterrupts \in Nat /\ MaxRestarts \in Nat

SessionOutcomes == {"succeeded", "failed", "interrupted"}
Replies == {"allow", "deny", "reject"}      \* once or always, reject with a message, reject

(* Where a worker is: _worker's loop, what it took off the queue, the turn *)
(* (the child process between `opening` and its end), the turn's end.      *)
Places == {"resume", "loop", "popped", "compact", "inbox",
           "opening", "run", "asking", "asked", "form", "spawned", "joining", "steered",
           "ended", "eof", "failed", "stopping", "succeeding", "failing", "report"}

(* What a turn the store would resume is doing.                            *)
TurnPlaces == {"resume", "opening", "run", "asking", "asked", "form", "spawned", "joining",
               "steered", "ended", "eof", "stopping", "succeeding", "failing"}

SessionRow == [made : BOOLEAN, listed : BOOLEAN, running : BOOLEAN, current : BOOLEAN,
               outcome : SessionOutcomes \cup {None}, cancel : BOOLEAN,
               pending : Seq({"prompt", "steer", "compact"}), inbox : Seq(Sessions),
               ask : {None, "open", "woken"} \cup Replies, form : {None, "open", "settled"},
               holder : {None, "live", "dead"}, background : BOOLEAN]

StoredRow == [running : BOOLEAN, current : BOOLEAN, outcome : SessionOutcomes \cup {None},
              background : BOOLEAN]

ThreadRow == [on : Sessions, at : Places, child : Sessions \cup {None}]

ASSUME NoneAssumption ==
    None \notin Sessions /\ None \notin StoredRow /\ None \notin ThreadRow

VARIABLES
    sess,       \* sess[s]: the Session object; `made` once it exists, `listed` while in self.sessions
    thread,     \* thread[t]: a worker thread, or None
    store,      \* store[s]: what the store file holds of s, or None
    halted,     \* Engine._halted: a signal is ending this lifetime
    boot,       \* boot[s]: load found s running and resume has not come to it, or has
    due,        \* history: the sessions whose turn was in progress when it was halted
    stop,       \* history: stop[s], an interrupt was answered true and the turn has not ended since
    used        \* how often clients submitted and interrupted, and restarts, for the bounds

vars == <<sess, thread, store, halted, boot, due, stop, used>>

Unmade == [made |-> FALSE, listed |-> FALSE, running |-> FALSE, current |-> FALSE,
           outcome |-> None, cancel |-> FALSE, pending |-> <<>>, inbox |-> <<>>,
           ask |-> None, form |-> None, holder |-> None, background |-> FALSE]

Init ==
    /\ sess = [s \in Sessions |-> Unmade]
    /\ thread = [t \in Threads |-> None]
    /\ store = [s \in Sessions |-> None]
    /\ halted = FALSE
    /\ boot = [s \in Sessions |-> "none"]
    /\ due = {}
    /\ stop = [s \in Sessions |-> FALSE]
    /\ used = [submits |-> 0, interrupts |-> 0, restarts |-> 0]

-----------------------------------------------------------------------------
(* The lock's helpers                                                      *)

(* Session.stored, of the sessions listed.                                 *)
MutStoredForgets(row) ==
    IF row.listed
    THEN [running |-> row.running, current |-> row.current, outcome |-> row.outcome]
    ELSE None
Stored(row) ==
    IF row.listed
    THEN [running |-> row.running, current |-> row.current, outcome |-> row.outcome,
          background |-> row.background]
    ELSE None

Save == store' = [s \in Sessions |-> Stored(sess'[s])]

(* A worker's last step saves, or a restart would find a finished session  *)
(* running.                                                                *)
MutExitUnsaved == UNCHANGED store
SaveAtExit == Save

Waiting == {s \in Sessions : boot[s] = "waiting"}

(* _tree without its root: the listed sessions below s.                    *)
Below(s) ==
    LET child == TransitiveClosure(
            [p \in Sessions \X Sessions |-> Parent[p[2]] = p[1] /\ sess[p[2]].listed], Sessions)
    IN {d \in Sessions : child[s, d]}

(* _cancel of one session: queue and inbox dropped, its process killed,    *)
(* its permission request woken without a decision.                        *)
Cancelled(row) ==
    [row EXCEPT !.cancel = @ \/ row.running,
                !.pending = <<>>, !.inbox = <<>>,
                !.holder = IF @ = "live" THEN "dead" ELSE @,
                !.ask = IF @ = "open" THEN "woken" ELSE @]

(* _cancel with its recursion: the session and every running one below it. *)
CancelTree(s) ==
    [d \in Sessions |->
        IF d = s \/ (d \in Below(s) /\ sess[d].running) THEN Cancelled(sess[d]) ELSE sess[d]]

(* The bounds leave room for one more.                                     *)
Within(kind, max) ==
    used[kind] < max /\ used.submits + used.interrupts + used.restarts < MaxEvents

(* The thread a new worker runs on.                                        *)
IsFree(u) == thread[u] = None /\ \A v \in 1..(u - 1) : thread[v] # None

Worker(s, at) == [on |-> s, at |-> at, child |-> None]

(* _start after `row` was written for s: a running session's worker will   *)
(* find it, an idle one gets a worker.  `others` is the state of the       *)
(* threads the caller leaves behind.                                       *)
MutStartAlways(row) == TRUE
NeedsWorker(row) == ~row.running

Start(s, row, others) ==
    IF NeedsWorker(row)
    THEN \E u \in Threads :
            /\ IsFree(u)
            /\ sess' = [sess EXCEPT ![s] = [row EXCEPT !.running = TRUE, !.cancel = FALSE]]
            /\ thread' = [others EXCEPT ![u] = Worker(s, "loop")]
            /\ Save
    ELSE /\ sess' = [sess EXCEPT ![s] = row]
         /\ thread' = others
         /\ UNCHANGED store

-----------------------------------------------------------------------------
(* API calls; the server answers them once every session has been resumed. *)

Listening == Waiting = {}

(* create: a client's session; one with a parent is no background child.   *)
Create(s) ==
    /\ Listening
    /\ ~sess[s].made
    /\ sess' = [sess EXCEPT ![s].made = TRUE, ![s].listed = TRUE]
    /\ Save
    /\ UNCHANGED <<thread, halted, boot, due, stop, used>>

(* prompt and compact.                                                     *)
Submit(s, kind) ==
    /\ Listening /\ sess[s].listed
    /\ Within("submits", MaxSubmits)
    /\ Start(s, [sess[s] EXCEPT !.pending = Append(@, kind)], thread)
    /\ used' = [used EXCEPT !.submits = @ + 1]
    /\ UNCHANGED <<halted, boot, due, stop>>

(* interrupt, answered true; on an idle session it does nothing.           *)
Interrupt(s) ==
    /\ Listening /\ sess[s].listed /\ sess[s].running
    /\ Within("interrupts", MaxInterrupts)
    /\ sess' = CancelTree(s)
    /\ stop' = [stop EXCEPT ![s] = TRUE]
    /\ used' = [used EXCEPT !.interrupts = @ + 1]
    /\ UNCHANGED <<thread, store, halted, boot, due>>

ReplyPermission(s, decision) ==
    /\ Listening /\ sess[s].listed /\ sess[s].ask # None
    /\ sess' = [sess EXCEPT ![s].ask = decision]
    /\ UNCHANGED <<thread, store, halted, boot, due, stop, used>>

CancelForm(s) ==
    /\ Listening /\ sess[s].listed /\ sess[s].form = "open"
    /\ sess' = [sess EXCEPT ![s].form = "settled"]
    /\ UNCHANGED <<thread, store, halted, boot, due, stop, used>>

(* remove: every session of the tree is cancelled, then unlisted.          *)
Remove(s) ==
    LET doomed == {s} \cup Below(s)
    IN /\ Listening /\ s \in Removable /\ sess[s].listed
       /\ sess' = [d \in Sessions |->
                     IF d \in doomed THEN [Cancelled(sess[d]) EXCEPT !.listed = FALSE] ELSE sess[d]]
       /\ Save
       /\ stop' = [d \in Sessions |-> stop[d] /\ d \notin doomed]
       /\ UNCHANGED <<thread, halted, boot, due, used>>

-----------------------------------------------------------------------------
(* The worker between turns                                                *)

At(t, place) == thread[t] # None /\ thread[t].at = place
On(t) == thread[t].on
Me(t) == sess[On(t)]
MoveTo(t, place) == thread' = [thread EXCEPT ![t].at = place]
Gone(t) == [thread EXCEPT ![t] = None]

(* A step that looks at the state and moves on.                            *)
Silent == UNCHANGED <<sess, store, halted, boot, due, stop, used>>

(* _resume_worker: the turn the last lifetime was running runs again.      *)
Resume(t) ==
    /\ At(t, "resume")
    /\ MoveTo(t, IF Me(t).current THEN "opening" ELSE "loop")
    /\ Silent

(* A halted engine or a removed session ends the worker where it stands.   *)
WorkerQuits(t) ==
    /\ At(t, "loop")
    /\ halted \/ ~Me(t).listed
    /\ thread' = Gone(t)
    /\ Silent

TakePending(t) ==
    /\ At(t, "loop")
    /\ ~halted /\ Me(t).listed
    /\ Me(t).pending # <<>>
    /\ sess' = [sess EXCEPT ![On(t)].pending = Tail(@)]
    /\ MoveTo(t, IF Head(Me(t).pending) = "compact" THEN "compact" ELSE "popped")
    /\ UNCHANGED <<store, halted, boot, due, stop, used>>

TakeInbox(t) ==
    /\ At(t, "loop")
    /\ ~halted /\ Me(t).listed
    /\ Me(t).pending = <<>> /\ Me(t).inbox # <<>>
    /\ MoveTo(t, "inbox")
    /\ Silent

(* Nothing waits: the check and the flag are one critical section.         *)
MutExitWithInbox(row) == row.pending = <<>>
QueueEmpty(row) == row.pending = <<>> /\ row.inbox = <<>>

WorkerExits(t) ==
    /\ At(t, "loop")
    /\ ~halted /\ Me(t).listed
    /\ QueueEmpty(Me(t))
    /\ sess' = [sess EXCEPT ![On(t)].running = FALSE, ![On(t)].current = FALSE]
    /\ stop' = [stop EXCEPT ![On(t)] = FALSE]
    /\ thread' = Gone(t)
    /\ SaveAtExit
    /\ UNCHANGED <<halted, boot, due, used>>

(* _compact: interrupted in its wait, or done.                             *)
RunCompact(t) ==
    /\ At(t, "compact")
    /\ MoveTo(t, IF Me(t).cancel THEN "stopping" ELSE "succeeding")
    /\ Silent

(* _deliver_inbox: an interrupted session leaves the entry where it is;    *)
(* else the entry runs its wake script, or succeeds without one.           *)
DeliverInbox(t) ==
    /\ At(t, "inbox")
    /\ \/ /\ Me(t).cancel \/ Me(t).inbox = <<>>
          /\ MoveTo(t, "loop")
          /\ Silent
       \/ /\ ~Me(t).cancel /\ Me(t).inbox # <<>>
          /\ sess' = [sess EXCEPT ![On(t)].inbox = Tail(@)]
          /\ Save
          /\ MoveTo(t, "opening") \/ MoveTo(t, "succeeding")
          /\ UNCHANGED <<halted, boot, due, stop, used>>

(* user_message: the text becomes the current turn and the cancel flag is  *)
(* cleared.                                                                *)
UserMessage(t) ==
    /\ At(t, "popped") \/ At(t, "steered")
    /\ sess' = [sess EXCEPT ![On(t)].current = TRUE, ![On(t)].cancel = FALSE]
    /\ Save
    /\ MoveTo(t, "opening")
    /\ UNCHANGED <<halted, boot, due, stop, used>>

-----------------------------------------------------------------------------
(* The turn                                                                *)

(* _Turn.run: the child process starts and becomes the session's holder.   *)
OpenTurn(t) ==
    /\ At(t, "opening")
    /\ sess' = [sess EXCEPT ![On(t)].holder = "live"]
    /\ MoveTo(t, "run")
    /\ UNCHANGED <<store, halted, boot, due, stop, used>>

(* The model does not route, or the fence refuses the script.              *)
RefuseTurn(t) ==
    /\ At(t, "opening")
    /\ MoveTo(t, "failing")
    /\ Silent

(* A request of the script was answered and the session found cancelled.   *)
SeesCancel(t) ==
    /\ At(t, "run") /\ Me(t).cancel
    /\ MoveTo(t, "stopping")
    /\ Silent

(* _steer at a tool's end or a step: the first steer of the queue.         *)
TakeSteer(t) ==
    /\ At(t, "run")
    /\ \E i \in 1..Len(Me(t).pending) :
        /\ Me(t).pending[i] = "steer"
        /\ \A j \in 1..(i - 1) : Me(t).pending[j] # "steer"
        /\ sess' = [sess EXCEPT ![On(t)].holder = None,
             ![On(t)].pending = SubSeq(@, 1, i - 1) \o SubSeq(@, i + 1, Len(@))]
    /\ MoveTo(t, "steered")
    /\ UNCHANGED <<store, halted, boot, due, stop, used>>

(* The script asks for a tool the rules hold, or for a form.               *)
CallTool(t) ==
    /\ At(t, "run")
    /\ MoveTo(t, "asking")
    /\ Silent

RaiseForm(t) ==
    /\ At(t, "run") /\ Me(t).listed
    /\ sess' = [sess EXCEPT ![On(t)].form = "open"]
    /\ MoveTo(t, "form")
    /\ UNCHANGED <<store, halted, boot, due, stop, used>>

(* create_form of a session removed meanwhile raises through the worker.   *)
RaiseFormLost(t) ==
    /\ At(t, "run") /\ ~Me(t).listed
    /\ thread' = Gone(t)
    /\ Silent

(* request_permission up to its wait, then the answer: a reply, or none    *)
(* when the session was interrupted.                                       *)
RequestPermission(t) ==
    /\ At(t, "asking")
    /\ sess' = [sess EXCEPT ![On(t)].ask = "open"]
    /\ MoveTo(t, "asked")
    /\ UNCHANGED <<store, halted, boot, due, stop, used>>

PermissionAnswered(t) ==
    /\ At(t, "asked") /\ Me(t).ask # "open"
    /\ Me(t).cancel \/ Me(t).ask \in {"woken", "allow", "deny"}
    /\ sess' = [sess EXCEPT ![On(t)].ask = None]
    /\ MoveTo(t, IF Me(t).cancel \/ Me(t).ask = "woken" THEN "stopping" ELSE "run")
    /\ UNCHANGED <<store, halted, boot, due, stop, used>>

(* A bare reject: the step is aborted and the turn ends with no idle.      *)
Declined(t) ==
    /\ At(t, "asked") /\ Me(t).ask = "reject" /\ ~Me(t).cancel
    /\ sess' = [sess EXCEPT ![On(t)].ask = None, ![On(t)].current = FALSE, ![On(t)].holder = None]
    /\ stop' = [stop EXCEPT ![On(t)] = FALSE]
    /\ Save
    /\ MoveTo(t, "loop")
    /\ UNCHANGED <<halted, boot, due, used>>

(* await_form polls its form and the cancel flag.                          *)
AwaitForm(t) ==
    /\ At(t, "form")
    /\ \/ Me(t).form = "settled" /\ MoveTo(t, "run")
       \/ Me(t).form # "settled" /\ Me(t).cancel /\ MoveTo(t, "stopping")
    /\ sess' = [sess EXCEPT ![On(t)].form = None]
    /\ UNCHANGED <<store, halted, boot, due, stop, used>>

(* spawn_child creates the child and, in a second critical section,        *)
(* prompts it; settle_child waits for one not in the background.           *)
SpawnChild(t, c, background) ==
    /\ At(t, "run")
    /\ Parent[c] = On(t) /\ ~sess[c].made
    /\ sess' = [sess EXCEPT ![c].made = TRUE, ![c].listed = TRUE, ![c].background = background]
    /\ Save
    /\ thread' = [thread EXCEPT ![t].at = "spawned", ![t].child = c]
    /\ UNCHANGED <<halted, boot, due, stop, used>>

PromptChild(t) ==
    LET c == thread[t].child
        place == IF sess[c].background THEN "run" ELSE "joining"
    IN /\ At(t, "spawned") /\ sess[c].listed
       /\ Start(c, [sess[c] EXCEPT !.pending = Append(@, "prompt")],
                [thread EXCEPT ![t].at = place])
       /\ UNCHANGED <<halted, boot, due, stop, used>>

(* The child was removed in between: the prompt raises through the worker. *)
PromptChildLost(t) ==
    /\ At(t, "spawned") /\ ~sess[thread[t].child].listed
    /\ thread' = Gone(t)
    /\ Silent

(* The join ends with the child's run, whatever its outcome.               *)
MutJoinSucceeded(child) == ~child.running /\ child.outcome = "succeeded"
ChildSettled(child) == ~child.running

JoinChild(t) ==
    /\ At(t, "joining")
    /\ \/ ChildSettled(sess[thread[t].child]) /\ MoveTo(t, "run")
       \/ ~ChildSettled(sess[thread[t].child]) /\ Me(t).cancel /\ MoveTo(t, "stopping")
    /\ Silent

-----------------------------------------------------------------------------
(* The turn's end                                                          *)

(* The script reports its end, and its process is released.                *)
ScriptEnds(t) ==
    /\ At(t, "run")
    /\ sess' = [sess EXCEPT ![On(t)].holder = None]
    /\ MoveTo(t, "ended")
    /\ UNCHANGED <<store, halted, boot, due, stop, used>>

(* The pipe closes first: the process was killed, or the script died.      *)
PipeCloses(t) ==
    /\ At(t, "run")
    /\ sess' = [sess EXCEPT ![On(t)].holder = None]
    /\ MoveTo(t, "eof")
    /\ UNCHANGED <<store, halted, boot, due, stop, used>>

JudgeEnd(t) ==
    /\ At(t, "ended") \/ At(t, "eof")
    /\ MoveTo(t, IF Me(t).cancel THEN "stopping"
                 ELSE IF At(t, "ended") THEN "succeeding" ELSE "failing")
    /\ Silent

(* idle: the outcome is recorded and the turn is no longer current; an     *)
(* interrupted one drops what was queued.                                  *)
MutIdleKeepsCurrent(row, outcome) ==
    [row EXCEPT !.outcome = outcome, !.holder = None,
                !.pending = IF outcome = "interrupted" THEN <<>> ELSE @]
Idled(row, outcome) ==
    [row EXCEPT !.outcome = outcome, !.current = FALSE, !.holder = None,
                !.pending = IF outcome = "interrupted" THEN <<>> ELSE @]

Idle(t, outcome, place) ==
    /\ sess' = [sess EXCEPT ![On(t)] = Idled(@, outcome)]
    /\ stop' = [stop EXCEPT ![On(t)] = FALSE]
    /\ Save
    /\ MoveTo(t, place)
    /\ UNCHANGED <<halted, boot, due, used>>

TurnInterrupted(t) == At(t, "stopping") /\ Idle(t, "interrupted", "loop")
TurnFails(t) == At(t, "failing") /\ Idle(t, "failed", "loop")
TurnSucceeds(t) == At(t, "succeeding") /\ Idle(t, "succeeded", IF Parent[On(t)] = None THEN "loop" ELSE "report")

(* A failure helper ends the turn inside the conversation; the cancel flag *)
(* is looked at once more after it.                                        *)
ScriptFails(t) == At(t, "run") /\ Idle(t, "failed", "failed")

AfterFailure(t) ==
    /\ At(t, "failed")
    /\ MoveTo(t, IF Me(t).cancel THEN "stopping" ELSE "loop")
    /\ Silent

(* _child_settled: a background child's success wakes its parent.          *)
ChildReports(t) ==
    LET c == On(t)
        p == Parent[c]
    IN /\ At(t, "report")
       /\ IF p # None /\ sess[p].listed /\ sess[c].background
          THEN Start(p, [sess[p] EXCEPT !.inbox = Append(@, c)], [thread EXCEPT ![t].at = "loop"])
          ELSE MoveTo(t, "loop") /\ UNCHANGED <<sess, store>>
       /\ UNCHANGED <<halted, boot, due, stop, used>>

-----------------------------------------------------------------------------
(* Signals and restarts                                                    *)

(* halt: every turn's process is killed and the state saved; the process   *)
(* exits a little later.                                                   *)
Halt ==
    /\ ~halted
    /\ Within("restarts", MaxRestarts)
    /\ used' = [used EXCEPT !.restarts = @ + 1]
    /\ halted' = TRUE
    /\ due' = {s \in Sessions :
         sess[s].listed /\ sess[s].current /\ (sess[s].holder = "live" \/ s \in Waiting)}
    /\ sess' = [s \in Sessions |->
         [sess[s] EXCEPT !.holder = IF @ = "live" /\ sess[s].listed THEN "dead" ELSE @]]
    /\ Save
    /\ UNCHANGED <<thread, boot, stop>>

(* load: a session comes back as its record says, and not yet running.     *)
Loaded(s) ==
    IF store[s] = None THEN [Unmade EXCEPT !.made = sess[s].made]
    ELSE [Unmade EXCEPT !.made = TRUE, !.listed = TRUE, !.current = store[s].current,
                        !.outcome = store[s].outcome, !.background = store[s].background]

(* load's `interrupted`: the sessions that were running, in a turn or not. *)
WasRunning == {s \in Sessions : store[s] # None /\ store[s].running}

(* The process ends, by os._exit or a crash, and the next lifetime loads   *)
(* the store.                                                              *)
Restart ==
    /\ \/ halted /\ UNCHANGED used
       \/ /\ ~halted /\ Within("restarts", MaxRestarts)
          /\ used' = [used EXCEPT !.restarts = @ + 1]
    /\ sess' = [s \in Sessions |-> Loaded(s)]
    /\ thread' = [t \in Threads |-> None]
    /\ boot' = [s \in Sessions |-> IF s \in WasRunning THEN "waiting" ELSE "none"]
    /\ halted' = FALSE
    /\ due' = {}
    /\ stop' = [s \in Sessions |-> FALSE]
    /\ UNCHANGED store

(* resume, one session at a time in the order of the store: a worker each, *)
(* and no save.                                                            *)
ResumeSession(s) ==
    /\ ~halted
    /\ s \in Waiting /\ \A p \in Waiting : Order[s] <= Order[p]
    /\ boot' = [boot EXCEPT ![s] = "resumed"]
    /\ sess' = [sess EXCEPT ![s].running = TRUE]
    /\ \E u \in Threads : IsFree(u) /\ thread' = [thread EXCEPT ![u] = Worker(s, "resume")]
    /\ UNCHANGED <<store, halted, due, stop, used>>

-----------------------------------------------------------------------------
Client ==
    \E s \in Sessions :
        \/ Create(s)
        \/ \E kind \in Kinds : Submit(s, kind)
        \/ Interrupt(s)
        \/ Remove(s)

Replier ==
    \E s \in Sessions : CancelForm(s) \/ \E decision \in Replies : ReplyPermission(s, decision)

(* What the engine does of its own accord once a thread is scheduled.      *)
WorkerStep(t) ==
    \/ Resume(t) \/ WorkerQuits(t) \/ TakePending(t) \/ TakeInbox(t) \/ WorkerExits(t)
    \/ RunCompact(t) \/ DeliverInbox(t) \/ UserMessage(t) \/ OpenTurn(t)
    \/ RequestPermission(t) \/ PermissionAnswered(t) \/ Declined(t) \/ AwaitForm(t)
    \/ PromptChild(t) \/ PromptChildLost(t) \/ JoinChild(t)
    \/ JudgeEnd(t) \/ TurnInterrupted(t) \/ TurnFails(t) \/ TurnSucceeds(t)
    \/ AfterFailure(t) \/ ChildReports(t)

(* What the script in the turn's process does next.                        *)
ScriptStep(t) ==
    \/ SeesCancel(t) \/ TakeSteer(t) \/ CallTool(t) \/ RaiseForm(t) \/ RaiseFormLost(t)
    \/ \E c \in Sessions, background \in Modes : SpawnChild(t, c, background)
    \/ ScriptEnds(t) \/ ScriptFails(t) \/ PipeCloses(t) \/ RefuseTurn(t)

Next ==
    \/ Client
    \/ Replier
    \/ \E t \in Threads : WorkerStep(t) \/ ScriptStep(t)
    \/ Halt
    \/ Restart
    \/ \E s \in Sessions : ResumeSession(s)

Spec == Init /\ [][Next]_vars

(* Threads are scheduled, a killed process closes its pipe, and a signal   *)
(* handler reaches its os._exit.  Nothing is assumed of scripts: hang() is *)
(* one.                                                                    *)
KilledPipe(t) == thread[t] # None /\ Me(t).holder = "dead" /\ PipeCloses(t)

EngineFair ==
    /\ \A t \in Threads : WF_vars(WorkerStep(t)) /\ WF_vars(KilledPipe(t))
    /\ WF_vars(halted /\ Restart) /\ \A s \in Sessions : WF_vars(ResumeSession(s))

(* Someone answers the requests and closes the forms that hold a turn.     *)
Answer(s) == sess[s].ask = "open" /\ \E decision \in Replies : ReplyPermission(s, decision)
RequestsAnswered == \A s \in Sessions : WF_vars(Answer(s)) /\ WF_vars(CancelForm(s))

(* Scripts are finite: one that is given its answers comes to its end.     *)
ScriptsEnd == \A t \in Threads : SF_vars(ScriptEnds(t))

HangSpec == Spec /\ EngineFair /\ RequestsAnswered
UnansweredSpec == Spec /\ EngineFair /\ ScriptsEnd
FairSpec == Spec /\ EngineFair /\ RequestsAnswered /\ ScriptsEnd

-----------------------------------------------------------------------------
(* Properties                                                              *)

(* Sessions, threads, the store and the bounds stay in their sets.         *)
TypeOK ==
    /\ sess \in [Sessions -> SessionRow]
    /\ thread \in [Threads -> ThreadRow \cup {None}]
    /\ store \in [Sessions -> StoredRow \cup {None}]
    /\ halted \in BOOLEAN
    /\ boot \in [Sessions -> {"none", "waiting", "resumed"}]
    /\ due \in SUBSET Sessions
    /\ stop \in [Sessions -> BOOLEAN]
    /\ used \in [submits : 0..MaxSubmits, interrupts : 0..MaxInterrupts, restarts : 0..MaxRestarts]

InTurn(threads, t) == threads[t] # None /\ threads[t].at \in TurnPlaces
Serves(t, s) == thread[t] # None /\ On(t) = s

(* A session has one worker at most, however prompts, interrupts, child    *)
(* reports and worker exits interleave: two would run two turns at once.   *)
OneWorker == \A t, u \in Threads : (thread[t] # None /\ thread[u] # None /\ On(t) = On(u)) => t = u

(* No lost wake-up: what was accepted into a queue or an inbox has a       *)
(* worker to take it.  A prompt never lands between a worker's last look   *)
(* at the queue and its exit.  Only a session that had a child deleted may *)
(* have lost its worker, to PromptChildLost.                               *)
Bereft(s) == \E c \in Sessions : Parent[c] = s /\ sess[c].made /\ ~sess[c].listed

QueueServed ==
    \A s \in Sessions : (sess[s].listed /\ ~halted) =>
        /\ (\E t \in Threads : Serves(t, s)) => sess[s].running
        /\ sess[s].running => Bereft(s) \/ \E t \in Threads : Serves(t, s)
        /\ (sess[s].pending # <<>> \/ sess[s].inbox # <<>>) => sess[s].running

(* The store is never behind: a crash at any point finds on file which     *)
(* sessions exist, which turn is current and how the last one ended, no    *)
(* session as running that is not, and every running one, except one just  *)
(* resumed: a worker resumed before it may have saved in between.          *)
StoreMatches ==
    \A s \in Sessions :
        /\ (store[s] # None) <=> sess[s].listed
        /\ sess[s].listed =>
             /\ [store[s] EXCEPT !.running = sess[s].running] = Stored(sess[s])
             /\ store[s].running => (sess[s].running \/ s \in Waiting)
             /\ sess[s].running => (store[s].running \/ boot[s] = "resumed")

(* A restart never runs a finished turn again: a worker leaves a turn, by  *)
(* whichever of its ends, only with that turn off the file.                *)
FinishedNotRerun ==
    [][\A t \in Threads :
        (InTurn(thread, t) /\ thread'[t] # None /\ ~InTurn(thread', t))
            => (store'[On(t)] = None \/ ~store'[On(t)].current)]_vars

(* Every session comes to rest: with finite scripts and answered requests  *)
(* no interleaving of prompts, steers, interrupts, joins and restarts      *)
(* leaves a session running for ever.  A child in the background is left   *)
(* out: see InboxDrains.                                                   *)
Settles ==
    \A s \in Sessions : (sess[s].listed /\ sess[s].running) ~> ~(sess[s].listed /\ sess[s].running)

(* What the README says of hang(): it holds the turn "until it is          *)
(* interrupted".  An interrupt answered true may be lost.                  *)
InterruptEndsTurn == \A s \in Sessions : stop[s] ~> ~stop[s]

(* What request_permission says: it answers None "when the session was     *)
(* interrupted first".  It may wait for ever instead.                      *)
InterruptedAskReturns ==
    \A t \in Threads :
        (At(t, "asked") /\ Me(t).cancel) ~> ~(At(t, "asked") /\ Me(t).cancel)

(* What _child_settled says: a finished background child "wakes its        *)
(* parent".  A parent left with its cancel flag set never takes the entry. *)
InboxDrains == \A s \in Sessions : (sess[s].inbox # <<>>) ~> (sess[s].inbox = <<>>)

(* What settle_child says: the spawning part is closed "once the child     *)
(* idles".  A removed child stays `running` after its idle.                *)
JoinEnds == \A t \in Threads : At(t, "joining") ~> ~At(t, "joining")

(* What halt says: it persists "the state as it is, running turns          *)
(* included".  It does not when a signal lands before resume has come to   *)
(* the session, or when a worker saves before the process exits.           *)
HaltKeepsTurns == \A s \in due : store[s] # None => store[s].running /\ store[s].current

=============================================================================
