----------------------------- MODULE RunnerDrive -----------------------------
(***************************************************************************)
(* MockRunnerService driving a hub over an unreliable link: the verbs of   *)
(* its control surface (claim, complete, decide, escalate, ask, pause,     *)
(* events, usage, transcripts, reset) for one chunk, and of the mock hub   *)
(* the part they meet: the claim, the fence, the attempts applied and the  *)
(* two lanes' marks (the whole of the hub's rows: HubChunk; of its lane:   *)
(* FactIntake).                                                            *)
(*                                                                         *)
(* The control routes run on a thread pool without a lock, so a verb is    *)
(* cut at every call over the link and at the counter it numbers a fact    *)
(* with; a call may be lost, or its answer (the gateway then reports       *)
(* status 0).  The hub's claim reads the row and writes it later.          *)
(***************************************************************************)
EXTENDS Integers, FiniteSets

CONSTANTS
    Drivers,        \* mock runners
    Threads,        \* control calls that may be under way
    DriverOf,       \* DriverOf[t]: the runner a thread belongs to
    Nodes, Entry,   \* the chunk's graph,
    Edges,          \*   its choices <<node, target>>; a choice is named by its target
    Kinds,          \* the levers that are armed
    MaxVerbs,       \* bound: verbs driven
    MaxArmed,       \* bound: levers a driver has armed at once
    MaxResets,      \* bound: resets of a driver
    None

TERMINAL == "done"      \* the target that ends a chunk
Elsewhere == "conflicting-node"
Lanes == {"facts", "transcripts"}
RunnerLevers == {"drop_ack", "conflicting_fact", "unreachable", "replay", "stale_epoch"}
Epochs == 0..(MaxVerbs + 1)
Attempts == Nodes \X Epochs     \* f"{from_node_id}#{epoch}"

ASSUME DriveAssumption ==
    /\ DriverOf \in [Threads -> Drivers]
    /\ Entry \in Nodes /\ Edges \subseteq Nodes \X (Nodes \cup {TERMINAL})
    /\ {TERMINAL, Elsewhere, None} \cap Nodes = {} /\ None \notin Epochs /\ None \notin {"next", "done"}
    /\ Kinds \subseteq RunnerLevers
    /\ MaxVerbs \in Nat /\ MaxArmed \in Nat /\ MaxResets \in Nat

(* A lease the driver holds; what it pushes; what an apply is answered; and *)
(* an answer the driver does nothing with, status 0 or an error's.         *)
Held(epochs) == [node : Nodes, epoch : epochs]
FactKinds == {"lease", "escalation", "question", "plain"}
Fact(epochs) == [kind : FactKinds, epoch : epochs]
Targets == Nodes \cup {TERMINAL}
Reply(epochs) ==
    [out : {"next"}, node : Nodes, epoch : epochs]
      \cup [out : {"done", "failure"}, node : Targets \cup {None}, epoch : epochs]
Lost == [out |-> "lost"]

VARIABLES
    hub,        \* the chunk at the hub
    mark,       \* mark[d][lane]: the hub's high-water mark
    held,       \* held[d]: the lease the driver holds, or None
    seq,        \* seq[d][lane]: the driver's counter
    armed,      \* armed[d]: its levers, each for one use
    thread,     \* thread[t]: the verb under way
    verbs,      \* history: verbs driven
    resets,     \* history: resets[d]
    spoiled     \* history: a claim came in behind another, or verbs that move the
                \*   lease overlapped or sent a stale epoch

vars == <<hub, mark, held, seq, armed, thread, verbs, resets, spoiled>>

Idle == [at |-> "idle"]

Init ==
    /\ hub = [claimed |-> FALSE, node |-> None, fence |-> 0, done |-> FALSE,
              applied |-> [a \in Attempts |-> None], escalation |-> None, asked |-> {}]
    /\ mark = [d \in Drivers |-> [l \in Lanes |-> 0]]
    /\ held = [d \in Drivers |-> None]
    /\ seq = [d \in Drivers |-> [l \in Lanes |-> 0]]
    /\ armed = [d \in Drivers |-> {}]
    /\ thread = [t \in Threads |-> Idle]
    /\ verbs = 0 /\ resets = [d \in Drivers |-> 0] /\ spoiled = {}

Is(t, at) == thread[t].at = at
Step(t, next) == thread' = [thread EXCEPT ![t] = next]

(* A verb begins on an idle thread.                                        *)
Drive(t) == Is(t, "idle") /\ verbs < MaxVerbs /\ verbs' = verbs + 1

(* _pull: a lever armed for one use is used up.                            *)
Pulled(d, used) == armed' = [armed EXCEPT ![d] = @ \ used]

-----------------------------------------------------------------------------
(* Claiming                                                                *)

(* refuse_claim and the line after it read the row: whether it may be      *)
(* claimed, and the node it is offered at ...                              *)
ClaimGranted == ~hub.done /\ ~hub.claimed
OfferedAt == IF hub.node = None THEN Entry ELSE hub.node

claim(t) ==
    /\ Drive(t) /\ ClaimGranted
    /\ Step(t, [at |-> "granted", node |-> OfferedAt])
    /\ UNCHANGED <<hub, mark, held, seq, armed, resets, spoiled>>

(* ... and claim writes it, whatever it holds by then, at the node read    *)
(* before or after another claim got in between.  The answer carries the   *)
(* node and the fence, or is lost; of a chunk at its end there is no       *)
(* envelope, and the route answers 404.                                    *)
ClaimWritten(t) ==
    /\ Is(t, "granted")
    /\ \E node \in {thread[t].node, OfferedAt} :
        /\ hub' = [hub EXCEPT !.claimed = TRUE, !.node = node, !.done = FALSE]
        /\ \/ Step(t, Idle)
           \/ node # TERMINAL /\ Step(t, [at |-> "claimed", node |-> node, epoch |-> hub.fence])
    /\ spoiled' = spoiled \cup (IF hub.claimed THEN {"reclaimed"} ELSE {})
    /\ UNCHANGED <<mark, held, seq, armed, verbs, resets>>

(* The driver mints the next epoch over the one it read, and reports it.   *)
ReportLease(t, lease) ==
    Step(t, [at |-> "push", lane |-> "facts", fact |-> [kind |-> "lease", epoch |-> lease.epoch]])

Minted(reply) == [node |-> reply.node, epoch |-> reply.epoch + 1]

ClaimAnswered(t) ==
    /\ Is(t, "claimed")
    /\ held' = [held EXCEPT ![DriverOf[t]] = Minted(thread[t])]
    /\ ReportLease(t, Minted(thread[t]))
    /\ UNCHANGED <<hub, mark, seq, armed, verbs, resets, spoiled>>

-----------------------------------------------------------------------------
(* Completing                                                              *)

(* The submission, bent by the levers that apply before it is sent.        *)
Submission(d, choice) ==
    [at |-> "submitted", choice |-> choice, first |-> None,
     node |-> IF "conflicting_fact" \in armed[d] THEN Elsewhere ELSE held[d].node,
     epoch |-> IF "stale_epoch" \in armed[d] /\ held[d].epoch > 0 THEN held[d].epoch - 1 ELSE held[d].epoch]

(* A claim or a completion under way, to the end of the lease it reports.  *)
Moving(t) ==
    \/ thread[t].at \in {"granted", "claimed", "submitted", "answered"}
    \/ thread[t].at \in {"push", "send"} /\ thread[t].fact.kind = "lease"

complete(t, choice) ==
    LET d == DriverOf[t]
    IN  /\ Drive(t) /\ held[d] # None
        /\ spoiled' = spoiled \cup
               (IF "stale_epoch" \in armed[d] \/ \E s \in Threads \ {t} : Moving(s) THEN {"moved"} ELSE {})
        /\ IF "unreachable" \in armed[d]
           THEN Pulled(d, {"unreachable"}) /\ Step(t, Idle)
           ELSE Pulled(d, {"stale_epoch", "conflicting_fact"}) /\ Step(t, Submission(d, choice))
        /\ UNCHANGED <<hub, mark, held, seq, resets>>

(* apply_completion.  An attempt applied before is answered again with     *)
(* the node and the fence of now.                                          *)
Attempt(sub) == <<sub.node, sub.epoch>>
Spent == {a \in Attempts : hub.applied[a] # None}

Coherent(sub) == sub.node = hub.node /\ hub.escalation # sub.epoch /\ sub.epoch \notin hub.asked

MutAdmitAgain(sub) ==
    sub.epoch >= hub.fence /\ Coherent(sub) /\ <<sub.node, sub.choice>> \in Edges
Admitted(sub) ==
    /\ Attempt(sub) \notin Spent
    /\ sub.epoch >= hub.fence /\ Coherent(sub)
    /\ <<sub.node, sub.choice>> \in Edges

AppliedTo(sub) ==
    [hub EXCEPT !.node = sub.choice, !.done = (sub.choice = TERMINAL),
                !.applied[Attempt(sub)] = IF sub.choice = TERMINAL THEN "done" ELSE "next"]

(* A resubmission whose chunk has ended meanwhile would be answered with   *)
(* an envelope there is none for: a 404, which the driver leaves alone.    *)
Outcome(row, sub) ==
    IF Attempt(sub) \in Attempts /\ row.applied[Attempt(sub)] # None
    THEN row.applied[Attempt(sub)] ELSE "failure"
Answer(row, sub) ==
    IF Outcome(row, sub) = "next" /\ row.node \notin Nodes THEN Lost
    ELSE [out |-> Outcome(row, sub), node |-> row.node, epoch |-> row.fence]

Answered(sub, reply) ==
    [at |-> "answered", choice |-> sub.choice, first |-> sub.first, node |-> sub.node, epoch |-> sub.epoch,
     reply |-> reply]

CompletionApplied(t) ==
    LET sub == thread[t]
        row == IF Admitted(sub) THEN AppliedTo(sub) ELSE hub
    IN  /\ Is(t, "submitted")
        /\ hub' = row
        /\ \E reply \in {Answer(row, sub), Lost} : Step(t, Answered(sub, reply))
        /\ UNCHANGED <<mark, held, seq, armed, verbs, resets, spoiled>>

CompletionLost(t) ==
    /\ Is(t, "submitted")
    /\ Step(t, Answered(thread[t], Lost))
    /\ UNCHANGED <<hub, mark, held, seq, armed, verbs, resets, spoiled>>

(* The replay lever sends the submission once more; the first answer is    *)
(* the one that counts.                                                    *)
Replayed(t) ==
    LET sub == thread[t]
    IN  /\ Is(t, "answered") /\ sub.first = None /\ "replay" \in armed[DriverOf[t]]
        /\ Pulled(DriverOf[t], {"replay"})
        /\ Step(t, [at |-> "submitted", choice |-> sub.choice, node |-> sub.node, epoch |-> sub.epoch,
                    first |-> sub.reply])
        /\ UNCHANGED <<hub, mark, held, seq, verbs, resets, spoiled>>

(* _advance, unless the answer was lost or drop_ack discards it: the lease *)
(* moves on and is re-fenced, or the tenure is over.                       *)
MovesOn(reply) == reply.out = "next"

CompletionAnswered(t) ==
    LET d == DriverOf[t]
        reply == IF thread[t].first = None THEN thread[t].reply ELSE thread[t].first
    IN  /\ Is(t, "answered") /\ (thread[t].first = None => "replay" \notin armed[d])
        /\ Pulled(d, {"drop_ack"})
        /\ IF "drop_ack" \in armed[d] \/ reply = Lost \/ held[d] = None
           THEN held' = held /\ Step(t, Idle)
           ELSE IF MovesOn(reply)
           THEN held' = [held EXCEPT ![d] = Minted(reply)] /\ ReportLease(t, Minted(reply))
           ELSE held' = [held EXCEPT ![d] = None] /\ Step(t, Idle)
        /\ UNCHANGED <<hub, mark, seq, verbs, resets, spoiled>>

-----------------------------------------------------------------------------
(* The two lanes                                                           *)
Push(t, lane, kind, epoch) ==
    /\ Step(t, [at |-> "push", lane |-> lane, fact |-> [kind |-> kind, epoch |-> epoch]])
    /\ UNCHANGED <<hub, mark, held, seq, armed, resets, spoiled>>

escalate(t) ==
    Drive(t) /\ held[DriverOf[t]] # None /\ Push(t, "facts", "escalation", held[DriverOf[t]].epoch)

ask(t) ==
    Drive(t) /\ held[DriverOf[t]] # None /\ Push(t, "facts", "question", held[DriverOf[t]].epoch)

push_transcript(t) ==
    Drive(t) /\ held[DriverOf[t]] # None /\ Push(t, "transcripts", "plain", held[DriverOf[t]].epoch)

(* pause, resume, events and usage need no lease.                          *)
report_event(t) == Drive(t) /\ Push(t, "facts", "plain", 0)

(* Every push takes the next number ...                                    *)
MutUncounted(d, lane) == IF lane = "facts" THEN seq[d][lane] + 1 ELSE seq[d][lane]
Counted(d, lane) == seq[d][lane] + 1

Overlaps(t, lane) ==
    {s \in Threads \ {t} : DriverOf[s] = DriverOf[t] /\ Is(s, "send") /\ thread[s].lane = lane}

TakeNumber(t) ==
    LET d == DriverOf[t]
        lane == thread[t].lane
        others == Overlaps(t, lane)
    IN  /\ Is(t, "push")
        /\ seq' = [seq EXCEPT ![d][lane] = Counted(d, lane)]
        /\ thread' = [s \in Threads |->
                        IF s = t THEN [at |-> "send", lane |-> lane, fact |-> thread[t].fact, alone |-> others = {}]
                        ELSE IF s \in others THEN [thread[s] EXCEPT !.alone = FALSE] ELSE thread[s]]
        /\ UNCHANGED <<hub, mark, held, armed, verbs, resets, spoiled>>

(* ... and is sent with what the counter holds by then.                    *)
FenceAdmits(e) == ~hub.done /\ (hub.fence = 0 \/ e >= hub.fence)

Rejected(fact) == fact.kind \in {"escalation", "question"} /\ ~FenceAdmits(fact.epoch)

MutFencePastLease(fact) ==
    IF fact.kind = "lease" THEN [hub EXCEPT !.fence = fact.epoch + 1] ELSE hub
Ingested(fact) ==
    CASE fact.kind = "lease" -> [hub EXCEPT !.fence = IF fact.epoch > @ THEN fact.epoch ELSE @]
      [] fact.kind = "escalation" -> [hub EXCEPT !.escalation = fact.epoch]
      [] fact.kind = "question" -> [hub EXCEPT !.asked = @ \cup {fact.epoch}]
      [] OTHER -> hub

SendFact(t) ==
    LET d == DriverOf[t]
        lane == thread[t].lane
        fact == thread[t].fact
        n == seq[d][lane]
    IN  /\ Is(t, "send")
        /\ IF n <= mark[d][lane] \/ Rejected(fact) THEN UNCHANGED <<hub, mark>>
           ELSE hub' = Ingested(fact) /\ mark' = [mark EXCEPT ![d][lane] = n]
        /\ Step(t, Idle)
        /\ UNCHANGED <<held, seq, armed, verbs, resets, spoiled>>

FactLost(t) ==
    /\ Is(t, "send")
    /\ Step(t, Idle)
    /\ UNCHANGED <<hub, mark, held, seq, armed, verbs, resets, spoiled>>

-----------------------------------------------------------------------------
(* Deciding parks the chunk for a human, which ends no attempt: nothing of *)
(* what is kept here changes, whether the hub refuses it or not.           *)
decide(t) ==
    /\ Drive(t) /\ held[DriverOf[t]] # None
    /\ UNCHANGED <<hub, mark, held, seq, armed, thread, resets, spoiled>>

(* A person answers every open question.                                   *)
AnswerQuestions ==
    /\ hub.asked # {}
    /\ hub' = [hub EXCEPT !.asked = {}]
    /\ UNCHANGED <<mark, held, seq, armed, thread, verbs, resets, spoiled>>

(* reset forgets what the driver holds and its numbers; the hub does not.  *)
reset(d) ==
    /\ resets[d] < MaxResets
    /\ held' = [held EXCEPT ![d] = None]
    /\ seq' = [seq EXCEPT ![d] = [l \in Lanes |-> 0]]
    /\ armed' = [armed EXCEPT ![d] = {}]
    /\ resets' = [resets EXCEPT ![d] = @ + 1]
    /\ UNCHANGED <<hub, mark, thread, verbs, spoiled>>

arm_lever(d, kind) ==
    /\ Cardinality(armed[d]) < MaxArmed
    /\ armed' = [armed EXCEPT ![d] = @ \cup {kind}]
    /\ UNCHANGED <<hub, mark, held, seq, thread, verbs, resets, spoiled>>

clear_lever(d, kind) ==
    /\ armed' = [armed EXCEPT ![d] = @ \ {kind}]
    /\ UNCHANGED <<hub, mark, held, seq, thread, verbs, resets, spoiled>>

DriveRoutes ==
    \E t \in Threads :
        \/ claim(t) \/ decide(t) \/ escalate(t) \/ ask(t) \/ report_event(t) \/ push_transcript(t)
        \/ \E choice \in Targets : complete(t, choice)

Link ==
    \E t \in Threads :
        \/ ClaimWritten(t) \/ ClaimAnswered(t)
        \/ CompletionApplied(t) \/ CompletionLost(t) \/ Replayed(t) \/ CompletionAnswered(t)
        \/ TakeNumber(t) \/ SendFact(t) \/ FactLost(t)

LeverRoutes == \E d \in Drivers, kind \in Kinds : arm_lever(d, kind) \/ clear_lever(d, kind)

Next == DriveRoutes \/ Link \/ LeverRoutes \/ AnswerQuestions \/ \E d \in Drivers : reset(d)

Spec == Init /\ [][Next]_vars

-----------------------------------------------------------------------------
(* Properties                                                              *)
ThreadRow(epochs) ==
    [at : {"idle"}]
      \cup [at : {"granted"}, node : Targets]
      \cup [at : {"claimed"}, node : Nodes, epoch : epochs]
      \cup [at : {"submitted"}, choice : Targets, node : Nodes \cup {Elsewhere}, epoch : epochs,
            first : Reply(epochs) \cup {Lost, None}]
      \cup [at : {"answered"}, choice : Targets, node : Nodes \cup {Elsewhere}, epoch : epochs,
            first : Reply(epochs) \cup {Lost, None}, reply : Reply(epochs) \cup {Lost}]
      \cup [at : {"push"}, lane : Lanes, fact : Fact(epochs)]
      \cup [at : {"send"}, lane : Lanes, fact : Fact(epochs), alone : BOOLEAN]

ChunkRow(epochs) ==
    [claimed : BOOLEAN, node : Targets \cup {None}, fence : epochs, done : BOOLEAN,
     applied : [Attempts -> {"next", "done", None}], escalation : epochs \cup {None},
     asked : SUBSET epochs]

(* Every part keeps its shape: an epoch the driver mints stays within the  *)
(* verbs driven, a lease names a node of the graph.                        *)
TypedUpTo(epochs) ==
    /\ hub \in ChunkRow(epochs)
    /\ held \in [Drivers -> Held(epochs) \cup {None}]
    /\ thread \in [Threads -> ThreadRow(epochs)]
TypeOK ==
    /\ TypedUpTo(Epochs)
    /\ mark \in [Drivers -> [Lanes -> Nat]] /\ seq \in [Drivers -> [Lanes -> Nat]]
    /\ armed \in [Drivers -> SUBSET Kinds]
    /\ verbs \in 0..MaxVerbs /\ resets \in [Drivers -> Nat]
    /\ spoiled \subseteq {"reclaimed", "moved"}

(* However calls are lost, replayed, bent by levers or raced, the chunk    *)
(* walks its graph and no attempt takes it over two edges (D-090,          *)
(* RunnerLever.REPLAY: "the hub must apply it once"); only a claim that    *)
(* was granted before another one wrote sends it back to its entry, and    *)
(* the attempts applied by then stay spent.                                *)
Promise == INSTANCE Walk WITH at <- hub.node, spent <- Spent, Unclaimed <- None,
                              reclaimed <- "reclaimed" \in spoiled,
                              Epochs <- Epochs, Nodes <- Nodes, Entry <- Entry, Edges <- Edges
WalksOnce == Promise!Spec

(* As long as claims and completions do not overlap, and no call is under  *)
(* way, the lease a driver holds is good whatever was lost, dropped or     *)
(* replayed: it names the chunk's node, or an attempt the hub has applied, *)
(* whose resubmission answers with the node of now (_rebuild).  Where two  *)
(* overlap, a late answer may take the lease back to one the hub refuses;  *)
(* and the stale_epoch lever, meant to be fenced out, moves the chunk      *)
(* under the driver when the report of its lease was lost.                 *)
HeldLeaseIsGood ==
    (spoiled = {} /\ \A t \in Threads : Is(t, "idle")) =>
        \A d \in Drivers : held[d] # None =>
            \/ <<held[d].node, held[d].epoch>> \in Spent
            \/ held[d].node = hub.node /\ held[d].epoch >= hub.fence

(* A push that no other push of its driver overlaps carries a number over  *)
(* the hub's mark, so it is not taken for one already applied: facts are   *)
(* swallowed only by a race for the counter (_push_fact has no lock) or    *)
(* after a reset (the hub keeps its mark).                                 *)
LonePushIsFresh ==
    \A t \in Threads :
        (Is(t, "send") /\ resets[DriverOf[t]] = 0 /\ thread[t].alone) =>
            seq[DriverOf[t]][thread[t].lane] > mark[DriverOf[t]][thread[t].lane]
=============================================================================
