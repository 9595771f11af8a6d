-------------------------- MODULE RunnerDriveProofs --------------------------
(***************************************************************************)
(* Proofs about the drivers and the chunk they drive (RunnerDrive): the    *)
(* epochs stay within the verbs driven, the chunk walks as Walk promises,  *)
(* a push alone in its lane is fresh, and a held lease is good.            *)
(***************************************************************************)
EXTENDS RunnerDrive, FiniteSetTheorems, TLAPS

(* What each row of a thread holds.                                        *)
LEMMA RowAt ==
    ASSUME NEW E, NEW row \in ThreadRow(E)
    PROVE  /\ row.at \in {"idle", "granted", "claimed", "submitted", "answered", "push", "send"}
           /\ row.at = "granted" => row.node \in Targets
           /\ row.at = "claimed" => row.node \in Nodes /\ row.epoch \in E
           /\ row.at \in {"submitted", "answered"} =>
                 /\ row.choice \in Targets /\ row.node \in Nodes \cup {Elsewhere} /\ row.epoch \in E
                 /\ row.first \in Reply(E) \cup {Lost, None}
           /\ row.at = "answered" => row.reply \in Reply(E) \cup {Lost}
           /\ row.at \in {"push", "send"} => row.lane \in Lanes /\ row.fact \in Fact(E)
           /\ row.at = "send" => row.alone \in BOOLEAN
BY DEF ThreadRow

LEMMA SendRow ==
    ASSUME NEW E, NEW row \in ThreadRow(E), row.at = "send"
    PROVE  LET left == [row EXCEPT !.alone = FALSE]
           IN  /\ left \in ThreadRow(E) /\ left.at = "send" /\ left.lane = row.lane
               /\ left.fact = row.fact /\ left.alone = FALSE
<1>1. row \in [at : {"send"}, lane : Lanes, fact : Fact(E), alone : BOOLEAN] BY DEF ThreadRow
<1>2. [row EXCEPT !.alone = FALSE] \in [at : {"send"}, lane : Lanes, fact : Fact(E), alone : BOOLEAN]
  BY <1>1
<1>3. /\ [row EXCEPT !.alone = FALSE].lane = row.lane
      /\ [row EXCEPT !.alone = FALSE].fact = row.fact /\ [row EXCEPT !.alone = FALSE].alone = FALSE
  BY <1>1
<1>4. [row EXCEPT !.alone = FALSE] \in ThreadRow(E) BY <1>2 DEF ThreadRow
<1>5. QED BY <1>2, <1>3, <1>4

(* The shapes grow with the epochs.                                        *)
LEMMA Wider ==
    ASSUME NEW E, NEW F, E \subseteq F
    PROVE  /\ Held(E) \subseteq Held(F) /\ Fact(E) \subseteq Fact(F) /\ Reply(E) \subseteq Reply(F)
           /\ ThreadRow(E) \subseteq ThreadRow(F) /\ ChunkRow(E) \subseteq ChunkRow(F)
<1>1. Held(E) \subseteq Held(F) /\ Fact(E) \subseteq Fact(F) BY DEF Held, Fact
<1>2. Reply(E) \subseteq Reply(F) BY DEF Reply
<1>3. ChunkRow(E) \subseteq ChunkRow(F) BY DEF ChunkRow
<1>4. ThreadRow(E) \subseteq ThreadRow(F)
  <2>1. Reply(E) \cup {Lost, None} \subseteq Reply(F) \cup {Lost, None} BY <1>2
  <2>2. QED BY <1>1, <1>2, <2>1 DEF ThreadRow
<1>5. QED BY <1>1, <1>2, <1>3, <1>4

-----------------------------------------------------------------------------
(* Every epoch a claim or a completion mints is one over an epoch that was *)
(* there: the verbs driven pay for the epochs, those under way not yet.    *)
Owing == {"granted", "claimed", "submitted", "answered"}
Owed == {t \in Threads : thread[t].at \in Owing}
Spare == verbs - Cardinality(Owed)

EpochsPaid ==
    /\ verbs \in 0..MaxVerbs
    /\ IsFiniteSet(Owed) /\ Cardinality(Owed) <= verbs
    /\ TypedUpTo(0..Spare)

LEMMA SpareType ==
    ASSUME EpochsPaid
    PROVE  /\ Spare \in Nat /\ Cardinality(Owed) \in Nat /\ verbs \in Nat
           /\ 0..Spare \subseteq Epochs
BY DriveAssumption, FS_CardinalityType DEF EpochsPaid, Spare, Epochs

(* A step of one thread adds it to those that owe, or takes it away.       *)
LEMMA OwedStep ==
    ASSUME EpochsPaid, NEW t \in Threads, NEW row, Step(t, row)
    PROVE  /\ IsFiniteSet(Owed')
           /\ Cardinality(Owed') = IF row.at \in Owing
                                   THEN IF thread[t].at \in Owing THEN Cardinality(Owed)
                                        ELSE Cardinality(Owed) + 1
                                   ELSE IF thread[t].at \in Owing THEN Cardinality(Owed) - 1
                                        ELSE Cardinality(Owed)
<1>1. DOMAIN thread = Threads BY DEF EpochsPaid, TypedUpTo
<1>2. thread'[t] = row /\ \A s \in Threads \ {t} : thread'[s] = thread[s]
  BY <1>1 DEF Step
<1>3. CASE row.at \in Owing
  <2>1. Owed' = Owed \cup {t} BY <1>2, <1>3 DEF Owed
  <2>2. t \in Owed <=> thread[t].at \in Owing BY DEF Owed
  <2>3. QED BY <1>3, <2>1, <2>2, FS_AddElement DEF EpochsPaid
<1>4. CASE row.at \notin Owing
  <2>1. Owed' = Owed \ {t} BY <1>2, <1>4 DEF Owed
  <2>2. t \in Owed <=> thread[t].at \in Owing BY DEF Owed
  <2>3. QED BY <1>4, <2>1, <2>2, FS_RemoveElement DEF EpochsPaid
<1>5. QED BY <1>3, <1>4

(* What becomes spare when a thread ends what it owed, or drives a verb    *)
(* that owes nothing.                                                      *)
Freed(t, row, n) == IF row.at \notin Owing /\ (n = 1 \/ thread[t].at \in Owing) THEN 1 ELSE 0

LEMMA PaidStep ==
    ASSUME EpochsPaid, NEW t \in Threads, NEW row, Step(t, row),
           NEW n \in {0, 1}, verbs' = verbs + n, verbs' <= MaxVerbs,
           n = 1 => thread[t].at = "idle",
           row.at \in Owing => n = 1 \/ thread[t].at \in Owing,
           hub' \in ChunkRow(0..(Spare + Freed(t, row, n))),
           held' \in [Drivers -> Held(0..(Spare + Freed(t, row, n))) \cup {None}],
           row \in ThreadRow(0..(Spare + Freed(t, row, n)))
    PROVE  EpochsPaid'
<1> DEFINE more == Freed(t, row, n)
<1>1. Spare \in Nat /\ Cardinality(Owed) \in Nat /\ verbs \in Nat /\ MaxVerbs \in Nat
  BY SpareType, DriveAssumption
<1>2. thread[t].at = "idle" => thread[t].at \notin Owing BY DEF Owing
<1>3. IsFiniteSet(Owed') /\ Cardinality(Owed') = Cardinality(Owed) + n - more
  BY <1>1, <1>2, OwedStep DEF Freed
<1>4. more \in {0, 1} /\ Spare' = Spare + more BY <1>1, <1>3 DEF Spare, Freed
<1>5. thread' \in [Threads -> ThreadRow(0..Spare')]
  <2>1. thread \in [Threads -> ThreadRow(0..Spare)] BY DEF EpochsPaid, TypedUpTo
  <2>2. 0..Spare \subseteq 0..Spare' BY <1>1, <1>4
  <2>3. thread \in [Threads -> ThreadRow(0..Spare')] BY <2>1, <2>2, Wider
  <2>4. row \in ThreadRow(0..Spare') BY <1>4
  <2>5. QED BY <2>3, <2>4 DEF Step
<1>6. Cardinality(Owed') <= verbs' BY <1>1, <1>3, <1>4, thread[t].at \in Owing => t \in Owed DEF EpochsPaid, Spare, Owed
<1>7. TypedUpTo(0..Spare)' BY <1>4, <1>5 DEF TypedUpTo
<1>8. QED BY <1>1, <1>3, <1>6, <1>7 DEF EpochsPaid

(* Steps that change no epoch, and write a row of the present epochs.      *)
LEMMA PaidRow ==
    ASSUME EpochsPaid, NEW t \in Threads, NEW row, Step(t, row),
           NEW n \in {0, 1}, verbs' = verbs + n, verbs' <= MaxVerbs,
           n = 1 => thread[t].at = "idle",
           row.at \in Owing => n = 1 \/ thread[t].at \in Owing,
           hub' \in ChunkRow(0..Spare),
           held' \in [Drivers -> Held(0..Spare) \cup {None}],
           row \in ThreadRow(0..Spare)
    PROVE  EpochsPaid'
<1> DEFINE more == Freed(t, row, n)
<1>1. Spare \in Nat /\ more \in {0, 1} BY SpareType DEF Freed
<1> HIDE DEF more
<1>2. 0..Spare \subseteq 0..(Spare + more) BY <1>1
<1>3. /\ Held(0..Spare) \subseteq Held(0..(Spare + more))
      /\ ChunkRow(0..Spare) \subseteq ChunkRow(0..(Spare + more))
      /\ ThreadRow(0..Spare) \subseteq ThreadRow(0..(Spare + more))
  BY <1>2, Wider
<1>4. held' \in [Drivers -> Held(0..(Spare + more)) \cup {None}] BY <1>3
<1>5. hub' \in ChunkRow(0..(Spare + more)) /\ row \in ThreadRow(0..(Spare + more)) BY <1>3
<1>6. QED BY <1>4, <1>5, PaidStep DEF more

-----------------------------------------------------------------------------
(* The rows the steps write, and what a lease is minted to.                *)
LEMMA HeldAt ==
    ASSUME EpochsPaid, NEW t \in Threads
    PROVE  /\ DriverOf[t] \in Drivers
           /\ held[DriverOf[t]] # None =>
                 held[DriverOf[t]].node \in Nodes /\ held[DriverOf[t]].epoch \in 0..Spare
           /\ thread[t] \in ThreadRow(0..Spare)
           /\ hub \in ChunkRow(0..Spare)
           /\ held \in [Drivers -> Held(0..Spare) \cup {None}]
BY DriveAssumption DEF EpochsPaid, TypedUpTo, Held

LEMMA MintedType ==
    ASSUME NEW b \in Nat, NEW reply, reply.node \in Nodes, reply.epoch \in 0..b
    PROVE  /\ Minted(reply) \in Held(0..(b + 1))
           /\ [at |-> "push", lane |-> "facts", fact |-> [kind |-> "lease", epoch |-> Minted(reply).epoch]]
                  \in ThreadRow(0..(b + 1))
BY DEF Minted, Held, ThreadRow, Fact, FactKinds, Lanes

LEMMA ClaimSteps ==
    ASSUME EpochsPaid, NEW t \in Threads, claim(t) \/ ClaimWritten(t) \/ ClaimAnswered(t)
    PROVE  EpochsPaid'
<1> USE DriveAssumption
<1>1. Spare \in Nat /\ verbs \in Nat /\ verbs <= MaxVerbs BY SpareType DEF EpochsPaid
<1>2. hub.node \in Targets \cup {None} /\ hub.fence \in 0..Spare BY HeldAt DEF ChunkRow
<1>3. OfferedAt \in Targets BY <1>2 DEF OfferedAt, Targets
<1>4. CASE claim(t)
  <2>1. [at |-> "granted", node |-> OfferedAt] \in ThreadRow(0..Spare) BY <1>3 DEF ThreadRow
  <2>2. /\ Step(t, [at |-> "granted", node |-> OfferedAt])
        /\ verbs' = verbs + 1 /\ verbs' <= MaxVerbs /\ thread[t].at = "idle"
        /\ UNCHANGED <<hub, held>>
    BY <1>1, <1>4 DEF claim, Drive, Is
  <2>3. QED BY <2>1, <2>2, HeldAt, PaidRow
<1>5. CASE ClaimWritten(t)
  <2>1. thread[t].at = "granted" /\ UNCHANGED <<held, verbs>>
    BY <1>5 DEF ClaimWritten, Is
  <2>2. PICK node \in {thread[t].node, OfferedAt} :
            /\ hub' = [hub EXCEPT !.claimed = TRUE, !.node = node, !.done = FALSE]
            /\ \/ Step(t, Idle)
               \/ node # TERMINAL /\ Step(t, [at |-> "claimed", node |-> node, epoch |-> hub.fence])
    BY <1>5 DEF ClaimWritten
  <2>3. node \in Targets BY <1>3, <2>1, HeldAt, RowAt
  <2>4. hub' \in ChunkRow(0..Spare) BY <2>2, <2>3, HeldAt DEF ChunkRow
  <2>5. CASE Step(t, Idle)
    <3>1. Idle \in ThreadRow(0..Spare) BY DEF Idle, ThreadRow
    <3>2. Idle.at = "idle" BY DEF Idle
    <3>3. QED BY <1>1, <2>1, <2>4, <2>5, <3>1, <3>2, HeldAt, PaidRow DEF Owing
  <2>6. CASE node # TERMINAL /\ Step(t, [at |-> "claimed", node |-> node, epoch |-> hub.fence])
    <3>1. [at |-> "claimed", node |-> node, epoch |-> hub.fence] \in ThreadRow(0..Spare)
      BY <1>2, <2>3, <2>6 DEF ThreadRow, Targets
    <3>2. QED BY <1>1, <2>1, <2>4, <2>6, <3>1, HeldAt, PaidRow DEF Owing
  <2>7. QED BY <2>2, <2>5, <2>6
<1>6. CASE ClaimAnswered(t)
  <2>1. thread[t].at = "claimed" /\ UNCHANGED <<hub, verbs>> BY <1>6 DEF ClaimAnswered, Is
  <2>2. thread[t].node \in Nodes /\ thread[t].epoch \in 0..Spare BY <2>1, HeldAt, RowAt
  <2> DEFINE row == [at |-> "push", lane |-> "facts",
                     fact |-> [kind |-> "lease", epoch |-> Minted(thread[t]).epoch]]
  <2>3. Minted(thread[t]) \in Held(0..(Spare + 1)) /\ row \in ThreadRow(0..(Spare + 1))
    BY <1>1, <2>2, MintedType
  <2>4. Step(t, row) /\ held' = [held EXCEPT ![DriverOf[t]] = Minted(thread[t])]
    BY <1>6 DEF ClaimAnswered, ReportLease
  <2>5. Freed(t, row, 0) = 1 BY <2>1 DEF Freed, Owing
  <2>6. 0..Spare \subseteq 0..(Spare + 1) BY <1>1
  <2>7. Held(0..Spare) \subseteq Held(0..(Spare + 1)) /\ ChunkRow(0..Spare) \subseteq ChunkRow(0..(Spare + 1))
    BY ZenonT(60), <2>6, Wider
  <2>8. held' \in [Drivers -> Held(0..(Spare + 1)) \cup {None}] BY <2>3, <2>4, <2>7, HeldAt
  <2>9. hub' \in ChunkRow(0..(Spare + 1)) BY <2>1, <2>7, HeldAt
  <2>10. row.at \notin Owing BY DEF Owing
  <2>11. QED BY <1>1, <2>1, <2>3, <2>4, <2>5, <2>8, <2>9, <2>10, PaidStep
<1>7. QED BY <1>4, <1>5, <1>6

(* What a submission makes of the chunk, and what it is answered.          *)
LEMMA AppliedType ==
    ASSUME NEW E, hub \in ChunkRow(E), NEW sub, sub.choice \in Targets
    PROVE  /\ AppliedTo(sub) \in ChunkRow(E)
           /\ AppliedTo(sub).node = sub.choice /\ AppliedTo(sub).fence = hub.fence
           /\ \A a \in Attempts : AppliedTo(sub).applied[a] =
                 IF a = Attempt(sub) THEN IF sub.choice = TERMINAL THEN "done" ELSE "next"
                 ELSE hub.applied[a]
           /\ AppliedTo(sub).claimed = hub.claimed
<1> DEFINE out == IF sub.choice = TERMINAL THEN "done" ELSE "next"
<1>1. /\ AppliedTo(sub) = [hub EXCEPT !.node = sub.choice, !.done = (sub.choice = TERMINAL),
                                      !.applied = [@ EXCEPT ![Attempt(sub)] = out]]
  BY DEF AppliedTo
<1>2. [hub.applied EXCEPT ![Attempt(sub)] = out] \in [Attempts -> {"next", "done", None}]
  BY DEF ChunkRow
<1>3. hub.applied \in [Attempts -> {"next", "done", None}] BY DEF ChunkRow
<1> HIDE DEF out
<1>4. AppliedTo(sub) \in ChunkRow(E) BY <1>1, <1>2 DEF ChunkRow
<1>5. /\ AppliedTo(sub).node = sub.choice /\ AppliedTo(sub).fence = hub.fence
      /\ AppliedTo(sub).claimed = hub.claimed
      /\ AppliedTo(sub).applied = [hub.applied EXCEPT ![Attempt(sub)] = out]
  BY <1>1 DEF ChunkRow
<1>6. QED BY <1>3, <1>4, <1>5 DEF out

LEMMA AnswerType ==
    ASSUME NEW E, NEW row \in ChunkRow(E), NEW sub
    PROVE  Answer(row, sub) \in Reply(E) \cup {Lost}
<1>1. Outcome(row, sub) \in {"next", "done", "failure"} BY DEF Outcome, ChunkRow
<1>2. row.node \in Targets \cup {None} /\ row.fence \in E BY DEF ChunkRow
<1>3. QED BY <1>1, <1>2 DEF Answer, Reply

LEMMA AnsweredType ==
    ASSUME NEW E, NEW sub \in ThreadRow(E), sub.at = "submitted", NEW reply \in Reply(E) \cup {Lost}
    PROVE  Answered(sub, reply) \in ThreadRow(E) /\ Answered(sub, reply).at = "answered"
<1>1. /\ sub.choice \in Targets /\ sub.node \in Nodes \cup {Elsewhere} /\ sub.epoch \in E
      /\ sub.first \in Reply(E) \cup {Lost, None}
  BY RowAt
<1>2. QED BY <1>1 DEF Answered, ThreadRow

LEMMA CompletionSteps ==
    ASSUME EpochsPaid, NEW t \in Threads,
           \/ \E choice \in Targets : complete(t, choice)
           \/ CompletionApplied(t) \/ CompletionLost(t) \/ Replayed(t)
    PROVE  EpochsPaid'
<1> USE DriveAssumption
<1> DEFINE d == DriverOf[t]
<1>1. Spare \in Nat /\ verbs \in Nat /\ verbs <= MaxVerbs BY SpareType DEF EpochsPaid
<1>2. Idle \in ThreadRow(0..Spare) /\ Idle.at = "idle" BY DEF Idle, ThreadRow
<1>3. ASSUME NEW choice \in Targets, complete(t, choice) PROVE EpochsPaid'
  <2>1. /\ verbs' = verbs + 1 /\ verbs' <= MaxVerbs /\ thread[t].at = "idle"
        /\ held[d] # None /\ UNCHANGED <<hub, held>>
    BY <1>1, <1>3 DEF complete, Drive, Is
  <2>2. CASE Step(t, Idle) BY <1>2, <2>1, <2>2, HeldAt, PaidRow DEF Owing
  <2>3. CASE Step(t, Submission(d, choice))
    <3>1. held[d].node \in Nodes /\ held[d].epoch \in 0..Spare BY <2>1, HeldAt
    <3>2. Submission(d, choice) \in ThreadRow(0..Spare) /\ Submission(d, choice).at = "submitted"
      BY <1>1, <3>1 DEF Submission, ThreadRow
    <3>3. QED BY <2>1, <2>3, <3>2, HeldAt, PaidRow DEF Owing
  <2>4. QED BY <1>3, <2>2, <2>3 DEF complete
<1>4. CASE CompletionApplied(t)
  <2> DEFINE row == IF Admitted(thread[t]) THEN AppliedTo(thread[t]) ELSE hub
  <2>1. thread[t].at = "submitted" /\ hub' = row /\ UNCHANGED <<held, verbs>>
    BY <1>4 DEF CompletionApplied, Is
  <2>2. PICK reply \in {Answer(row, thread[t]), Lost} : Step(t, Answered(thread[t], reply))
    BY <1>4 DEF CompletionApplied
  <2>3. row \in ChunkRow(0..Spare) BY <2>1, HeldAt, RowAt, AppliedType
  <2>4. reply \in Reply(0..Spare) \cup {Lost} BY <2>3, AnswerType
  <2>5. Answered(thread[t], reply) \in ThreadRow(0..Spare) /\ Answered(thread[t], reply).at = "answered"
    BY <2>1, <2>4, HeldAt, AnsweredType
  <2>6. QED BY <1>1, <2>1, <2>2, <2>3, <2>5, HeldAt, PaidRow DEF Owing
<1>5. CASE CompletionLost(t)
  <2>1. /\ thread[t].at = "submitted" /\ UNCHANGED <<hub, held, verbs>>
        /\ Step(t, Answered(thread[t], Lost))
    BY <1>5 DEF CompletionLost, Is
  <2>2. Answered(thread[t], Lost) \in ThreadRow(0..Spare) /\ Answered(thread[t], Lost).at = "answered"
    BY <2>1, HeldAt, AnsweredType
  <2>3. QED BY <1>1, <2>1, <2>2, HeldAt, PaidRow DEF Owing
<1>6. CASE Replayed(t)
  <2> DEFINE sub == thread[t]
             row == [at |-> "submitted", choice |-> sub.choice, node |-> sub.node,
                     epoch |-> sub.epoch, first |-> sub.reply]
  <2>1. sub.at = "answered" /\ UNCHANGED <<hub, held, verbs>> /\ Step(t, row)
    BY <1>6 DEF Replayed, Is
  <2>2. row \in ThreadRow(0..Spare)
    <3>1. /\ sub.choice \in Targets /\ sub.node \in Nodes \cup {Elsewhere} /\ sub.epoch \in 0..Spare
          /\ sub.reply \in Reply(0..Spare) \cup {Lost, None}
      BY <2>1, HeldAt, RowAt
    <3>2. QED BY <3>1 DEF ThreadRow
  <2>3. QED BY <1>1, <2>1, <2>2, HeldAt, PaidRow DEF Owing
<1>7. QED BY <1>3, <1>4, <1>5, <1>6

LEMMA AnsweredStep == ASSUME EpochsPaid, NEW t \in Threads, CompletionAnswered(t) PROVE EpochsPaid'
<1> USE DriveAssumption
<1> DEFINE d == DriverOf[t]
           reply == IF thread[t].first = None THEN thread[t].reply ELSE thread[t].first
           row == [at |-> "push", lane |-> "facts",
                   fact |-> [kind |-> "lease", epoch |-> Minted(reply).epoch]]
<1>1. Spare \in Nat /\ verbs \in Nat /\ verbs <= MaxVerbs BY SpareType DEF EpochsPaid
<1>2. Idle \in ThreadRow(0..Spare) /\ Idle.at = "idle" BY DEF Idle, ThreadRow
<1>3. thread[t].at = "answered" /\ UNCHANGED <<hub, verbs>> BY DEF CompletionAnswered, Is
<1>4. CASE Step(t, Idle) /\ held' \in {held, [held EXCEPT ![d] = None]}
  <2>1. held' \in [Drivers -> Held(0..Spare) \cup {None}] BY <1>4, HeldAt
  <2>2. QED BY <1>1, <1>2, <1>3, <1>4, <2>1, HeldAt, PaidRow DEF Owing
<1>5. CASE reply # Lost /\ MovesOn(reply) /\ held' = [held EXCEPT ![d] = Minted(reply)] /\ Step(t, row)
  <2>1. reply \in Reply(0..Spare) /\ reply.out = "next"
    <3>1. reply \in Reply(0..Spare) \cup {Lost} BY <1>3, HeldAt, RowAt
    <3>2. QED BY <1>5, <3>1 DEF MovesOn
  <2>2. reply.node \in Nodes /\ reply.epoch \in 0..Spare BY <2>1 DEF Reply
  <2> HIDE DEF reply
  <2>3. Minted(reply) \in Held(0..(Spare + 1)) /\ row \in ThreadRow(0..(Spare + 1))
    BY <1>1, <2>2, MintedType
  <2>4. 0..Spare \subseteq 0..(Spare + 1) BY <1>1
  <2>5. Held(0..Spare) \subseteq Held(0..(Spare + 1)) /\ ChunkRow(0..Spare) \subseteq ChunkRow(0..(Spare + 1))
    BY ZenonT(60), <2>4, Wider
  <2>6. held' \in [Drivers -> Held(0..(Spare + 1)) \cup {None}] BY <1>5, <2>3, <2>5, HeldAt
  <2>7. hub' \in ChunkRow(0..(Spare + 1)) BY <1>3, <2>5, HeldAt
  <2>8. row.at \notin Owing BY DEF Owing
  <2>9. Freed(t, row, 0) = 1 BY <1>3, <2>8 DEF Freed, Owing
  <2>10. Step(t, row) BY <1>5
  <2> HIDE DEF row
  <2>11. QED BY <1>1, <1>3, <2>3, <2>6, <2>7, <2>8, <2>9, <2>10, PaidStep
<1>6. QED BY <1>4, <1>5 DEF CompletionAnswered, ReportLease

(* The pushes, from the verb to the fact at the hub.                       *)
LEMMA FactType ==
    ASSUME NEW E, hub \in ChunkRow(E), NEW fact \in Fact(E)
    PROVE  /\ Ingested(fact) \in ChunkRow(E)
           /\ Ingested(fact).node = hub.node /\ Ingested(fact).applied = hub.applied
           /\ Ingested(fact).claimed = hub.claimed
           /\ Ingested(fact).fence = IF fact.kind = "lease" /\ fact.epoch > hub.fence
                                     THEN fact.epoch ELSE hub.fence
<1>1. fact.kind \in FactKinds /\ fact.epoch \in E BY DEF Fact
<1>2. CASE fact.kind = "lease" BY <1>1, <1>2 DEF Ingested, ChunkRow
<1>3. CASE fact.kind = "escalation" BY <1>1, <1>3 DEF Ingested, ChunkRow
<1>4. CASE fact.kind = "question" BY <1>1, <1>4 DEF Ingested, ChunkRow
<1>5. CASE fact.kind = "plain" BY <1>1, <1>5 DEF Ingested, ChunkRow
<1>6. QED BY <1>1, <1>2, <1>3, <1>4, <1>5 DEF FactKinds

LEMMA PushSteps ==
    ASSUME EpochsPaid, NEW t \in Threads,
           escalate(t) \/ ask(t) \/ report_event(t) \/ push_transcript(t)
    PROVE  EpochsPaid'
<1>1. Spare \in Nat /\ verbs \in Nat /\ verbs <= MaxVerbs /\ MaxVerbs \in Nat
  BY SpareType, DriveAssumption DEF EpochsPaid
<1>2. PICK lane \in Lanes, kind \in FactKinds, epoch \in 0..Spare :
          Drive(t) /\ Push(t, lane, kind, epoch)
  BY <1>1, HeldAt DEF escalate, ask, report_event, push_transcript, Lanes, FactKinds
<1> DEFINE row == [at |-> "push", lane |-> lane, fact |-> [kind |-> kind, epoch |-> epoch]]
<1>3. row \in ThreadRow(0..Spare) BY DEF ThreadRow, Fact
<1>4. /\ Step(t, row) /\ UNCHANGED <<hub, held>>
      /\ verbs' = verbs + 1 /\ verbs' <= MaxVerbs /\ thread[t].at = "idle"
  BY <1>1, <1>2 DEF Push, Drive, Is
<1>5. QED BY <1>3, <1>4, HeldAt, PaidRow DEF Owing

LEMMA SendSteps ==
    ASSUME EpochsPaid, NEW t \in Threads, SendFact(t) \/ FactLost(t)
    PROVE  EpochsPaid'
<1>1. Spare \in Nat /\ verbs \in Nat /\ verbs <= MaxVerbs /\ MaxVerbs \in Nat
  BY SpareType, DriveAssumption DEF EpochsPaid
<1>2. Idle \in ThreadRow(0..Spare) /\ Idle.at = "idle" BY DEF Idle, ThreadRow
<1>3. thread[t].at = "send" /\ Step(t, Idle) /\ UNCHANGED <<held, verbs>>
  BY DEF SendFact, FactLost, Is
<1>4. hub' \in ChunkRow(0..Spare)
  <2>1. hub' \in {hub, Ingested(thread[t].fact)} BY DEF SendFact, FactLost
  <2>2. QED BY <1>3, <2>1, HeldAt, RowAt, FactType
<1>5. QED BY <1>1, <1>2, <1>3, <1>4, HeldAt, PaidRow DEF Owing

(* A number taken: the pushes it overtakes are no longer alone.            *)
LEMMA NumberThreads ==
    ASSUME NEW E, thread \in [Threads -> ThreadRow(E)], NEW t \in Threads, TakeNumber(t)
    PROVE  /\ thread' \in [Threads -> ThreadRow(E)]
           /\ /\ thread'[t].at = "send" /\ thread'[t].lane = thread[t].lane
              /\ thread'[t].fact = thread[t].fact
              /\ thread'[t].alone = (Overlaps(t, thread[t].lane) = {})
           /\ \A s \in Threads \ {t} : s \notin Overlaps(t, thread[t].lane) => thread'[s] = thread[s]
           /\ \A s \in Overlaps(t, thread[t].lane) :
                 /\ thread[s].at = "send" /\ thread'[s].at = "send"
                 /\ thread'[s].lane = thread[s].lane
                 /\ thread'[s].fact = thread[s].fact /\ thread'[s].alone = FALSE
<1> DEFINE lane == thread[t].lane
           others == Overlaps(t, lane)
           taken == [at |-> "send", lane |-> lane, fact |-> thread[t].fact, alone |-> others = {}]
<1>1. thread' = [s \in Threads |->
                    IF s = t THEN taken
                    ELSE IF s \in others THEN [thread[s] EXCEPT !.alone = FALSE] ELSE thread[s]]
  BY DEF TakeNumber
<1>2. lane \in Lanes /\ thread[t].fact \in Fact(E) BY RowAt DEF TakeNumber, Is
<1>3. (others = {}) \in BOOLEAN OBVIOUS
<1>4. taken \in ThreadRow(E) BY <1>2, <1>3 DEF ThreadRow
<1>5. \A s \in others : s \in Threads \ {t} /\ thread[s].at = "send" /\ thread[s] \in ThreadRow(E)
  BY DEF Overlaps, Is
<1>6. taken.at = "send" /\ taken.lane = lane /\ taken.fact = thread[t].fact /\ taken.alone = (others = {})
  OBVIOUS
<1> HIDE DEF others, taken
<1>7. /\ thread'[t] = taken
      /\ \A s \in others : thread'[s] = [thread[s] EXCEPT !.alone = FALSE]
      /\ \A s \in Threads \ {t} : s \notin others => thread'[s] = thread[s]
  BY <1>1, <1>5
<1>8. \A s \in others :
          /\ thread'[s] \in ThreadRow(E) /\ thread'[s].at = "send" /\ thread'[s].lane = thread[s].lane
          /\ thread'[s].fact = thread[s].fact /\ thread'[s].alone = FALSE
  <2> SUFFICES ASSUME NEW s \in others
               PROVE  /\ thread'[s] \in ThreadRow(E) /\ thread'[s].at = "send"
                      /\ thread'[s].lane = thread[s].lane
                      /\ thread'[s].fact = thread[s].fact /\ thread'[s].alone = FALSE
      OBVIOUS
  <2>1. thread[s] \in ThreadRow(E) /\ thread[s].at = "send" BY <1>5
  <2>2. thread'[s] = [thread[s] EXCEPT !.alone = FALSE] BY <1>7
  <2>3. LET left == [thread[s] EXCEPT !.alone = FALSE]
        IN  /\ left \in ThreadRow(E) /\ left.at = "send" /\ left.lane = thread[s].lane
            /\ left.fact = thread[s].fact /\ left.alone = FALSE
    BY <2>1, SendRow
  <2>4. QED BY <2>2, <2>3
<1>9. \A s \in Threads : thread'[s] \in ThreadRow(E)
  BY <1>4, <1>7, <1>8
<1>10. thread' \in [Threads -> ThreadRow(E)]
  <2>1. thread' = [s \in Threads |-> thread'[s]] BY <1>1
  <2>2. QED BY <1>9, <2>1
<1>11. QED BY <1>5, <1>6, <1>7, <1>8, <1>10 DEF others

(* Steps that leave the threads that owe as they are.                      *)
LEMMA PaidOther ==
    ASSUME EpochsPaid, \A s \in Threads : thread'[s].at \in Owing <=> thread[s].at \in Owing,
           verbs' \in {verbs, verbs + 1}, verbs' <= MaxVerbs, hub' \in ChunkRow(0..Spare),
           held' \in [Drivers -> Held(0..Spare) \cup {None}],
           thread' \in [Threads -> ThreadRow(0..Spare)]
    PROVE  EpochsPaid'
<1>1. Owed' = Owed BY DEF Owed
<1>2. Spare \in Nat /\ Cardinality(Owed) \in Nat /\ verbs \in Nat /\ MaxVerbs \in Nat
  BY SpareType, DriveAssumption
<1>3. Spare' \in {Spare, Spare + 1} BY <1>1, <1>2 DEF Spare
<1>4. 0..Spare \subseteq 0..Spare' BY <1>2, <1>3
<1>5. /\ Held(0..Spare) \subseteq Held(0..Spare') /\ ChunkRow(0..Spare) \subseteq ChunkRow(0..Spare')
      /\ ThreadRow(0..Spare) \subseteq ThreadRow(0..Spare')
  BY <1>4, Wider
<1>6. /\ held' \in [Drivers -> Held(0..Spare') \cup {None}] /\ hub' \in ChunkRow(0..Spare')
      /\ thread' \in [Threads -> ThreadRow(0..Spare')]
  BY <1>5
<1>7. TypedUpTo(0..Spare)' BY <1>6 DEF TypedUpTo
<1>8. QED BY <1>1, <1>2, <1>7 DEF EpochsPaid

LEMMA OtherSteps ==
    ASSUME EpochsPaid,
           \/ \E t \in Threads : decide(t) \/ TakeNumber(t)
           \/ LeverRoutes \/ AnswerQuestions \/ \E d \in Drivers : reset(d)
    PROVE  EpochsPaid'
<1>1. Spare \in Nat /\ verbs \in Nat /\ verbs <= MaxVerbs /\ MaxVerbs \in Nat
  BY SpareType, DriveAssumption DEF EpochsPaid
<1>2. /\ hub \in ChunkRow(0..Spare) /\ held \in [Drivers -> Held(0..Spare) \cup {None}]
      /\ thread \in [Threads -> ThreadRow(0..Spare)]
  BY DEF EpochsPaid, TypedUpTo
<1>3. ASSUME NEW t \in Threads, decide(t) PROVE EpochsPaid'
  <2>1. verbs' = verbs + 1 /\ verbs' <= MaxVerbs /\ UNCHANGED <<hub, held, thread>>
    BY <1>1, <1>3 DEF decide, Drive
  <2>2. QED BY <1>2, <2>1, PaidOther
<1>4. ASSUME NEW t \in Threads, TakeNumber(t) PROVE EpochsPaid'
  <2>1. UNCHANGED <<hub, held, verbs>> /\ thread[t].at = "push" BY <1>4 DEF TakeNumber, Is
  <2>2. thread' \in [Threads -> ThreadRow(0..Spare)] BY <1>2, <1>4, NumberThreads
  <2>3. thread'[t].at = "send" /\ \A s \in Threads \ {t} : thread'[s].at = thread[s].at
    BY <1>2, <1>4, NumberThreads
  <2>4. \A s \in Threads : thread'[s].at \in Owing <=> thread[s].at \in Owing
    BY <2>1, <2>3 DEF Owing
  <2>5. QED BY <1>1, <1>2, <2>1, <2>2, <2>4, PaidOther
<1>5. CASE LeverRoutes
  BY <1>1, <1>2, <1>5, PaidOther DEF LeverRoutes, arm_lever, clear_lever
<1>6. CASE AnswerQuestions
  <2>1. hub' = [hub EXCEPT !.asked = {}] /\ UNCHANGED <<held, thread, verbs>>
    BY <1>6 DEF AnswerQuestions
  <2>2. hub' \in ChunkRow(0..Spare) BY <1>2, <2>1 DEF ChunkRow
  <2>3. QED BY <1>1, <1>2, <2>1, <2>2, PaidOther
<1>7. ASSUME NEW d \in Drivers, reset(d) PROVE EpochsPaid'
  <2>1. UNCHANGED <<hub, thread, verbs>> /\ held' = [held EXCEPT ![d] = None] BY <1>7 DEF reset
  <2>2. held' \in [Drivers -> Held(0..Spare) \cup {None}] BY <1>2, <2>1
  <2>3. QED BY <1>1, <1>2, <2>1, <2>2, PaidOther
<1>8. QED BY <1>3, <1>4, <1>5, <1>6, <1>7

LEMMA PaidInit == Init => EpochsPaid
<1> SUFFICES ASSUME Init PROVE EpochsPaid OBVIOUS
<1>1. \A t \in Threads : thread[t].at = "idle" BY DEF Init, Idle
<1>2. Owed = {} BY <1>1 DEF Owed, Owing
<1>3. verbs = 0 /\ IsFiniteSet(Owed) /\ Cardinality(Owed) = 0 BY <1>2, FS_EmptySet DEF Init
<1>4. Spare = 0 BY <1>3 DEF Spare
<1>5. hub \in ChunkRow(0..0) BY DEF Init, ChunkRow
<1>6. held \in [Drivers -> Held(0..0) \cup {None}] BY DEF Init
<1>7. thread \in [Threads -> ThreadRow(0..0)] BY DEF Init, Idle, ThreadRow
<1>8. QED BY <1>3, <1>4, <1>5, <1>6, <1>7, DriveAssumption DEF EpochsPaid, TypedUpTo

LEMMA PaidNext == EpochsPaid /\ [Next]_vars => EpochsPaid'
<1> SUFFICES ASSUME EpochsPaid, [Next]_vars PROVE EpochsPaid' OBVIOUS
<1>1. CASE UNCHANGED vars
  <2>1. UNCHANGED <<hub, held, thread, verbs>> BY <1>1 DEF vars
  <2>2. Spare \in Nat /\ verbs \in Nat /\ verbs <= MaxVerbs /\ MaxVerbs \in Nat
    BY SpareType, DriveAssumption DEF EpochsPaid
  <2>3. QED BY <2>1, <2>2, PaidOther DEF EpochsPaid, TypedUpTo
<1>2. CASE DriveRoutes
  BY <1>2, ClaimSteps, CompletionSteps, PushSteps, OtherSteps DEF DriveRoutes
<1>3. CASE Link
  BY <1>3, ClaimSteps, CompletionSteps, AnsweredStep, SendSteps, OtherSteps DEF Link
<1>4. CASE LeverRoutes \/ AnswerQuestions \/ \E d \in Drivers : reset(d)
  BY <1>4, OtherSteps
<1>5. QED BY <1>1, <1>2, <1>3, <1>4 DEF Next

(* The lanes, the levers and the counters keep their types.                *)
LaneTypes ==
    /\ mark \in [Drivers -> [Lanes -> Nat]] /\ seq \in [Drivers -> [Lanes -> Nat]]
    /\ armed \in [Drivers -> SUBSET Kinds] /\ resets \in [Drivers -> Nat]
    /\ spoiled \subseteq {"reclaimed", "moved"}

LEMMA LaneNext == EpochsPaid /\ LaneTypes /\ [Next]_vars => LaneTypes'
<1> SUFFICES ASSUME EpochsPaid, LaneTypes, [Next]_vars PROVE LaneTypes' OBVIOUS
<1>1. CASE UNCHANGED <<mark, seq, armed, resets, spoiled>> BY <1>1 DEF LaneTypes
<1>2. ASSUME NEW t \in Threads, ClaimWritten(t) PROVE LaneTypes'
  BY <1>2 DEF ClaimWritten, LaneTypes
<1>3. ASSUME NEW t \in Threads, NEW choice \in Targets, complete(t, choice) PROVE LaneTypes'
  <2>1. armed' \in [Drivers -> SUBSET Kinds] BY <1>3 DEF complete, Pulled, LaneTypes
  <2>2. spoiled' \subseteq {"reclaimed", "moved"} BY <1>3 DEF complete, LaneTypes
  <2>3. QED BY <1>3, <2>1, <2>2 DEF complete, LaneTypes
<1>4. ASSUME NEW t \in Threads, Replayed(t) \/ CompletionAnswered(t) PROVE LaneTypes'
  <2>1. armed' \in [Drivers -> SUBSET Kinds]
    BY <1>4 DEF Replayed, CompletionAnswered, Pulled, LaneTypes
  <2>2. QED BY <1>4, <2>1 DEF Replayed, CompletionAnswered, LaneTypes
<1>5. ASSUME NEW t \in Threads, TakeNumber(t) PROVE LaneTypes'
  <2>1. thread[t].lane \in Lanes /\ DriverOf[t] \in Drivers BY <1>5, HeldAt, RowAt DEF TakeNumber, Is
  <2>2. seq' = [seq EXCEPT ![DriverOf[t]][thread[t].lane] = seq[DriverOf[t]][thread[t].lane] + 1]
    BY <1>5 DEF TakeNumber, Counted
  <2>3. seq' \in [Drivers -> [Lanes -> Nat]]
    <3>1. seq[DriverOf[t]][thread[t].lane] + 1 \in Nat BY <2>1 DEF LaneTypes
    <3>2. QED BY <2>1, <2>2, <3>1 DEF LaneTypes
  <2>4. QED BY <1>5, <2>3 DEF TakeNumber, LaneTypes
<1>6. ASSUME NEW t \in Threads, SendFact(t) PROVE LaneTypes'
  <2>1. thread[t].lane \in Lanes /\ DriverOf[t] \in Drivers BY <1>6, HeldAt, RowAt DEF SendFact, Is
  <2>2. \/ mark' = mark
        \/ mark' = [mark EXCEPT ![DriverOf[t]][thread[t].lane] = seq[DriverOf[t]][thread[t].lane]]
    BY <1>6 DEF SendFact
  <2>3. mark' \in [Drivers -> [Lanes -> Nat]]
    <3>1. seq[DriverOf[t]][thread[t].lane] \in Nat BY <2>1 DEF LaneTypes
    <3>2. CASE mark' = mark BY <3>2 DEF LaneTypes
    <3>3. CASE mark' = [mark EXCEPT ![DriverOf[t]][thread[t].lane] = seq[DriverOf[t]][thread[t].lane]]
      BY <2>1, <3>1, <3>3 DEF LaneTypes
    <3>4. QED BY <2>2, <3>2, <3>3
  <2>4. QED BY <1>6, <2>3 DEF SendFact, LaneTypes
<1>7. ASSUME NEW d \in Drivers, reset(d) PROVE LaneTypes'
  <2>1. [l \in Lanes |-> 0] \in [Lanes -> Nat] OBVIOUS
  <2>2. seq' \in [Drivers -> [Lanes -> Nat]] BY <1>7, <2>1 DEF reset, LaneTypes
  <2>3. resets' \in [Drivers -> Nat] /\ armed' \in [Drivers -> SUBSET Kinds]
    BY <1>7 DEF reset, LaneTypes
  <2>4. QED BY <1>7, <2>2, <2>3 DEF reset, LaneTypes
<1>8. CASE LeverRoutes BY <1>8 DEF LeverRoutes, arm_lever, clear_lever, LaneTypes
<1>9. ASSUME Next, ~UNCHANGED <<mark, seq, armed, resets, spoiled>>
      PROVE  \/ LeverRoutes \/ \E d \in Drivers : reset(d)
             \/ \E t \in Threads : \/ ClaimWritten(t) \/ \E choice \in Targets : complete(t, choice)
                                   \/ Replayed(t) \/ CompletionAnswered(t)
                                   \/ TakeNumber(t) \/ SendFact(t)
  <2>1. ~AnswerQuestions BY <1>9 DEF AnswerQuestions
  <2>2. \A t \in Threads : /\ ~claim(t) /\ ~decide(t) /\ ~escalate(t) /\ ~ask(t)
                           /\ ~report_event(t) /\ ~push_transcript(t)
    BY <1>9 DEF claim, decide, escalate, ask, report_event, push_transcript, Push
  <2>3. \A t \in Threads : ~ClaimAnswered(t) /\ ~CompletionApplied(t) /\ ~CompletionLost(t) /\ ~FactLost(t)
    BY <1>9 DEF ClaimAnswered, CompletionApplied, CompletionLost, FactLost
  <2>4. QED BY <1>9, <2>1, <2>2, <2>3 DEF Next, DriveRoutes, Link
<1>10. QED BY <1>1, <1>2, <1>3, <1>4, <1>5, <1>6, <1>7, <1>8, <1>9 DEF vars

LEMMA LaneInit == Init => LaneTypes
BY DEF Init, LaneTypes

DriveTypes == EpochsPaid /\ LaneTypes

LEMMA DriveTypesHold == Spec => []DriveTypes
<1>1. Init => DriveTypes BY PaidInit, LaneInit DEF DriveTypes
<1>2. DriveTypes /\ [Next]_vars => DriveTypes' BY PaidNext, LaneNext DEF DriveTypes
<1>3. QED BY <1>1, <1>2, PTL DEF Spec

(* The state of the drivers and of the chunk keeps its types, with every   *)
(* epoch within the verbs driven and every lease naming a node.            *)
THEOREM TypeCorrect == Spec => []TypeOK
<1>1. DriveTypes => TypeOK
  <2> SUFFICES ASSUME DriveTypes PROVE TypeOK OBVIOUS
  <2>1. 0..Spare \subseteq Epochs BY SpareType DEF DriveTypes
  <2>2. /\ Held(0..Spare) \subseteq Held(Epochs) /\ ThreadRow(0..Spare) \subseteq ThreadRow(Epochs)
        /\ ChunkRow(0..Spare) \subseteq ChunkRow(Epochs)
    BY <2>1, Wider
  <2>3. TypedUpTo(Epochs) BY <2>2 DEF DriveTypes, EpochsPaid, TypedUpTo
  <2>4. QED BY <2>3 DEF TypeOK, DriveTypes, LaneTypes, EpochsPaid
<1>2. QED BY <1>1, DriveTypesHold, PTL

-----------------------------------------------------------------------------
(* The walk.  Claims are granted before the first one is written, while    *)
(* the chunk is at no node: they are all offered at the entry.             *)
OfferedOnce ==
    /\ hub.node = None <=> ~hub.claimed
    /\ \A t \in Threads : Is(t, "granted") => thread[t].node = Entry

(* What steps other than a claim's write and a completion's leave alone.   *)
LEMMA WalkFrame ==
    ASSUME EpochsPaid, [Next]_vars,
           \A t \in Threads : ~ClaimWritten(t) /\ ~CompletionApplied(t)
    PROVE  /\ hub'.node = hub.node /\ hub'.applied = hub.applied /\ hub'.claimed = hub.claimed
           /\ "reclaimed" \in spoiled' <=> "reclaimed" \in spoiled
<1> DEFINE Kept == /\ hub'.node = hub.node /\ hub'.applied = hub.applied /\ hub'.claimed = hub.claimed
                   /\ "reclaimed" \in spoiled' <=> "reclaimed" \in spoiled
<1>1. CASE UNCHANGED <<hub, spoiled>> BY <1>1
<1>2. ASSUME NEW t \in Threads, NEW choice \in Targets, complete(t, choice) PROVE Kept
  BY <1>2 DEF complete
<1>3. ASSUME NEW t \in Threads, SendFact(t) PROVE Kept
  <2>1. UNCHANGED spoiled /\ thread[t].at = "send" BY <1>3 DEF SendFact, Is
  <2>2. hub' = hub \/ hub' = Ingested(thread[t].fact) BY <1>3 DEF SendFact
  <2>3. thread[t].fact \in Fact(0..Spare) /\ hub \in ChunkRow(0..Spare) BY <2>1, HeldAt, RowAt
  <2>4. QED BY <2>1, <2>2, <2>3, FactType
<1>4. CASE AnswerQuestions
  <2>1. hub \in ChunkRow(0..Spare) BY DEF EpochsPaid, TypedUpTo
  <2>2. QED BY <1>4, <2>1 DEF AnswerQuestions, ChunkRow
<1>5. ASSUME NEW t \in Threads, claim(t) \/ decide(t) \/ escalate(t) \/ ask(t) \/ report_event(t) \/ push_transcript(t)
      PROVE  UNCHANGED <<hub, spoiled>>
  BY <1>5 DEF claim, decide, escalate, ask, report_event, push_transcript, Push
<1>6. ASSUME NEW t \in Threads, \/ ClaimAnswered(t) \/ CompletionLost(t) \/ Replayed(t)
                                \/ CompletionAnswered(t) \/ TakeNumber(t) \/ FactLost(t)
      PROVE  UNCHANGED <<hub, spoiled>>
  BY <1>6 DEF ClaimAnswered, CompletionLost, Replayed, CompletionAnswered, TakeNumber, FactLost
<1>7. CASE LeverRoutes \/ \E d \in Drivers : reset(d)
  BY <1>1, <1>7 DEF LeverRoutes, arm_lever, clear_lever, reset
<1>8. CASE DriveRoutes BY <1>1, <1>2, <1>5, <1>8 DEF DriveRoutes
<1>9. CASE Link BY <1>1, <1>3, <1>6, <1>9 DEF Link
<1>10. QED BY <1>1, <1>4, <1>7, <1>8, <1>9 DEF Next, vars

(* A claim's write, as its caller sees it.                                 *)
LEMMA WrittenHub ==
    ASSUME EpochsPaid, NEW t \in Threads, ClaimWritten(t)
    PROVE  /\ hub'.node \in {thread[t].node, OfferedAt} /\ hub'.claimed
           /\ hub'.applied = hub.applied /\ hub'.fence = hub.fence
           /\ hub.claimed => spoiled' = spoiled \cup {"reclaimed"}
           /\ ~hub.claimed => spoiled' = spoiled
<1>1. hub \in ChunkRow(0..Spare) BY DEF EpochsPaid, TypedUpTo
<1>2. PICK node \in {thread[t].node, OfferedAt} :
          hub' = [hub EXCEPT !.claimed = TRUE, !.node = node, !.done = FALSE]
  BY DEF ClaimWritten
<1>3. hub'.node = node /\ hub'.claimed = TRUE /\ hub'.applied = hub.applied /\ hub'.fence = hub.fence
  BY <1>1, <1>2 DEF ChunkRow
<1>4. spoiled' = spoiled \cup (IF hub.claimed THEN {"reclaimed"} ELSE {}) BY DEF ClaimWritten
<1>5. QED BY <1>3, <1>4

(* A completion that is admitted is of an attempt at a node of the graph.  *)
LEMMA AdmittedAttempt ==
    ASSUME EpochsPaid, NEW t \in Threads, CompletionApplied(t)
    PROVE  /\ UNCHANGED spoiled
           /\ thread[t].choice \in Targets /\ thread[t].epoch \in 0..Spare /\ thread[t].epoch \in Epochs
           /\ ~Admitted(thread[t]) => hub' = hub
           /\ Admitted(thread[t]) =>
                 /\ thread[t].node = hub.node /\ thread[t].node \in Nodes
                 /\ Attempt(thread[t]) \in Attempts /\ Attempt(thread[t]) \notin Spent
                 /\ <<hub.node, thread[t].choice>> \in Edges
                 /\ hub' = AppliedTo(thread[t])
<1>1. thread[t].at = "submitted" /\ UNCHANGED spoiled
      /\ hub' = IF Admitted(thread[t]) THEN AppliedTo(thread[t]) ELSE hub
  BY DEF CompletionApplied, Is
<1>2. thread[t].choice \in Targets /\ thread[t].epoch \in 0..Spare /\ thread[t].epoch \in Epochs
  BY <1>1, HeldAt, RowAt, SpareType
<1>3. ASSUME Admitted(thread[t])
      PROVE  /\ thread[t].node = hub.node /\ thread[t].node \in Nodes
             /\ Attempt(thread[t]) \in Attempts /\ Attempt(thread[t]) \notin Spent
             /\ <<hub.node, thread[t].choice>> \in Edges
  BY <1>2, <1>3, DriveAssumption DEF Admitted, Coherent, Attempt, Attempts
<1>4. QED BY <1>1, <1>2, <1>3

(* The rows that say "granted" after a step said so before, or are of a    *)
(* claim just granted.                                                     *)
LEMMA GrantedFrame ==
    ASSUME EpochsPaid, [Next]_vars, NEW t \in Threads, thread'[t].at = "granted"
    PROVE  thread'[t] = thread[t] \/ (claim(t) /\ thread'[t].node = OfferedAt)
<1>1. DOMAIN thread = Threads BY DEF EpochsPaid, TypedUpTo
<1>2. ASSUME NEW s \in Threads, NEW row, Step(s, row), row.at # "granted" PROVE thread'[t] = thread[t]
  BY <1>1, <1>2 DEF Step
<1>3. CASE UNCHANGED thread BY <1>3
<1>4. ASSUME NEW s \in Threads, claim(s) PROVE thread'[t] = thread[t] \/ (claim(t) /\ thread'[t].node = OfferedAt)
  BY <1>1, <1>4 DEF claim, Step
<1>5. ASSUME NEW s \in Threads, TakeNumber(s) PROVE thread'[t] = thread[t]
  <2>1. thread \in [Threads -> ThreadRow(0..Spare)] BY DEF EpochsPaid, TypedUpTo
  <2>2. t # s /\ t \notin Overlaps(s, thread[s].lane) BY <1>5, <2>1, NumberThreads
  <2>3. QED BY <1>5, <2>1, <2>2, NumberThreads
<1>6. ASSUME NEW s \in Threads, NEW choice, complete(s, choice) PROVE thread'[t] = thread[t]
  BY <1>2, <1>6 DEF complete, Submission, Idle
<1>7. ASSUME NEW s \in Threads, escalate(s) \/ ask(s) \/ report_event(s) \/ push_transcript(s)
      PROVE  thread'[t] = thread[t]
  BY <1>2, <1>7 DEF escalate, ask, report_event, push_transcript, Push
<1>8. ASSUME NEW s \in Threads, ClaimWritten(s) \/ ClaimAnswered(s) PROVE thread'[t] = thread[t]
  BY <1>2, <1>8 DEF ClaimWritten, ClaimAnswered, ReportLease, Idle
<1>9. ASSUME NEW s \in Threads, CompletionApplied(s) \/ CompletionLost(s) \/ Replayed(s) \/ CompletionAnswered(s)
      PROVE  thread'[t] = thread[t]
  BY <1>2, <1>9 DEF CompletionApplied, CompletionLost, Replayed, CompletionAnswered, Answered, ReportLease, Idle
<1>10. ASSUME NEW s \in Threads, SendFact(s) \/ FactLost(s) PROVE thread'[t] = thread[t]
  BY <1>2, <1>10 DEF SendFact, FactLost, Idle
<1>11. CASE DriveRoutes
  BY <1>3, <1>4, <1>6, <1>7, <1>11 DEF DriveRoutes, decide
<1>12. CASE Link BY <1>5, <1>8, <1>9, <1>10, <1>12 DEF Link
<1>13. CASE LeverRoutes \/ AnswerQuestions \/ (\E d \in Drivers : reset(d)) \/ UNCHANGED vars
  BY <1>3, <1>13 DEF LeverRoutes, arm_lever, clear_lever, AnswerQuestions, reset, vars
<1>14. QED BY <1>11, <1>12, <1>13 DEF Next

LEMMA OfferedNext == EpochsPaid /\ OfferedOnce /\ [Next]_vars => OfferedOnce'
<1> SUFFICES ASSUME EpochsPaid, OfferedOnce, [Next]_vars PROVE OfferedOnce' OBVIOUS
<1>1. hub \in ChunkRow(0..Spare) BY DEF EpochsPaid, TypedUpTo
<1>2. \A t \in Threads : Is(t, "granted")' => thread'[t].node = Entry
  <2> SUFFICES ASSUME NEW t \in Threads, thread'[t].at = "granted" PROVE thread'[t].node = Entry
      BY DEF Is
  <2>1. CASE thread'[t] = thread[t] BY <2>1 DEF OfferedOnce, Is
  <2>2. CASE claim(t) /\ thread'[t].node = OfferedAt
    BY <2>2 DEF claim, ClaimGranted, OfferedOnce, OfferedAt
  <2>3. QED BY <2>1, <2>2, GrantedFrame
<1>3. hub'.node = None <=> ~hub'.claimed
  <2>1. ASSUME NEW t \in Threads, ClaimWritten(t) PROVE hub'.node # None /\ hub'.claimed
    <3>1. thread[t].node = Entry BY <2>1 DEF ClaimWritten, OfferedOnce
    <3>2. OfferedAt # None BY DriveAssumption DEF OfferedAt
    <3>3. QED BY <2>1, <3>1, <3>2, WrittenHub, DriveAssumption
  <2>2. ASSUME NEW t \in Threads, CompletionApplied(t) PROVE hub'.node = None <=> ~hub'.claimed
    <3>1. CASE ~Admitted(thread[t]) BY <2>2, <3>1, AdmittedAttempt DEF OfferedOnce
    <3>2. CASE Admitted(thread[t])
      <4>1. /\ hub'.node = thread[t].choice /\ hub'.claimed = hub.claimed
            /\ hub.node \in Nodes /\ thread[t].choice \in Targets
        <5>1. hub' = AppliedTo(thread[t]) /\ hub.node \in Nodes /\ thread[t].choice \in Targets
          BY <2>2, <3>2, AdmittedAttempt
        <5>2. QED BY <1>1, <5>1, AppliedType
      <4>2. None \notin Nodes /\ None \notin Targets BY DriveAssumption DEF Targets, TERMINAL
      <4>3. QED BY <4>1, <4>2 DEF OfferedOnce
    <3>3. QED BY <3>1, <3>2
  <2>3. QED BY <2>1, <2>2, WalkFrame DEF OfferedOnce
<1>4. QED BY <1>2, <1>3 DEF OfferedOnce

LEMMA OfferedHold == Spec => []OfferedOnce
<1>1. Init => OfferedOnce BY DEF Init, OfferedOnce, Is, Idle
<1>2. EpochsPaid /\ OfferedOnce /\ [Next]_vars => OfferedOnce' BY OfferedNext
<1>3. Spec => []EpochsPaid BY PaidInit, PaidNext, PTL DEF Spec
<1>4. QED BY <1>1, <1>2, <1>3, PTL DEF Spec

(* The chunk is taken over the edges of its graph, by one attempt each:    *)
(* the drivers and the hub implement Walk, whatever calls are lost or      *)
(* replayed, however verbs overlap, for every graph and every number of    *)
(* drivers and threads.                                                    *)
THEOREM WalksOnceHolds == Spec => WalksOnce
<1>1. Init => Promise!Init BY DEF Init, Promise!Init, Spent
<1>2. EpochsPaid /\ OfferedOnce /\ [Next]_vars
          => [Promise!Next]_<<hub.node, Spent, "reclaimed" \in spoiled>>
  <2> SUFFICES ASSUME EpochsPaid, OfferedOnce, [Next]_vars
               PROVE  \/ Promise!Next
                      \/ /\ hub'.node = hub.node /\ Spent' = Spent
                         /\ ("reclaimed" \in spoiled') = ("reclaimed" \in spoiled)
      OBVIOUS
  <2>1. hub \in ChunkRow(0..Spare) BY DEF EpochsPaid, TypedUpTo
  <2>2. hub'.applied = hub.applied => Spent' = Spent BY DEF Spent
  <2>3. ASSUME NEW t \in Threads, ClaimWritten(t) PROVE Promise!Next
    <3>1. thread[t].node = Entry /\ Spent' = Spent BY <2>2, <2>3, WrittenHub DEF ClaimWritten, OfferedOnce
    <3>2. CASE hub.claimed
      <4>1. hub'.node \in {hub.node, Entry} /\ hub.node # None BY <2>3, <3>1, <3>2, WrittenHub DEF OfferedAt, OfferedOnce
      <4>2. "reclaimed" \in spoiled' BY <2>3, <3>2, WrittenHub
      <4>3. Promise!Reenter BY <3>1, <4>1, <4>2 DEF Promise!Reenter
      <4>4. QED BY <4>3 DEF Promise!Next
    <3>3. CASE ~hub.claimed
      <4>1. hub'.node = Entry /\ hub.node = None BY <2>3, <3>1, <3>3, WrittenHub DEF OfferedAt, OfferedOnce
      <4>2. spoiled' = spoiled BY <2>3, <3>3, WrittenHub
      <4>3. Promise!Enter BY <3>1, <4>1, <4>2 DEF Promise!Enter
      <4>4. QED BY <4>3 DEF Promise!Next
    <3>4. QED BY <3>2, <3>3
  <2>4. ASSUME NEW t \in Threads, CompletionApplied(t), Admitted(thread[t]) PROVE Promise!Next
    <3> DEFINE sub == thread[t]
    <3>1. /\ sub.node = hub.node /\ sub.node \in Nodes /\ Attempt(sub) \in Attempts /\ Attempt(sub) \notin Spent
          /\ <<hub.node, sub.choice>> \in Edges /\ hub' = AppliedTo(sub) /\ UNCHANGED spoiled
          /\ sub.choice \in Targets /\ sub.epoch \in Epochs
      BY <2>4, AdmittedAttempt
    <3>2. hub'.node = sub.choice
          /\ \A a \in Attempts : hub'.applied[a] =
                IF a = Attempt(sub) THEN IF sub.choice = TERMINAL THEN "done" ELSE "next"
                ELSE hub.applied[a]
      BY <2>1, <3>1, AppliedType
    <3>3. Spent' = Spent \cup {Attempt(sub)}
      <4>1. None \notin {"next", "done"} BY DriveAssumption
      <4>2. QED BY <3>1, <3>2, <4>1 DEF Spent
    <3>4. Attempt(sub) = <<hub.node, sub.epoch>> BY <3>1 DEF Attempt
    <3>5. Promise!Take(hub.node, sub.epoch) BY <3>1, <3>2, <3>3, <3>4 DEF Promise!Take
    <3>6. QED BY <3>1, <3>5 DEF Promise!Next
  <2>5. CASE \E t \in Threads : CompletionApplied(t) /\ ~Admitted(thread[t])
    BY <2>2, <2>5, AdmittedAttempt
  <2>6. CASE \A t \in Threads : ~ClaimWritten(t) /\ ~CompletionApplied(t)
    BY <2>2, <2>6, WalkFrame
  <2>7. QED BY <2>3, <2>4, <2>5, <2>6
<1>3. Spec => []EpochsPaid BY PaidInit, PaidNext, PTL DEF Spec
<1>4. QED BY <1>1, <1>2, <1>3, OfferedHold, PTL DEF Spec, WalksOnce, Promise!Spec

-----------------------------------------------------------------------------
(* The lanes.  A driver's counter is at or over the hub's mark until its   *)
(* first reset, over it while a push that took its number alone is on its  *)
(* way; and such a push stays alone in its lane.                           *)
LoneAhead(t) ==
    /\ Overlaps(t, thread[t].lane) = {}
    /\ resets[DriverOf[t]] = 0 =>
           seq[DriverOf[t]][thread[t].lane] > mark[DriverOf[t]][thread[t].lane]
LanesAhead ==
    /\ \A d \in Drivers, l \in Lanes : resets[d] = 0 => mark[d][l] <= seq[d][l]
    /\ \A t \in Threads : Is(t, "send") /\ thread[t].alone => LoneAhead(t)

(* Only a number taken puts a push on its way.                             *)
LEMMA SendFrame ==
    ASSUME EpochsPaid, [Next]_vars, \A s \in Threads : ~TakeNumber(s)
    PROVE  \A t \in Threads : thread'[t].at = "send" => thread'[t] = thread[t]
<1> SUFFICES ASSUME NEW t \in Threads, thread'[t].at = "send" PROVE thread'[t] = thread[t] OBVIOUS
<1>1. DOMAIN thread = Threads BY DEF EpochsPaid, TypedUpTo
<1>2. ASSUME NEW s \in Threads, NEW row, Step(s, row), row.at # "send" PROVE thread'[t] = thread[t]
  BY <1>1, <1>2 DEF Step
<1>3. CASE UNCHANGED thread BY <1>3
<1>4. ASSUME NEW s \in Threads, claim(s) PROVE thread'[t] = thread[t]
  BY <1>2, <1>4 DEF claim
<1>5. ASSUME NEW s \in Threads, NEW choice, complete(s, choice) PROVE thread'[t] = thread[t]
  BY <1>2, <1>5 DEF complete, Submission, Idle
<1>6. ASSUME NEW s \in Threads, escalate(s) \/ ask(s) \/ report_event(s) \/ push_transcript(s)
      PROVE  thread'[t] = thread[t]
  BY <1>2, <1>6 DEF escalate, ask, report_event, push_transcript, Push
<1>7. ASSUME NEW s \in Threads, ClaimWritten(s) \/ ClaimAnswered(s) PROVE thread'[t] = thread[t]
  BY <1>2, <1>7 DEF ClaimWritten, ClaimAnswered, ReportLease, Idle
<1>8. ASSUME NEW s \in Threads, CompletionApplied(s) \/ CompletionLost(s) \/ Replayed(s) \/ CompletionAnswered(s)
      PROVE  thread'[t] = thread[t]
  BY <1>2, <1>8 DEF CompletionApplied, CompletionLost, Replayed, CompletionAnswered, Answered, ReportLease, Idle
<1>9. ASSUME NEW s \in Threads, SendFact(s) \/ FactLost(s) PROVE thread'[t] = thread[t]
  BY <1>2, <1>9 DEF SendFact, FactLost, Idle
<1>10. CASE DriveRoutes BY <1>3, <1>4, <1>5, <1>6, <1>10 DEF DriveRoutes, decide
<1>11. CASE Link BY <1>7, <1>8, <1>9, <1>11 DEF Link
<1>12. CASE LeverRoutes \/ AnswerQuestions \/ (\E d \in Drivers : reset(d)) \/ UNCHANGED vars
  BY <1>3, <1>12 DEF LeverRoutes, arm_lever, clear_lever, AnswerQuestions, reset, vars
<1>13. QED BY <1>10, <1>11, <1>12 DEF Next

(* Steps that touch neither counter nor mark nor reset.                    *)
LEMMA CounterFrame ==
    ASSUME [Next]_vars, \A t \in Threads : ~TakeNumber(t) /\ ~SendFact(t),
           \A d \in Drivers : ~reset(d)
    PROVE  UNCHANGED <<seq, mark, resets>>
<1>1. ASSUME NEW t \in Threads, \/ claim(t) \/ decide(t) \/ escalate(t) \/ ask(t) \/ report_event(t)
                                \/ push_transcript(t) \/ \E choice \in Targets : complete(t, choice)
      PROVE  UNCHANGED <<seq, mark, resets>>
  BY <1>1 DEF claim, decide, escalate, ask, report_event, push_transcript, complete, Push
<1>2. ASSUME NEW t \in Threads,
             \/ ClaimWritten(t) \/ ClaimAnswered(t) \/ CompletionApplied(t) \/ CompletionLost(t)
             \/ Replayed(t) \/ CompletionAnswered(t) \/ FactLost(t)
      PROVE  UNCHANGED <<seq, mark, resets>>
  BY <1>2 DEF ClaimWritten, ClaimAnswered, CompletionApplied, CompletionLost, Replayed,
              CompletionAnswered, FactLost
<1>3. CASE LeverRoutes \/ AnswerQuestions \/ UNCHANGED vars
  BY <1>3 DEF LeverRoutes, arm_lever, clear_lever, AnswerQuestions, vars
<1>4. QED BY <1>1, <1>2, <1>3 DEF Next, DriveRoutes, Link

LEMMA LanesNext == DriveTypes /\ LanesAhead /\ [Next]_vars => LanesAhead'
<1> SUFFICES ASSUME DriveTypes, LanesAhead, [Next]_vars PROVE LanesAhead' OBVIOUS
<1> USE DriveAssumption
<1>1. /\ thread \in [Threads -> ThreadRow(0..Spare)] /\ EpochsPaid
      /\ seq \in [Drivers -> [Lanes -> Nat]] /\ mark \in [Drivers -> [Lanes -> Nat]]
      /\ resets \in [Drivers -> Nat]
  BY DEF DriveTypes, EpochsPaid, LaneTypes, TypedUpTo
<1>2. ASSUME \A s \in Threads : ~TakeNumber(s), NEW t \in Threads, thread'[t].at = "send", thread'[t].alone,
             Overlaps(t, thread[t].lane) = {}
      PROVE  Overlaps(t, thread[t].lane)' = {}
  <2>1. \A s \in Threads : thread'[s].at = "send" => thread'[s] = thread[s] BY <1>1, <1>2, SendFrame
  <2>2. QED BY <1>2, <2>1 DEF Overlaps, Is
<1>3. ASSUME NEW t \in Threads, TakeNumber(t) PROVE LanesAhead'
  <2> DEFINE d == DriverOf[t]
             lane == thread[t].lane
             others == Overlaps(t, lane)
  <2>1. d \in Drivers /\ lane \in Lanes /\ thread[t].at = "push" /\ UNCHANGED <<mark, resets>>
    BY <1>1, <1>3, HeldAt, RowAt DEF TakeNumber, Is
  <2>2. /\ seq'[d][lane] = seq[d][lane] + 1
        /\ \A e \in Drivers, l \in Lanes : e # d \/ l # lane => seq'[e][l] = seq[e][l]
    BY <1>1, <1>3, <2>1 DEF TakeNumber, Counted
  <2>3. /\ thread'[t].at = "send" /\ thread'[t].lane = lane /\ thread'[t].alone = (others = {})
        /\ \A s \in Threads \ {t} : s \notin others => thread'[s] = thread[s]
        /\ \A s \in others : /\ thread[s].at = "send" /\ thread'[s].at = "send"
                             /\ thread'[s].lane = thread[s].lane /\ thread'[s].alone = FALSE
    BY <1>1, <1>3, NumberThreads
  <2>4. \A e \in Drivers, l \in Lanes : resets'[e] = 0 => mark'[e][l] <= seq'[e][l]
    <3> SUFFICES ASSUME NEW e \in Drivers, NEW l \in Lanes, resets[e] = 0 PROVE mark[e][l] <= seq'[e][l]
        BY <2>1
    <3>1. mark[e][l] \in Nat /\ seq[e][l] \in Nat /\ mark[e][l] <= seq[e][l] BY <1>1 DEF LanesAhead
    <3>2. QED BY <2>2, <3>1
  <2>5. ASSUME others = {} PROVE LoneAhead(t)'
    <3>1. Overlaps(t, lane)' = {} BY <2>3, <2>5 DEF Overlaps, Is
    <3>2. resets[d] = 0 => seq'[d][lane] > mark[d][lane]
      <4>1. mark[d][lane] \in Nat /\ seq[d][lane] \in Nat BY <1>1, <2>1
      <4>2. resets[d] = 0 => mark[d][lane] <= seq[d][lane] BY <2>1 DEF LanesAhead
      <4>3. QED BY <2>2, <4>1, <4>2
    <3>3. QED BY <2>1, <2>3, <3>1, <3>2 DEF LoneAhead
  <2>6. ASSUME NEW u \in Threads \ {t}, thread'[u].at = "send", thread'[u].alone PROVE LoneAhead(u)'
    <3>1. u \notin others /\ thread'[u] = thread[u] BY <2>3, <2>6
    <3>2. thread[u].at = "send" /\ thread[u].alone /\ LoneAhead(u) BY <2>6, <3>1 DEF LanesAhead, Is
    <3>3. DriverOf[u] # d \/ thread[u].lane # lane BY <3>1, <3>2 DEF Overlaps, Is
    <3>4. Overlaps(u, thread[u].lane) = {} BY <3>2 DEF LoneAhead
    <3>5. Overlaps(u, thread[u].lane)' = {} BY <2>3, <3>1, <3>3, <3>4 DEF Overlaps, Is
    <3>6. DriverOf[u] \in Drivers /\ thread[u].lane \in Lanes BY <1>1, <3>2, HeldAt, RowAt
    <3>7. seq'[DriverOf[u]][thread[u].lane] = seq[DriverOf[u]][thread[u].lane] BY <2>2, <3>3, <3>6
    <3>8. QED BY <2>1, <3>1, <3>2, <3>5, <3>7 DEF LoneAhead
  <2>7. QED BY <2>3, <2>4, <2>5, <2>6 DEF LanesAhead, Is
<1>4. ASSUME NEW t \in Threads, SendFact(t) PROVE LanesAhead'
  <2> DEFINE d == DriverOf[t]
             lane == thread[t].lane
  <2>1. d \in Drivers /\ lane \in Lanes /\ thread[t].at = "send" /\ UNCHANGED <<seq, resets>>
    BY <1>1, <1>4, HeldAt, RowAt DEF SendFact, Is
  <2>2. /\ mark'[d][lane] \in {mark[d][lane], seq[d][lane]}
        /\ \A e \in Drivers, l \in Lanes : e # d \/ l # lane => mark'[e][l] = mark[e][l]
    <3>1. CASE UNCHANGED mark BY <3>1
    <3>2. CASE mark' = [mark EXCEPT ![d][lane] = seq[d][lane]] BY <1>1, <2>1, <3>2
    <3>3. QED BY <1>4, <3>1, <3>2 DEF SendFact
  <2>3. thread'[t].at = "idle" /\ \A s \in Threads : ~TakeNumber(s)
    <3>1. thread'[t].at = "idle" BY <1>1, <1>4 DEF SendFact, Step, Idle
    <3>2. ASSUME NEW s \in Threads, TakeNumber(s) PROVE FALSE
      <4>1. DriverOf[s] \in Drivers /\ thread[s].at = "push" BY <1>1, <3>2, HeldAt DEF TakeNumber, Is
      <4>2. thread[s].lane \in Lanes BY <1>1, <4>1, HeldAt, RowAt
      <4>3. seq[DriverOf[s]][thread[s].lane] \in Nat BY <1>1, <4>1, <4>2
      <4>4. seq'[DriverOf[s]][thread[s].lane] = seq[DriverOf[s]][thread[s].lane] + 1
        BY <1>1, <3>2, <4>1, <4>2 DEF TakeNumber, Counted
      <4>5. QED BY <2>1, <4>3, <4>4
    <3>3. QED BY <3>1, <3>2
  <2>4. \A s \in Threads : thread'[s].at = "send" => thread'[s] = thread[s] BY <1>1, <2>3, SendFrame
  <2>5. \A e \in Drivers, l \in Lanes : resets'[e] = 0 => mark'[e][l] <= seq'[e][l]
    <3> SUFFICES ASSUME NEW e \in Drivers, NEW l \in Lanes, resets[e] = 0 PROVE mark'[e][l] <= seq[e][l]
        BY <2>1
    <3>1. mark[e][l] \in Nat /\ seq[e][l] \in Nat /\ mark[e][l] <= seq[e][l] BY <1>1 DEF LanesAhead
    <3>2. QED BY <2>2, <3>1
  <2>6. ASSUME NEW u \in Threads, thread'[u].at = "send", thread'[u].alone PROVE LoneAhead(u)'
    <3>1. u # t /\ thread'[u] = thread[u] BY <2>3, <2>4, <2>6
    <3>2. thread[u].at = "send" /\ thread[u].alone /\ LoneAhead(u) BY <2>6, <3>1 DEF LanesAhead, Is
    <3>3. Overlaps(u, thread[u].lane) = {} BY <3>2 DEF LoneAhead
    <3>4. DriverOf[u] # d \/ thread[u].lane # lane BY <2>1, <3>1, <3>3 DEF Overlaps, Is
    <3>5. Overlaps(u, thread[u].lane)' = {} BY <1>2, <2>3, <2>6, <3>3
    <3>6. DriverOf[u] \in Drivers /\ thread[u].lane \in Lanes BY <1>1, <3>2, HeldAt, RowAt
    <3>7. mark'[DriverOf[u]][thread[u].lane] = mark[DriverOf[u]][thread[u].lane] BY <2>2, <3>4, <3>6
    <3>8. QED BY <2>1, <3>1, <3>2, <3>5, <3>7 DEF LoneAhead
  <2>7. QED BY <2>5, <2>6 DEF LanesAhead, Is
<1>5. ASSUME NEW d \in Drivers, reset(d) PROVE LanesAhead'
  <2>1. resets'[d] # 0 /\ UNCHANGED <<mark, thread>>
        /\ \A e \in Drivers \ {d} : resets'[e] = resets[e] /\ seq'[e] = seq[e]
    BY <1>1, <1>5 DEF reset
  <2>2. \A t \in Threads : thread[t].at = "send" => DriverOf[t] \in Drivers BY <1>1, HeldAt
  <2>3. QED BY <2>1, <2>2 DEF LanesAhead, LoneAhead, Overlaps, Is
<1>6. CASE (\A t \in Threads : ~TakeNumber(t) /\ ~SendFact(t)) /\ (\A d \in Drivers : ~reset(d))
  <2>1. UNCHANGED <<seq, mark, resets>> BY <1>6, CounterFrame
  <2>2. \A s \in Threads : thread'[s].at = "send" => thread'[s] = thread[s] BY <1>1, <1>6, SendFrame
  <2>3. ASSUME NEW u \in Threads, thread'[u].at = "send", thread'[u].alone PROVE LoneAhead(u)'
    <3>1. thread'[u] = thread[u] BY <2>2, <2>3
    <3>2. thread[u].at = "send" /\ thread[u].alone /\ LoneAhead(u) BY <2>3, <3>1 DEF LanesAhead, Is
    <3>3. Overlaps(u, thread[u].lane)' = {} BY <1>2, <1>6, <2>3, <3>2 DEF LoneAhead
    <3>4. QED BY <2>1, <3>1, <3>2, <3>3 DEF LoneAhead
  <2>4. QED BY <2>1, <2>3 DEF LanesAhead, Is
<1>7. QED BY <1>3, <1>4, <1>5, <1>6

(* A push that no other push of its driver overlaps is never taken for one *)
(* already applied: facts are swallowed only in a race for the counter, or *)
(* once the driver was reset (_push_fact, FactIntake's high-water mark).   *)
THEOREM LonePushFresh == Spec => []LonePushIsFresh
<1>1. Init => LanesAhead
  BY DriveAssumption DEF Init, LanesAhead, Idle, Is
<1>2. LanesAhead => LonePushIsFresh BY DEF LanesAhead, LoneAhead, LonePushIsFresh
<1>3. QED BY <1>1, <1>2, LanesNext, DriveTypesHold, PTL DEF Spec

-----------------------------------------------------------------------------
(* The tenure.  As long as nothing has spoiled it, one call at most has    *)
(* the lease in hand, from the answer of the claim to the lease reported:  *)
(* what it carries is what the hub's row says, and every lease held is     *)
(* the one it carries or a good one.                                       *)
Good(lease) ==
    \/ <<lease.node, lease.epoch>> \in Spent
    \/ lease.node = hub.node /\ lease.epoch >= hub.fence

Completing(t) == thread[t].at \in {"submitted", "answered"}
Reporting(t) == thread[t].at \in {"push", "send"} /\ thread[t].fact.kind = "lease"
Carrying(t) == Is(t, "claimed") \/ Completing(t) \/ Reporting(t)

(* The answer that will count, of a completion that has one.               *)
Counting(row) == IF row.first = None /\ row.at = "answered" THEN row.reply ELSE row.first

(* An answer that moves the lease on tells the row of now, and stays true: *)
(* the attempt is spent.                                                   *)
Current(row) ==
    (row.at = "answered" \/ row.first # None) /\ Counting(row).out = "next" =>
        /\ Counting(row).node = hub.node /\ Counting(row).epoch = hub.fence
        /\ Attempt(row) \in Spent

Sent(t, lease) == thread[t].epoch = lease.epoch /\ thread[t].node \in {lease.node, Elsewhere}

NoneBefore == ~hub.claimed => /\ \A t \in Threads : ~Carrying(t)
                              /\ \A d \in Drivers : held[d] = None
OneCarrier == \A s, t \in Threads : Carrying(s) /\ Carrying(t) => s = t
OneHolder == \A d, e \in Drivers : held[d] # None /\ held[e] # None => d = e
ClaimTells ==
    \A t \in Threads : Is(t, "claimed") =>
        /\ thread[t].node = hub.node /\ thread[t].epoch = hub.fence
        /\ \A d \in Drivers : held[d] = None
CompletionTells ==
    \A t \in Threads : Completing(t) =>
        /\ Current(thread[t])
        /\ \A d \in Drivers : held[d] # None => d = DriverOf[t] /\ Sent(t, held[d])
ReportBehind ==
    \A t \in Threads, d \in Drivers : Reporting(t) /\ held[d] # None => thread[t].fact.epoch <= held[d].epoch
HeldGood == \A d \in Drivers : held[d] # None => Good(held[d])

Tenure ==
    /\ NoneBefore /\ OneCarrier /\ OneHolder
    /\ ClaimTells /\ CompletionTells /\ ReportBehind /\ HeldGood

(* A step that leaves the row alone and starts no carrier, or only takes   *)
(* a report on its way, keeps the tenure.                                  *)
SameCarrier(t) ==
    \/ thread'[t] = thread[t]
    \/ Reporting(t) /\ Reporting(t)' /\ thread'[t].fact = thread[t].fact

LEMMA TenureFewer ==
    ASSUME Tenure,
           hub'.claimed = hub.claimed, hub'.node = hub.node, hub'.fence = hub.fence, Spent' = Spent,
           \A d \in Drivers : held'[d] \in {held[d], None},
           \A t \in Threads : Carrying(t)' => SameCarrier(t)
    PROVE  Tenure'
<1>1. \A t \in Threads : /\ Carrying(t)' => Carrying(t)
                         /\ Is(t, "claimed")' => Is(t, "claimed") /\ thread'[t] = thread[t]
                         /\ Completing(t)' => Completing(t) /\ thread'[t] = thread[t]
                         /\ Reporting(t)' => Reporting(t) /\ thread'[t].fact = thread[t].fact
  BY DEF Carrying, SameCarrier, Is, Completing, Reporting
<1>2. NoneBefore' BY <1>1 DEF Tenure, NoneBefore
<1>3. OneCarrier' BY <1>1 DEF Tenure, OneCarrier
<1>4. OneHolder' BY DEF Tenure, OneHolder
<1>5. ClaimTells' BY <1>1 DEF Tenure, ClaimTells
<1>6. CompletionTells'
  <2> SUFFICES ASSUME NEW t \in Threads, Completing(t)'
               PROVE  /\ Current(thread[t])'
                      /\ \A d \in Drivers : held'[d] # None => d = DriverOf[t] /\ Sent(t, held[d])'
      BY DEF CompletionTells
  <2>1. Completing(t) /\ thread'[t] = thread[t] BY <1>1
  <2>2. Current(thread[t])' BY <2>1 DEF Tenure, CompletionTells, Current
  <2>3. QED BY <2>1, <2>2 DEF Tenure, CompletionTells, Sent
<1>7. ReportBehind' BY <1>1 DEF Tenure, ReportBehind
<1>8. HeldGood' BY DEF Tenure, HeldGood, Good
<1>9. QED BY <1>2, <1>3, <1>4, <1>5, <1>6, <1>7, <1>8 DEF Tenure

(* A call that steps while it has the lease in hand, or while no call has. *)
LEMMA StepCarrier ==
    ASSUME EpochsPaid, OneCarrier, NEW t \in Threads, NEW row, Step(t, row),
           Carrying(t) \/ \A s \in Threads : ~Carrying(s)
    PROVE  /\ thread'[t] = row
           /\ \A s \in Threads \ {t} : thread'[s] = thread[s] /\ ~Carrying(s) /\ ~Carrying(s)'
<1>1. thread'[t] = row /\ \A s \in Threads \ {t} : thread'[s] = thread[s]
  BY DEF Step, EpochsPaid, TypedUpTo
<1>2. \A s \in Threads \ {t} : ~Carrying(s) BY DEF OneCarrier
<1>3. \A s \in Threads \ {t} : ~Carrying(s)'
  BY <1>1, <1>2 DEF Carrying, Is, Completing, Reporting
<1>4. QED BY <1>1, <1>2, <1>3

(* A step of a call that carries nothing afterwards.                       *)
LEMMA StepFree ==
    ASSUME EpochsPaid, NEW t \in Threads, NEW row, Step(t, row),
           row.at \notin {"claimed", "submitted", "answered"},
           row.at \in {"push", "send"} => row.fact.kind # "lease"
    PROVE  \A s \in Threads : Carrying(s)' => SameCarrier(s)
<1>1. thread'[t] = row /\ \A s \in Threads \ {t} : thread'[s] = thread[s]
  BY DEF Step, EpochsPaid, TypedUpTo
<1>2. ~Carrying(t)' BY <1>1 DEF Carrying, Is, Completing, Reporting
<1>3. QED BY <1>1, <1>2 DEF SameCarrier

LEMMA QuietVerbs ==
    ASSUME EpochsPaid, Tenure, NEW t \in Threads,
           \/ claim(t) \/ decide(t) \/ escalate(t) \/ ask(t) \/ report_event(t) \/ push_transcript(t)
           \/ FactLost(t)
    PROVE  Tenure'
<1>1. UNCHANGED <<hub, held>>
  BY DEF claim, decide, escalate, ask, report_event, push_transcript, FactLost, Push
<1>2. \A s \in Threads : Carrying(s)' => SameCarrier(s)
  <2>1. CASE decide(t) BY <2>1 DEF decide, SameCarrier
  <2>2. CASE claim(t) BY <2>2, StepFree DEF claim
  <2>3. CASE escalate(t) \/ ask(t) \/ report_event(t) \/ push_transcript(t)
    BY <2>3, StepFree DEF escalate, ask, report_event, push_transcript, Push
  <2>4. CASE FactLost(t) BY <2>4, StepFree DEF FactLost, Idle
  <2>5. QED BY <2>1, <2>2, <2>3, <2>4
<1>3. Spent' = Spent BY <1>1 DEF Spent
<1>4. QED BY <1>1, <1>2, <1>3, TenureFewer

LEMMA QuietRest ==
    ASSUME EpochsPaid, Tenure,
           LeverRoutes \/ AnswerQuestions \/ (\E d \in Drivers : reset(d)) \/ UNCHANGED vars
    PROVE  Tenure'
<1>1. UNCHANGED thread BY DEF LeverRoutes, arm_lever, clear_lever, AnswerQuestions, reset, vars
<1>2. \A d \in Drivers : held'[d] \in {held[d], None}
  <2>1. DOMAIN held = Drivers BY DEF EpochsPaid, TypedUpTo
  <2>2. QED BY <2>1 DEF LeverRoutes, arm_lever, clear_lever, AnswerQuestions, reset, vars
<1>3. /\ hub'.claimed = hub.claimed /\ hub'.node = hub.node /\ hub'.fence = hub.fence
      /\ hub'.applied = hub.applied
  <2>1. hub \in ChunkRow(0..Spare) BY DEF EpochsPaid, TypedUpTo
  <2>2. CASE AnswerQuestions BY <2>1, <2>2 DEF AnswerQuestions, ChunkRow
  <2>3. CASE UNCHANGED hub BY <2>3
  <2>4. QED BY <2>2, <2>3 DEF LeverRoutes, arm_lever, clear_lever, reset, vars
<1>4. Spent' = Spent BY <1>3 DEF Spent
<1>5. \A t \in Threads : Carrying(t)' => SameCarrier(t) BY <1>1 DEF SameCarrier
<1>6. QED BY <1>2, <1>3, <1>4, <1>5, TenureFewer

LEMMA TenureNumber == ASSUME EpochsPaid, Tenure, NEW t \in Threads, TakeNumber(t) PROVE Tenure'
<1> DEFINE others == Overlaps(t, thread[t].lane)
<1>1. UNCHANGED <<hub, held>> /\ thread[t].at = "push" BY DEF TakeNumber, Is
<1>2. /\ thread'[t].at = "send" /\ thread'[t].fact = thread[t].fact
      /\ \A s \in Threads \ {t} : s \notin others => thread'[s] = thread[s]
      /\ \A s \in others : thread[s].at = "send" /\ thread'[s].at = "send" /\ thread'[s].fact = thread[s].fact
  <2>1. thread \in [Threads -> ThreadRow(0..Spare)] BY DEF EpochsPaid, TypedUpTo
  <2>2. QED BY <2>1, NumberThreads
<1>3. \A s \in Threads : Carrying(s)' => SameCarrier(s)
  BY <1>1, <1>2 DEF SameCarrier, Carrying, Is, Completing, Reporting
<1>4. Spent' = Spent BY <1>1 DEF Spent
<1>5. QED BY <1>1, <1>3, <1>4, TenureFewer

(* A claim's answer is in hand, or lost: nothing else was.                 *)
LEMMA TenureWritten ==
    ASSUME EpochsPaid, Tenure, NEW t \in Threads, ClaimWritten(t), spoiled' = {} PROVE Tenure'
<1>1. ~hub.claimed BY WrittenHub
<1>2. /\ \A s \in Threads : ~Carrying(s)
      /\ \A d \in Drivers : held'[d] = None
  BY <1>1 DEF Tenure, NoneBefore, ClaimWritten
<1>3. hub'.claimed /\ hub'.fence = hub.fence BY WrittenHub
<1>4. PICK node \in {thread[t].node, OfferedAt} :
            /\ hub' = [hub EXCEPT !.claimed = TRUE, !.node = node, !.done = FALSE]
            /\ \/ Step(t, Idle)
               \/ node # TERMINAL /\ Step(t, [at |-> "claimed", node |-> node, epoch |-> hub.fence])
    BY DEF ClaimWritten
<1>5. hub'.node = node BY <1>4 DEF EpochsPaid, TypedUpTo, ChunkRow
<1>6. PICK row : Step(t, row) /\ row \in {Idle, [at |-> "claimed", node |-> node, epoch |-> hub.fence]}
  BY <1>4
<1>7. thread'[t] = row /\ \A s \in Threads \ {t} : ~Carrying(s)'
  BY <1>2, <1>6, StepCarrier DEF Tenure
<1>8. ~Completing(t)' /\ ~Reporting(t)' BY <1>6, <1>7 DEF Completing, Reporting, Idle
<1>9. \A s \in Threads : ~Completing(s)' /\ ~Reporting(s)' BY <1>7, <1>8 DEF Carrying
<1>10. ClaimTells'
  <2>1. Is(t, "claimed")' => thread'[t].node = hub'.node /\ thread'[t].epoch = hub'.fence
    BY <1>3, <1>5, <1>6, <1>7 DEF Is, Idle
  <2>2. QED BY <1>2, <1>7, <2>1 DEF ClaimTells, Carrying
<1>11. NoneBefore' BY <1>3 DEF NoneBefore
<1>12. OneCarrier' BY <1>7 DEF OneCarrier
<1>13. OneHolder' /\ HeldGood' /\ ReportBehind' BY <1>2 DEF OneHolder, HeldGood, ReportBehind
<1>14. CompletionTells' BY <1>9 DEF CompletionTells
<1>15. QED BY <1>10, <1>11, <1>12, <1>13, <1>14 DEF Tenure

(* A lease minted over what the hub's row says is good, and is reported    *)
(* at the epoch it is held at.                                             *)
LEMMA TenureMinted ==
    ASSUME EpochsPaid, Tenure, NEW t \in Threads, Carrying(t),
           NEW node \in Nodes, NEW epoch \in 0..Spare, node = hub.node, epoch = hub.fence,
           NEW lease, lease = [node |-> node, epoch |-> epoch + 1],
           held' = [held EXCEPT ![DriverOf[t]] = lease], ReportLease(t, lease), UNCHANGED hub,
           \A d \in Drivers : held[d] # None => d = DriverOf[t]
    PROVE  Tenure'
<1> DEFINE row == [at |-> "push", lane |-> "facts", fact |-> [kind |-> "lease", epoch |-> lease.epoch]]
<1>1. Step(t, row) BY DEF ReportLease
<1>2. thread'[t] = row /\ \A s \in Threads \ {t} : ~Carrying(s)' BY <1>1, StepCarrier DEF Tenure
<1>3. ~Is(t, "claimed")' /\ ~Completing(t)' /\ thread'[t].fact.epoch = lease.epoch
  BY <1>2 DEF Is, Completing
<1>4. \A s \in Threads : ~Is(s, "claimed")' /\ ~Completing(s)' BY <1>2, <1>3 DEF Carrying
<1>5. hub.claimed BY DEF Tenure, NoneBefore
<1>6. DriverOf[t] \in Drivers /\ \A d \in Drivers : held'[d] = IF d = DriverOf[t] THEN lease ELSE held[d]
  BY HeldAt
<1>7. \A d \in Drivers : held'[d] # None => d = DriverOf[t] /\ held'[d] = lease BY <1>6
<1>8. lease.node = hub.node /\ lease.epoch = hub.fence + 1 /\ hub.fence \in Nat
  BY HeldAt, SpareType DEF ChunkRow
<1>9. NoneBefore' BY <1>5 DEF NoneBefore
<1>10. OneCarrier' BY <1>2 DEF OneCarrier
<1>11. OneHolder' BY <1>7 DEF OneHolder
<1>12. ClaimTells' /\ CompletionTells' BY <1>4 DEF ClaimTells, CompletionTells
<1>13. ReportBehind'
  <2>1. \A s \in Threads : Reporting(s)' => s = t BY <1>2 DEF Carrying
  <2>2. lease.epoch <= lease.epoch BY <1>8
  <2>3. QED BY <1>3, <1>7, <2>1, <2>2 DEF ReportBehind
<1>14. HeldGood' BY <1>7, <1>8 DEF HeldGood, Good
<1>15. QED BY <1>9, <1>10, <1>11, <1>12, <1>13, <1>14 DEF Tenure

LEMMA TenureClaimed == ASSUME EpochsPaid, Tenure, NEW t \in Threads, ClaimAnswered(t) PROVE Tenure'
<1>1. thread[t].at = "claimed" /\ UNCHANGED hub BY DEF ClaimAnswered, Is
<1>2. thread[t].node \in Nodes /\ thread[t].epoch \in 0..Spare BY <1>1, HeldAt, RowAt
<1>3. /\ thread[t].node = hub.node /\ thread[t].epoch = hub.fence
      /\ \A d \in Drivers : held[d] = None
  BY <1>1 DEF Tenure, ClaimTells, Is
<1>4. Carrying(t) BY <1>1 DEF Carrying, Is
<1>5. Minted(thread[t]) = [node |-> thread[t].node, epoch |-> thread[t].epoch + 1] BY DEF Minted
<1>6. /\ held' = [held EXCEPT ![DriverOf[t]] = Minted(thread[t])]
      /\ ReportLease(t, Minted(thread[t]))
  BY DEF ClaimAnswered
<1>7. QED BY <1>1, <1>2, <1>3, <1>4, <1>5, <1>6, TenureMinted

(* A completion goes out with the lease held, at its epoch.                *)
LEMMA TenureComplete ==
    ASSUME EpochsPaid, Tenure, NEW t \in Threads, NEW choice \in Targets, complete(t, choice),
           spoiled' = {}
    PROVE  Tenure'
<1> DEFINE d == DriverOf[t]
           row == Submission(d, choice)
<1>1. /\ UNCHANGED <<hub, held>> /\ held[d] # None /\ d \in Drivers /\ thread[t].at = "idle"
  BY HeldAt DEF complete, Drive, Is
<1>2. Spent' = Spent BY <1>1 DEF Spent
<1>3. CASE Step(t, Idle)
  <2>1. \A s \in Threads : Carrying(s)' => SameCarrier(s) BY <1>3, StepFree DEF Idle
  <2>2. QED BY <1>1, <1>2, <2>1, TenureFewer
<1>4. CASE Step(t, row)
  <2>1. "stale_epoch" \notin armed[d] /\ \A s \in Threads \ {t} : ~Moving(s) BY DEF complete
  <2>2. \A s \in Threads : ~Carrying(s)
    BY <1>1, <2>1 DEF Carrying, Completing, Reporting, Moving, Is
  <2>3. thread'[t] = row /\ \A s \in Threads \ {t} : ~Carrying(s)'
    BY <1>4, <2>2, StepCarrier DEF Tenure
  <2>4. /\ row.at = "submitted" /\ row.first = None /\ row.epoch = held[d].epoch
        /\ row.node \in {held[d].node, Elsewhere}
    BY <2>1 DEF Submission
  <2> HIDE DEF row
  <2>5. ~Is(t, "claimed")' /\ ~Reporting(t)' BY <2>3, <2>4 DEF Is, Reporting
  <2>6. \A s \in Threads : ~Is(s, "claimed")' /\ ~Reporting(s)' BY <2>3, <2>5 DEF Carrying
  <2>7. hub.claimed BY <1>1 DEF Tenure, NoneBefore
  <2>8. NoneBefore' BY <1>1, <2>7 DEF NoneBefore
  <2>9. OneCarrier' BY <2>3 DEF OneCarrier
  <2>10. OneHolder' /\ HeldGood' BY <1>1, <1>2 DEF Tenure, OneHolder, HeldGood, Good
  <2>11. ClaimTells' /\ ReportBehind' BY <2>6 DEF ClaimTells, ReportBehind
  <2>12. CompletionTells'
    <3>1. \A s \in Threads : Completing(s)' => s = t BY <2>3 DEF Carrying
    <3>2. thread'[t].at = "submitted" /\ thread'[t].first = None BY <2>3, <2>4
    <3>3. Current(thread[t])' BY <3>2 DEF Current
    <3>4. \A e \in Drivers : held[e] # None => e = d BY <1>1 DEF Tenure, OneHolder
    <3>5. Sent(t, held[d])' BY <1>1, <2>3, <2>4 DEF Sent
    <3>6. QED BY <1>1, <3>1, <3>3, <3>4, <3>5 DEF CompletionTells
  <2>13. QED BY <2>8, <2>9, <2>10, <2>11, <2>12 DEF Tenure
<1>5. QED BY <1>3, <1>4 DEF complete

(* A completion under way goes on with the same node and epoch.            *)
LEMMA TenureOnward ==
    ASSUME EpochsPaid, Tenure, NEW t \in Threads, Completing(t), NEW row, Step(t, row),
           row.at \in {"submitted", "answered"}, row.node = thread[t].node, row.epoch = thread[t].epoch,
           UNCHANGED held, hub'.claimed = hub.claimed, HeldGood', Current(row)'
    PROVE  Tenure'
<1>1. Carrying(t) BY DEF Carrying
<1>2. thread'[t] = row /\ \A s \in Threads \ {t} : ~Carrying(s)' BY <1>1, StepCarrier DEF Tenure
<1>3. ~Is(t, "claimed")' /\ ~Reporting(t)' BY <1>2 DEF Is, Reporting
<1>4. \A s \in Threads : ~Is(s, "claimed")' /\ ~Reporting(s)' BY <1>2, <1>3 DEF Carrying
<1>5. hub.claimed BY <1>1 DEF Tenure, NoneBefore
<1>6. NoneBefore' BY <1>5 DEF NoneBefore
<1>7. OneCarrier' BY <1>2 DEF OneCarrier
<1>8. OneHolder' BY DEF Tenure, OneHolder
<1>9. ClaimTells' /\ ReportBehind' BY <1>4 DEF ClaimTells, ReportBehind
<1>10. CompletionTells'
  <2>1. \A s \in Threads : Completing(s)' => s = t BY <1>2 DEF Carrying
  <2>2. Current(thread[t])' BY <1>2
  <2>3. \A d \in Drivers : held'[d] # None => d = DriverOf[t] /\ Sent(t, held[d])'
    BY <1>2 DEF Tenure, CompletionTells, Sent
  <2>4. QED BY <2>1, <2>2, <2>3 DEF CompletionTells
<1>11. QED BY <1>6, <1>7, <1>8, <1>9, <1>10 DEF Tenure

LEMMA TenureLost == ASSUME EpochsPaid, Tenure, NEW t \in Threads, CompletionLost(t) PROVE Tenure'
<1>0. PICK row : row = Answered(thread[t], Lost) OBVIOUS
<1>1. /\ thread[t].at = "submitted" /\ UNCHANGED <<hub, held>> /\ Step(t, row)
  BY <1>0 DEF CompletionLost, Is
<1>2. /\ row.at = "answered" /\ row.node = thread[t].node /\ row.epoch = thread[t].epoch
      /\ row.first = thread[t].first /\ row.reply = Lost
  BY <1>0 DEF Answered
<1>3. Completing(t) BY <1>1 DEF Completing
<1>4. Spent' = Spent BY <1>1 DEF Spent
<1>5. HeldGood' BY <1>1, <1>4 DEF Tenure, HeldGood, Good
<1>6. Current(row)'
  <2>1. Current(thread[t]) BY <1>3 DEF Tenure, CompletionTells
  <2>2. CASE thread[t].first = None BY <1>2, <2>2 DEF Current, Counting, Lost
  <2>3. CASE thread[t].first # None
    <3>1. Counting(row) = thread[t].first /\ Counting(thread[t]) = thread[t].first
          /\ Attempt(row) = Attempt(thread[t])
      BY <1>2, <2>3 DEF Counting, Attempt
    <3>2. QED BY <1>1, <1>4, <2>1, <2>3, <3>1 DEF Current
  <2>4. QED BY <2>2, <2>3
<1>7. QED BY <1>1, <1>2, <1>3, <1>5, <1>6, TenureOnward

LEMMA TenureReplayed == ASSUME EpochsPaid, Tenure, NEW t \in Threads, Replayed(t) PROVE Tenure'
<1>0. PICK row : row = [at |-> "submitted", choice |-> thread[t].choice, node |-> thread[t].node,
                        epoch |-> thread[t].epoch, first |-> thread[t].reply]
  OBVIOUS
<1>1. /\ thread[t].at = "answered" /\ thread[t].first = None /\ UNCHANGED <<hub, held>> /\ Step(t, row)
  BY <1>0 DEF Replayed, Is
<1>2. /\ row.at = "submitted" /\ row.node = thread[t].node /\ row.epoch = thread[t].epoch
      /\ row.first = thread[t].reply
  BY <1>0
<1>3. Completing(t) BY <1>1 DEF Completing
<1>4. Spent' = Spent BY <1>1 DEF Spent
<1>5. HeldGood' BY <1>1, <1>4 DEF Tenure, HeldGood, Good
<1>6. Current(row)'
  <2>1. Current(thread[t]) BY <1>3 DEF Tenure, CompletionTells
  <2>2. Counting(row) = thread[t].reply /\ Counting(thread[t]) = thread[t].reply
        /\ Attempt(row) = Attempt(thread[t])
    BY <1>1, <1>2 DEF Counting, Attempt
  <2>3. QED BY <1>1, <1>4, <2>1, <2>2 DEF Current
<1>7. QED BY <1>1, <1>2, <1>3, <1>5, <1>6, TenureOnward

(* The attempt a completion is applied as is the lease's that is held.     *)
LEMMA TenureApplied == ASSUME EpochsPaid, Tenure, NEW t \in Threads, CompletionApplied(t) PROVE Tenure'
<1> DEFINE sub == thread[t]
           done == IF Admitted(sub) THEN AppliedTo(sub) ELSE hub
<1>1. sub.at = "submitted" /\ hub' = done /\ UNCHANGED held BY DEF CompletionApplied, Is
<1>2. PICK reply \in {Answer(done, sub), Lost} : Step(t, Answered(sub, reply)) BY DEF CompletionApplied
<1>0. PICK row : row = Answered(sub, reply) OBVIOUS
<1>3. /\ row.at = "answered" /\ row.node = sub.node /\ row.epoch = sub.epoch
      /\ row.first = sub.first /\ row.reply = reply /\ Step(t, row)
  BY <1>0, <1>2 DEF Answered
<1>4. Completing(t) BY <1>1 DEF Completing
<1>5. Current(sub) /\ \A d \in Drivers : held[d] # None => d = DriverOf[t] /\ Sent(t, held[d])
  BY <1>4 DEF Tenure, CompletionTells
<1>6. hub \in ChunkRow(0..Spare) /\ sub.choice \in Targets BY <1>1, HeldAt, RowAt
<1>7. Attempt(sub) = <<sub.node, sub.epoch>> /\ Attempt(row) = Attempt(sub) BY <1>3 DEF Attempt
<1>8. CASE Admitted(sub)
  <2>1. /\ sub.node = hub.node /\ sub.node \in Nodes /\ Attempt(sub) \in Attempts /\ Attempt(sub) \notin Spent
        /\ hub' = AppliedTo(sub)
    BY <1>8, AdmittedAttempt
  <2>2. /\ hub'.fence = hub.fence /\ hub'.claimed = hub.claimed
        /\ hub'.applied[Attempt(sub)] \in {"next", "done"}
    BY <1>6, <2>1, AppliedType
  <2>3. Attempt(sub) \in Spent'
    <3>1. None \notin {"next", "done"} BY DriveAssumption
    <3>2. QED BY <2>1, <2>2, <3>1 DEF Spent
  <2>4. HeldGood'
    <3> SUFFICES ASSUME NEW d \in Drivers, held[d] # None PROVE Good(held[d])' BY <1>1 DEF HeldGood
    <3>1. held[d].epoch = sub.epoch /\ sub.node \in {held[d].node, Elsewhere} BY <1>5 DEF Sent
    <3>2. sub.node = held[d].node BY <2>1, <3>1, DriveAssumption
    <3>3. QED BY <1>1, <1>7, <2>3, <3>1, <3>2 DEF Good
  <2>5. Current(row)'
    <3>1. CASE sub.first = None
      <4>1. Counting(row) = reply BY <1>3, <3>1 DEF Counting
      <4>2. reply.out = "next" => reply.node = hub'.node /\ reply.epoch = hub'.fence
        BY <1>1, <1>2 DEF Answer, Lost
      <4>3. QED BY <1>7, <2>3, <4>1, <4>2 DEF Current
    <3>2. CASE sub.first # None
      <4>1. Counting(row) = sub.first /\ Counting(sub) = sub.first BY <1>1, <1>3, <3>2 DEF Counting
      <4>2. sub.first.out # "next" BY <1>5, <2>1, <3>2, <4>1 DEF Current
      <4>3. QED BY <4>1, <4>2 DEF Current
    <3>3. QED BY <3>1, <3>2
  <2>6. QED BY <1>1, <1>3, <1>4, <2>2, <2>4, <2>5, TenureOnward
<1>9. CASE ~Admitted(sub)
  <2>1. hub' = hub BY <1>1, <1>9
  <2>2. Spent' = Spent BY <2>1 DEF Spent
  <2>3. HeldGood' BY <1>1, <2>1, <2>2 DEF Tenure, HeldGood, Good
  <2>4. Current(row)'
    <3>1. CASE sub.first = None
      <4>1. Counting(row) = reply BY <1>3, <3>1 DEF Counting
      <4>2. reply.out = "next" =>
                /\ reply.node = hub'.node /\ reply.epoch = hub'.fence
                /\ Outcome(hub, sub) = "next"
        BY <1>2, <1>9, <2>1 DEF Answer, Lost
      <4>3. Outcome(hub, sub) = "next" => Attempt(sub) \in Spent BY DEF Outcome, Spent
      <4>4. QED BY <1>7, <2>2, <4>1, <4>2, <4>3 DEF Current
    <3>2. CASE sub.first # None
      <4>1. Counting(row) = sub.first /\ Counting(sub) = sub.first BY <1>1, <1>3, <3>2 DEF Counting
      <4>2. QED BY <1>5, <1>7, <3>2, <2>1, <2>2, <4>1 DEF Current
    <3>3. QED BY <3>1, <3>2
  <2>5. QED BY <1>1, <1>3, <1>4, <2>1, <2>3, <2>4, TenureOnward
<1>10. QED BY <1>8, <1>9

LEMMA TenureAnswered == ASSUME EpochsPaid, Tenure, NEW t \in Threads, CompletionAnswered(t) PROVE Tenure'
<1> DEFINE d == DriverOf[t]
           reply == IF thread[t].first = None THEN thread[t].reply ELSE thread[t].first
<1>1. thread[t].at = "answered" /\ UNCHANGED hub BY DEF CompletionAnswered, Is
<1>2. Spent' = Spent BY <1>1 DEF Spent
<1>3. CASE Step(t, Idle) /\ held' \in {held, [held EXCEPT ![d] = None]}
  <2>1. \A s \in Threads : Carrying(s)' => SameCarrier(s) BY <1>3, StepFree DEF Idle
  <2>2. \A e \in Drivers : held'[e] \in {held[e], None} BY <1>3, HeldAt
  <2>3. QED BY <1>1, <1>2, <2>1, <2>2, TenureFewer
<1>4. CASE reply # Lost /\ MovesOn(reply) /\ held' = [held EXCEPT ![d] = Minted(reply)]
           /\ ReportLease(t, Minted(reply))
  <2>1. reply \in Reply(0..Spare) /\ reply.out = "next"
    <3>1. reply \in Reply(0..Spare) \cup {Lost} BY <1>1, HeldAt, RowAt
    <3>2. QED BY <1>4, <3>1 DEF MovesOn
  <2>2. reply.node \in Nodes /\ reply.epoch \in 0..Spare BY <2>1 DEF Reply
  <2>3. Completing(t) /\ Carrying(t) BY <1>1 DEF Completing, Carrying
  <2>4. Current(thread[t]) /\ \A e \in Drivers : held[e] # None => e = d
    BY <2>3 DEF Tenure, CompletionTells
  <2>5. Counting(thread[t]) = reply BY <1>1 DEF Counting
  <2> HIDE DEF reply
  <2>6. reply.node = hub.node /\ reply.epoch = hub.fence BY <1>1, <2>1, <2>4, <2>5 DEF Current
  <2>7. Minted(reply) = [node |-> reply.node, epoch |-> reply.epoch + 1] BY DEF Minted
  <2>8. QED BY <1>1, <1>4, <2>2, <2>3, <2>4, <2>6, <2>7, TenureMinted
<1>5. QED BY <1>3, <1>4 DEF CompletionAnswered

(* A lease reported raises the fence no further than the lease held.       *)
LEMMA TenureSent == ASSUME EpochsPaid, Tenure, NEW t \in Threads, SendFact(t) PROVE Tenure'
<1> DEFINE fact == thread[t].fact
<1>1. thread[t].at = "send" /\ UNCHANGED held /\ Step(t, Idle) BY DEF SendFact, Is
<1>2. hub' \in {hub, Ingested(fact)} BY DEF SendFact
<1>3. fact \in Fact(0..Spare) /\ hub \in ChunkRow(0..Spare) BY <1>1, HeldAt, RowAt
<1>4. /\ hub'.node = hub.node /\ hub'.applied = hub.applied /\ hub'.claimed = hub.claimed
      /\ hub'.fence = hub.fence \/ (fact.kind = "lease" /\ hub'.fence = fact.epoch)
  BY <1>2, <1>3, FactType
<1>5. Spent' = Spent BY <1>4 DEF Spent
<1>6. \A s \in Threads : Carrying(s)' => SameCarrier(s) BY <1>1, StepFree DEF Idle
<1>7. CASE hub'.fence = hub.fence
  BY <1>1, <1>4, <1>5, <1>6, <1>7, TenureFewer
<1>8. CASE fact.kind = "lease" /\ hub'.fence = fact.epoch
  <2>1. Reporting(t) /\ Carrying(t) BY <1>1, <1>8 DEF Reporting, Carrying
  <2>2. thread'[t] = Idle /\ \A s \in Threads \ {t} : ~Carrying(s)' BY <1>1, <2>1, StepCarrier DEF Tenure
  <2>3. \A s \in Threads : ~Carrying(s)'
    BY <2>2 DEF Carrying, Completing, Reporting, Is, Idle
  <2>4. HeldGood'
    <3> SUFFICES ASSUME NEW d \in Drivers, held[d] # None PROVE Good(held[d])' BY <1>1 DEF HeldGood
    <3>1. Good(held[d]) /\ fact.epoch <= held[d].epoch BY <2>1 DEF Tenure, HeldGood, ReportBehind
    <3>2. held[d].epoch \in 0..Spare /\ fact.epoch \in 0..Spare /\ Spare \in Nat
      BY <1>3, SpareType DEF EpochsPaid, TypedUpTo, Held, Fact
    <3>3. held[d].epoch >= hub'.fence BY <1>8, <3>1, <3>2
    <3>4. QED BY <1>1, <1>4, <1>5, <3>1, <3>3 DEF Good
  <2>5. NoneBefore' BY <1>1, <1>4, <2>3 DEF Tenure, NoneBefore
  <2>6. OneHolder' BY <1>1 DEF Tenure, OneHolder
  <2>7. OneCarrier' BY <2>3 DEF OneCarrier
  <2>8. ClaimTells' /\ CompletionTells' /\ ReportBehind'
    BY <2>3 DEF Carrying, ClaimTells, CompletionTells, ReportBehind
  <2>9. QED BY <2>4, <2>5, <2>6, <2>7, <2>8 DEF Tenure
<1>9. QED BY <1>4, <1>7, <1>8

(* What was spoiled once stays so.                                         *)
LEMMA SpoiledGrows ==
    ASSUME EpochsPaid, [Next]_vars, spoiled' = {} PROVE spoiled = {}
<1>1. ASSUME NEW t \in Threads, ClaimWritten(t) PROVE spoiled = {} BY <1>1 DEF ClaimWritten
<1>2. ASSUME NEW t \in Threads, NEW choice \in Targets, complete(t, choice) PROVE spoiled = {}
  BY <1>2 DEF complete
<1>3. CASE DriveRoutes
  BY <1>2, <1>3 DEF DriveRoutes, claim, decide, escalate, ask, report_event, push_transcript, Push
<1>4. CASE Link
  BY <1>1, <1>4 DEF Link, ClaimAnswered, CompletionApplied, CompletionLost, Replayed,
                    CompletionAnswered, TakeNumber, SendFact, FactLost
<1>5. CASE LeverRoutes \/ AnswerQuestions \/ (\E d \in Drivers : reset(d)) \/ UNCHANGED vars
  BY <1>5 DEF LeverRoutes, arm_lever, clear_lever, AnswerQuestions, reset, vars
<1>6. QED BY <1>3, <1>4, <1>5 DEF Next

UnspoiledTenure == spoiled = {} => Tenure

LEMMA TenureNext == EpochsPaid /\ UnspoiledTenure /\ [Next]_vars => UnspoiledTenure'
<1> SUFFICES ASSUME EpochsPaid, UnspoiledTenure, [Next]_vars, spoiled' = {} PROVE Tenure'
    BY DEF UnspoiledTenure
<1>1. Tenure BY SpoiledGrows DEF UnspoiledTenure
<1>2. CASE DriveRoutes
  <2>1. PICK t \in Threads : \/ claim(t) \/ decide(t) \/ escalate(t) \/ ask(t) \/ report_event(t)
                             \/ push_transcript(t) \/ \E choice \in Targets : complete(t, choice)
    BY <1>2 DEF DriveRoutes
  <2>2. CASE \E choice \in Targets : complete(t, choice) BY <1>1, <2>2, TenureComplete
  <2>3. QED BY <1>1, <2>1, <2>2, QuietVerbs
<1>3. CASE Link
  <2>1. PICK t \in Threads :
            \/ ClaimWritten(t) \/ ClaimAnswered(t)
            \/ CompletionApplied(t) \/ CompletionLost(t) \/ Replayed(t) \/ CompletionAnswered(t)
            \/ TakeNumber(t) \/ SendFact(t) \/ FactLost(t)
    BY <1>3 DEF Link
  <2>2. CASE ClaimWritten(t) BY <1>1, <2>2, TenureWritten
  <2>3. CASE ClaimAnswered(t) BY <1>1, <2>3, TenureClaimed
  <2>4. CASE CompletionApplied(t) BY <1>1, <2>4, TenureApplied
  <2>5. CASE CompletionLost(t) BY <1>1, <2>5, TenureLost
  <2>6. CASE Replayed(t) BY <1>1, <2>6, TenureReplayed
  <2>7. CASE CompletionAnswered(t) BY <1>1, <2>7, TenureAnswered
  <2>8. CASE TakeNumber(t) BY <1>1, <2>8, TenureNumber
  <2>9. CASE SendFact(t) BY <1>1, <2>9, TenureSent
  <2>10. CASE FactLost(t) BY <1>1, <2>10, QuietVerbs
  <2>11. QED BY <2>1, <2>2, <2>3, <2>4, <2>5, <2>6, <2>7, <2>8, <2>9, <2>10
<1>4. CASE LeverRoutes \/ AnswerQuestions \/ (\E d \in Drivers : reset(d)) \/ UNCHANGED vars
  BY <1>1, <1>4, QuietRest
<1>5. QED BY <1>2, <1>3, <1>4 DEF Next

(* As long as claims and completions do not overlap and no stale epoch is  *)
(* sent, the lease a driver holds between calls is one the hub will take:  *)
(* it names the chunk's node within the fence, or an attempt already       *)
(* applied, whatever was lost, dropped or replayed (_advance, _rebuild).   *)
THEOREM LeaseStaysGood == Spec => []HeldLeaseIsGood
<1>1. Init => UnspoiledTenure
  <2> SUFFICES ASSUME Init PROVE Tenure BY DEF UnspoiledTenure
  <2>1. \A d \in Drivers : held[d] = None BY DEF Init
  <2>2. \A t \in Threads : ~Carrying(t) BY DEF Init, Idle, Carrying, Is, Completing, Reporting
  <2>3. NoneBefore /\ OneCarrier /\ OneHolder BY <2>1, <2>2 DEF NoneBefore, OneCarrier, OneHolder
  <2>4. ClaimTells /\ CompletionTells BY <2>2 DEF Carrying, ClaimTells, CompletionTells
  <2>5. ReportBehind /\ HeldGood BY <2>1 DEF ReportBehind, HeldGood
  <2>6. QED BY <2>3, <2>4, <2>5 DEF Tenure
<1>2. UnspoiledTenure => HeldLeaseIsGood
  BY DEF UnspoiledTenure, Tenure, HeldGood, Good, HeldLeaseIsGood
<1>3. Spec => []EpochsPaid BY PaidInit, PaidNext, PTL DEF Spec
<1>4. QED BY <1>1, <1>2, <1>3, TenureNext, PTL DEF Spec
=============================================================================
