--------------------------- MODULE SessionsProofs ---------------------------
(***************************************************************************)
(* Proofs about the session engine, for any forest of sessions, any number *)
(* of threads and any bounds.                                              *)
(***************************************************************************)
EXTENDS Sessions, SequenceTheorems, TLAPS

-----------------------------------------------------------------------------
(* Types                                                                   *)

(* What Session.stored writes is a record of the store, or nothing.        *)
LEMMA StoredType ==
    ASSUME NEW row \in SessionRow PROVE Stored(row) \in StoredRow \cup {None}
BY DEF Stored, SessionRow, StoredRow

(* What a save writes is a store.                                          *)
LEMMA SaveType ==
    ASSUME sess' \in [Sessions -> SessionRow], Save
    PROVE store' \in [Sessions -> StoredRow \cup {None}]
BY StoredType DEF Save

(* A worker that moves on is still a worker.                               *)
LEMMA MoveType ==
    ASSUME TypeOK, NEW t \in Threads, thread[t] # None, NEW place \in Places, MoveTo(t, place)
    PROVE thread' \in [Threads -> ThreadRow \cup {None}]
BY NoneAssumption DEF TypeOK, MoveTo, ThreadRow

(* So do the threads when a worker ends.                                   *)
LEMMA GoneType ==
    ASSUME TypeOK, NEW t \in Threads, thread' = Gone(t)
    PROVE thread' \in [Threads -> ThreadRow \cup {None}]
BY DEF TypeOK, Gone

(* A worker's session is a session.                                        *)
LEMMA OnType ==
    ASSUME TypeOK, NEW t \in Threads, thread[t] # None
    PROVE On(t) \in Sessions /\ Me(t) \in SessionRow
BY DEF TypeOK, ThreadRow, On, Me

(* _cancel leaves a session of its type.                                   *)
LEMMA CancelledType == ASSUME NEW row \in SessionRow PROVE Cancelled(row) \in SessionRow
<1> DEFINE cancel == row.cancel \/ row.running
           holder == IF row.holder = "live" THEN "dead" ELSE row.holder
           ask == IF row.ask = "open" THEN "woken" ELSE row.ask
<1>1. cancel \in BOOLEAN
  OBVIOUS
<1>2. holder \in {None, "live", "dead"} /\ ask \in {None, "open", "woken"} \cup Replies
  BY DEF SessionRow
<1>3. Cancelled(row) = [row EXCEPT !.cancel = cancel, !.pending = <<>>, !.inbox = <<>>,
                                  !.holder = holder, !.ask = ask]
  BY DEF Cancelled
<1> HIDE DEF cancel, holder, ask
<1>4. PICK none : none = <<>> /\ none \in Seq({"prompt", "steer", "compact"}) /\ none \in Seq(Sessions)
  BY EmptySeq
<1>5. [row EXCEPT !.cancel = cancel, !.pending = none, !.inbox = none, !.holder = holder, !.ask = ask]
         \in SessionRow
  BY ZenonT(60), <1>1, <1>2, <1>4 DEF SessionRow
<1> QED
  BY <1>3, <1>4, <1>5

(* A child a worker has spawned, and still has to prompt or waits for.     *)
ChildKnown ==
    \A t \in Threads : (At(t, "spawned") \/ At(t, "joining")) =>
        thread[t].child \in Sessions /\ Parent[thread[t].child] = On(t)

(* _start keeps the types.                                                 *)
LEMMA StartType ==
    ASSUME TypeOK, NEW s \in Sessions, NEW row \in SessionRow,
           NEW others \in [Threads -> ThreadRow \cup {None}], Start(s, row, others)
    PROVE /\ sess' \in [Sessions -> SessionRow]
          /\ thread' \in [Threads -> ThreadRow \cup {None}]
          /\ store' \in [Sessions -> StoredRow \cup {None}]
<1>1. CASE NeedsWorker(row)
  <2>1. PICK u \in Threads : /\ sess' = [sess EXCEPT ![s] = [row EXCEPT !.running = TRUE, !.cancel = FALSE]]
                             /\ thread' = [others EXCEPT ![u] = Worker(s, "loop")]
                             /\ Save
    BY <1>1 DEF Start
  <2>2. [row EXCEPT !.running = TRUE, !.cancel = FALSE] \in SessionRow
    BY DEF SessionRow
  <2>3. sess' \in [Sessions -> SessionRow]
    BY <2>1, <2>2 DEF TypeOK
  <2>4. Worker(s, "loop") \in ThreadRow
    BY DEF Worker, ThreadRow, Places
  <2> QED
    BY <2>1, <2>3, <2>4, SaveType
<1>2. CASE ~NeedsWorker(row)
  BY <1>2 DEF Start, TypeOK
<1> QED
  BY <1>1, <1>2

(* A move to any other place forgets the child.                            *)
LEMMA MoveChild ==
    ASSUME TypeOK, ChildKnown, NEW t \in Threads, thread[t] # None,
           NEW place \in Places \ {"spawned", "joining"}, MoveTo(t, place)
    PROVE ChildKnown'
BY NoneAssumption DEF TypeOK, ChildKnown, MoveTo, At, On, ThreadRow

(* A worker that ends leaves the children of the others known.             *)
LEMMA GoneChild ==
    ASSUME TypeOK, ChildKnown, NEW t \in Threads, thread' = Gone(t)
    PROVE ChildKnown'
BY DEF TypeOK, ChildKnown, Gone, At, On

(* A session rewritten by its worker.                                      *)
LEMMA SessWrite ==
    ASSUME TypeOK, NEW s \in Sessions, NEW row \in SessionRow, sess' = [sess EXCEPT ![s] = row]
    PROVE sess' \in [Sessions -> SessionRow]
BY DEF TypeOK

(* The fields that steps write one at a time.                              *)
LEMMA RowWrite ==
    ASSUME NEW row \in SessionRow
    PROVE /\ \A v \in {None, "live", "dead"} : [row EXCEPT !.holder = v] \in SessionRow
          /\ \A v \in {None, "open", "settled"} : [row EXCEPT !.form = v] \in SessionRow
          /\ \A v \in {None, "open", "woken"} \cup Replies : [row EXCEPT !.ask = v] \in SessionRow
          /\ \A v \in BOOLEAN :
               /\ [row EXCEPT !.listed = v] \in SessionRow
               /\ [row EXCEPT !.running = v] \in SessionRow
               /\ [row EXCEPT !.made = TRUE, !.listed = TRUE, !.background = v] \in SessionRow
BY DEF SessionRow

(* Nothing is forgotten while no thread moves.                             *)
LEMMA SameChild == ASSUME ChildKnown, thread' = thread PROVE ChildKnown'
BY DEF ChildKnown, At, On

(* The steps of a worker that look and move on, or die.                    *)
LEMMA LookTypes ==
    ASSUME TypeOK, ChildKnown, NEW t \in Threads,
           \/ Resume(t) \/ WorkerQuits(t) \/ TakeInbox(t) \/ RunCompact(t)
           \/ RefuseTurn(t) \/ SeesCancel(t) \/ CallTool(t) \/ RaiseFormLost(t)
           \/ PromptChildLost(t) \/ JoinChild(t) \/ JudgeEnd(t) \/ AfterFailure(t)
    PROVE TypeOK' /\ ChildKnown'
<1>1. CASE Resume(t)
  BY <1>1, MoveType, MoveChild DEF Resume, At, Silent, TypeOK, Places
<1>2. CASE TakeInbox(t)
  BY <1>2, MoveType, MoveChild DEF TakeInbox, At, Silent, TypeOK, Places
<1>3. CASE RunCompact(t)
  BY <1>3, MoveType, MoveChild DEF RunCompact, At, Silent, TypeOK, Places
<1>4. CASE RefuseTurn(t)
  BY <1>4, MoveType, MoveChild DEF RefuseTurn, At, Silent, TypeOK, Places
<1>5. CASE SeesCancel(t)
  BY <1>5, MoveType, MoveChild DEF SeesCancel, At, Silent, TypeOK, Places
<1>6. CASE CallTool(t)
  BY <1>6, MoveType, MoveChild DEF CallTool, At, Silent, TypeOK, Places
<1>7. CASE JudgeEnd(t)
  BY <1>7, MoveType, MoveChild DEF JudgeEnd, At, Silent, TypeOK, Places
<1>8. CASE AfterFailure(t)
  BY <1>8, MoveType, MoveChild DEF AfterFailure, At, Silent, TypeOK, Places
<1>9. CASE JoinChild(t)
  BY <1>9, MoveType, MoveChild DEF JoinChild, At, Silent, TypeOK, Places
<1>10. CASE WorkerQuits(t)
  BY <1>10, GoneType, GoneChild DEF WorkerQuits, Silent, TypeOK
<1>11. CASE RaiseFormLost(t)
  BY <1>11, GoneType, GoneChild DEF RaiseFormLost, Silent, TypeOK
<1>12. CASE PromptChildLost(t)
  BY <1>12, GoneType, GoneChild DEF PromptChildLost, Silent, TypeOK
<1> QED
  BY <1>1, <1>2, <1>3, <1>4, <1>5, <1>6, <1>7, <1>8, <1>9, <1>10, <1>11, <1>12

(* The steps that write one field of the worker's own session, unsaved.    *)
LEMMA FieldTypes ==
    ASSUME TypeOK, ChildKnown, NEW t \in Threads,
           \/ OpenTurn(t) \/ RaiseForm(t) \/ RequestPermission(t) \/ PermissionAnswered(t)
           \/ AwaitForm(t) \/ ScriptEnds(t) \/ PipeCloses(t)
    PROVE TypeOK' /\ ChildKnown'
<1> USE DEF At
<1>1. CASE OpenTurn(t)
  <2>1. sess' = [sess EXCEPT ![On(t)] = [Me(t) EXCEPT !.holder = "live"]]
    BY <1>1 DEF OpenTurn, Me
  <2>2. sess' \in [Sessions -> SessionRow]
    BY <1>1, <2>1, OnType, RowWrite, SessWrite DEF OpenTurn
  <2> QED
    BY <1>1, <2>2, MoveType, MoveChild DEF OpenTurn, TypeOK, Places
<1>2. CASE RaiseForm(t)
  <2>1. sess' = [sess EXCEPT ![On(t)] = [Me(t) EXCEPT !.form = "open"]]
    BY <1>2 DEF RaiseForm, Me
  <2>2. sess' \in [Sessions -> SessionRow]
    BY <1>2, <2>1, OnType, RowWrite, SessWrite DEF RaiseForm
  <2> QED
    BY <1>2, <2>2, MoveType, MoveChild DEF RaiseForm, TypeOK, Places
<1>3. CASE RequestPermission(t)
  <2>1. sess' = [sess EXCEPT ![On(t)] = [Me(t) EXCEPT !.ask = "open"]]
    BY <1>3 DEF RequestPermission, Me
  <2>2. sess' \in [Sessions -> SessionRow]
    BY <1>3, <2>1, OnType, RowWrite, SessWrite DEF RequestPermission
  <2> QED
    BY <1>3, <2>2, MoveType, MoveChild DEF RequestPermission, TypeOK, Places
<1>4. CASE PermissionAnswered(t)
  <2>1. sess' = [sess EXCEPT ![On(t)] = [Me(t) EXCEPT !.ask = None]]
    BY <1>4 DEF PermissionAnswered, Me
  <2>2. sess' \in [Sessions -> SessionRow]
    BY <1>4, <2>1, OnType, RowWrite, SessWrite DEF PermissionAnswered
  <2> QED
    BY <1>4, <2>2, MoveType, MoveChild DEF PermissionAnswered, TypeOK, Places
<1>5. CASE AwaitForm(t)
  <2>1. sess' = [sess EXCEPT ![On(t)] = [Me(t) EXCEPT !.form = None]]
    BY <1>5 DEF AwaitForm, Me
  <2>2. sess' \in [Sessions -> SessionRow]
    BY <1>5, <2>1, OnType, RowWrite, SessWrite DEF AwaitForm
  <2> QED
    BY <1>5, <2>2, MoveType, MoveChild DEF AwaitForm, TypeOK, Places
<1>6. CASE ScriptEnds(t)
  <2>1. sess' = [sess EXCEPT ![On(t)] = [Me(t) EXCEPT !.holder = None]]
    BY <1>6 DEF ScriptEnds, Me
  <2>2. sess' \in [Sessions -> SessionRow]
    BY <1>6, <2>1, OnType, RowWrite, SessWrite DEF ScriptEnds
  <2> QED
    BY <1>6, <2>2, MoveType, MoveChild DEF ScriptEnds, TypeOK, Places
<1>7. CASE PipeCloses(t)
  <2>1. sess' = [sess EXCEPT ![On(t)] = [Me(t) EXCEPT !.holder = None]]
    BY <1>7 DEF PipeCloses, Me
  <2>2. sess' \in [Sessions -> SessionRow]
    BY <1>7, <2>1, OnType, RowWrite, SessWrite DEF PipeCloses
  <2> QED
    BY <1>7, <2>2, MoveType, MoveChild DEF PipeCloses, TypeOK, Places
<1> QED
  BY <1>1, <1>2, <1>3, <1>4, <1>5, <1>6, <1>7

(* A queue without its head, or without one entry, is a queue.             *)
LEMMA QueueTypes ==
    ASSUME NEW S, NEW q \in Seq(S)
    PROVE /\ q # <<>> => Tail(q) \in Seq(S) /\ Head(q) \in S
          /\ \A x \in S : Append(q, x) \in Seq(S)
          /\ \A i \in 1..Len(q) : SubSeq(q, 1, i - 1) \o SubSeq(q, i + 1, Len(q)) \in Seq(S)
<1>1. q # <<>> => Tail(q) \in Seq(S) /\ Head(q) \in S
  BY HeadTailProperties
<1>2. \A x \in S : Append(q, x) \in Seq(S)
  BY AppendProperties
<1>3. ASSUME NEW i \in 1..Len(q)
      PROVE SubSeq(q, 1, i - 1) \o SubSeq(q, i + 1, Len(q)) \in Seq(S)
  <2>0. Len(q) \in Nat
    BY LenProperties
  <2>1. SubSeq(q, 1, i - 1) \in Seq(S) /\ SubSeq(q, i + 1, Len(q)) \in Seq(S)
    <3>1. \A j \in 1..(i - 1) : j \in 1..Len(q)
      BY <2>0
    <3>2. \A j \in (i + 1)..Len(q) : j \in 1..Len(q)
      BY <2>0
    <3>3. \A j \in 1..Len(q) : q[j] \in S
      BY ElementOfSeq
    <3> QED
      BY <2>0, <3>1, <3>2, <3>3, SubSeqProperties
  <2> QED
    BY <2>1, ConcatProperties
<1> QED
  BY <1>1, <1>2, <1>3

(* A worker that moves on with its session rewritten and saved.            *)
LEMMA SavedTypes ==
    ASSUME TypeOK, ChildKnown, NEW t \in Threads, thread[t] # None, NEW row \in SessionRow,
           sess' = [sess EXCEPT ![On(t)] = row],
           NEW place \in Places \ {"spawned", "joining"}, MoveTo(t, place),
           Save \/ store' = store,
           stop' = stop \/ stop' = [stop EXCEPT ![On(t)] = FALSE],
           UNCHANGED <<halted, boot, due, used>>
    PROVE TypeOK' /\ ChildKnown'
<1>1. sess' \in [Sessions -> SessionRow]
  BY OnType, SessWrite
<1>2. store' \in [Sessions -> StoredRow \cup {None}]
  BY <1>1, SaveType DEF TypeOK
<1>3. stop' \in [Sessions -> BOOLEAN]
  BY OnType DEF TypeOK
<1> QED
  BY <1>1, <1>2, <1>3, MoveType, MoveChild DEF TypeOK

(* The end of a turn writes a session of its type.                         *)
LEMMA IdledType ==
    ASSUME NEW row \in SessionRow, NEW outcome \in SessionOutcomes
    PROVE Idled(row, outcome) \in SessionRow
<1> DEFINE rest == IF outcome = "interrupted" THEN <<>> ELSE row.pending
<1>1. rest \in Seq({"prompt", "steer", "compact"})
  BY EmptySeq DEF SessionRow
<1>2. Idled(row, outcome) = [row EXCEPT !.outcome = outcome, !.current = FALSE,
                                        !.holder = None, !.pending = rest]
  BY DEF Idled
<1> HIDE DEF rest
<1> QED
  BY <1>1, <1>2 DEF SessionRow

(* The turn's end.                                                         *)
LEMMA IdleTypes ==
    ASSUME TypeOK, ChildKnown, NEW t \in Threads,
           TurnInterrupted(t) \/ TurnFails(t) \/ TurnSucceeds(t) \/ ScriptFails(t)
    PROVE TypeOK' /\ ChildKnown'
<1>1. ASSUME NEW outcome \in SessionOutcomes, NEW place \in Places \ {"spawned", "joining"},
             thread[t] # None, Idle(t, outcome, place)
      PROVE TypeOK' /\ ChildKnown'
  <2>1. sess' = [sess EXCEPT ![On(t)] = Idled(Me(t), outcome)]
    BY <1>1 DEF Idle, Me
  <2>2. Idled(Me(t), outcome) \in SessionRow
    BY <1>1, OnType, IdledType
  <2> QED
    BY <1>1, <2>1, <2>2, SavedTypes DEF Idle
<1>2. {"loop", "report", "failed"} \subseteq Places \ {"spawned", "joining"}
  BY DEF Places
<1>3. CASE TurnInterrupted(t)
  BY <1>1, <1>2, <1>3 DEF TurnInterrupted, At, SessionOutcomes
<1>4. CASE TurnFails(t)
  BY <1>1, <1>2, <1>4 DEF TurnFails, At, SessionOutcomes
<1>5. CASE TurnSucceeds(t)
  <2> DEFINE place == IF Parent[On(t)] = None THEN "loop" ELSE "report"
  <2>1. place \in {"loop", "report", "failed"}
    OBVIOUS
  <2>2. thread[t] # None /\ Idle(t, "succeeded", place)
    BY <1>5 DEF TurnSucceeds, At
  <2> HIDE DEF place
  <2> QED
    BY <1>1, <1>2, <2>1, <2>2 DEF SessionOutcomes
<1>6. CASE ScriptFails(t)
  BY <1>1, <1>2, <1>6 DEF ScriptFails, At, SessionOutcomes
<1> QED
  BY <1>3, <1>4, <1>5, <1>6

(* The steps that take something off a queue, begin a turn or drop it.     *)
LEMMA TakeTypes ==
    ASSUME TypeOK, ChildKnown, NEW t \in Threads,
           \/ TakePending(t) \/ TakeSteer(t) \/ DeliverInbox(t)
           \/ UserMessage(t) \/ Declined(t) \/ WorkerExits(t)
    PROVE TypeOK' /\ ChildKnown'
<1> USE DEF At
<1>0. {"popped", "compact", "steered", "opening", "succeeding", "loop"}
        \subseteq Places \ {"spawned", "joining"}
  BY DEF Places
<1>1. CASE TakePending(t)
  <2> DEFINE rest == Tail(Me(t).pending)
             row == [Me(t) EXCEPT !.pending = rest]
             place == IF Head(Me(t).pending) = "compact" THEN "compact" ELSE "popped"
  <2>1. Me(t) \in SessionRow /\ Me(t).pending \in Seq({"prompt", "steer", "compact"})
    BY <1>1, OnType DEF TakePending, SessionRow
  <2>2. rest \in Seq({"prompt", "steer", "compact"})
    BY <1>1, <2>1, QueueTypes DEF TakePending
  <2>3. sess' = [sess EXCEPT ![On(t)] = row]
    BY <1>1 DEF TakePending, Me
  <2>4. row \in SessionRow
    <3> HIDE DEF rest
    <3> QED
      BY <2>1, <2>2 DEF SessionRow
  <2>5. place \in Places \ {"spawned", "joining"} /\ MoveTo(t, place)
    BY <1>0, <1>1 DEF TakePending
  <2> HIDE DEF row, place
  <2> QED
    BY <1>1, <2>3, <2>4, <2>5, SavedTypes DEF TakePending
<1>2. CASE TakeSteer(t)
  <2>1. PICK i \in 1..Len(Me(t).pending) :
          sess' = [sess EXCEPT ![On(t)].holder = None,
             ![On(t)].pending = SubSeq(@, 1, i - 1) \o SubSeq(@, i + 1, Len(@))]
    BY <1>2 DEF TakeSteer
  <2> DEFINE rest == SubSeq(Me(t).pending, 1, i - 1)
                       \o SubSeq(Me(t).pending, i + 1, Len(Me(t).pending))
             row == [Me(t) EXCEPT !.holder = None, !.pending = rest]
  <2>2. On(t) \in Sessions /\ Me(t) \in SessionRow
           /\ Me(t).pending \in Seq({"prompt", "steer", "compact"})
    BY <1>2, OnType DEF TakeSteer, SessionRow
  <2>3. rest \in Seq({"prompt", "steer", "compact"})
    BY <2>2, QueueTypes
  <2>4. sess' = [sess EXCEPT ![On(t)] = row]
    BY <2>1, <2>2 DEF Me, SessionRow, TypeOK
  <2>5. row \in SessionRow
    <3> HIDE DEF rest
    <3> QED
      BY <2>2, <2>3 DEF SessionRow
  <2> HIDE DEF row
  <2> QED
    BY <1>0, <1>2, <2>4, <2>5, SavedTypes DEF TakeSteer
<1>3. CASE DeliverInbox(t)
  <2>1. CASE Silent /\ MoveTo(t, "loop")
    BY <1>0, <1>3, <2>1, MoveType, MoveChild DEF DeliverInbox, Silent, TypeOK
  <2>2. CASE ~(Silent /\ MoveTo(t, "loop"))
    <3> DEFINE rest == Tail(Me(t).inbox)
               row == [Me(t) EXCEPT !.inbox = rest]
    <3>1. PICK place \in {"opening", "succeeding"} :
            /\ MoveTo(t, place) /\ Me(t).inbox # <<>>
            /\ sess' = [sess EXCEPT ![On(t)].inbox = Tail(@)]
            /\ Save /\ UNCHANGED <<halted, boot, due, stop, used>>
      BY <1>3, <2>2 DEF DeliverInbox
    <3>2. Me(t) \in SessionRow /\ Me(t).inbox \in Seq(Sessions)
      BY <1>3, OnType DEF DeliverInbox, SessionRow
    <3>3. rest \in Seq(Sessions)
      BY <3>1, <3>2, QueueTypes
    <3>4. sess' = [sess EXCEPT ![On(t)] = row]
      BY <3>1 DEF Me
    <3>5. row \in SessionRow
      <4> HIDE DEF rest
      <4> QED
        BY <3>2, <3>3 DEF SessionRow
    <3>6. place \in Places \ {"spawned", "joining"} /\ thread[t] # None
      BY <1>0, <1>3 DEF DeliverInbox
    <3> HIDE DEF row
    <3> QED
      BY <3>1, <3>4, <3>5, <3>6, SavedTypes
  <2> QED
    BY <2>1, <2>2
<1>4. CASE UserMessage(t)
  <2> DEFINE row == [Me(t) EXCEPT !.current = TRUE, !.cancel = FALSE]
  <2>1. On(t) \in Sessions /\ Me(t) \in SessionRow
    BY <1>4, OnType DEF UserMessage
  <2>2. sess' = [sess EXCEPT ![On(t)] = row]
    BY <1>4, <2>1 DEF UserMessage, Me, TypeOK, SessionRow
  <2>3. row \in SessionRow
    BY <2>1 DEF SessionRow
  <2> HIDE DEF row
  <2> QED
    BY <1>0, <1>4, <2>2, <2>3, SavedTypes DEF UserMessage
<1>5. CASE Declined(t)
  <2> DEFINE row == [Me(t) EXCEPT !.ask = None, !.current = FALSE, !.holder = None]
  <2>1. On(t) \in Sessions /\ Me(t) \in SessionRow
    BY <1>5, OnType DEF Declined
  <2>2. sess' = [sess EXCEPT ![On(t)] = row]
    BY <1>5, <2>1 DEF Declined, Me, TypeOK, SessionRow
  <2>3. row \in SessionRow
    BY <2>1 DEF SessionRow
  <2> HIDE DEF row
  <2> QED
    BY <1>0, <1>5, <2>2, <2>3, SavedTypes DEF Declined
<1>6. CASE WorkerExits(t)
  <2> DEFINE row == [Me(t) EXCEPT !.running = FALSE, !.current = FALSE]
  <2>1. On(t) \in Sessions /\ Me(t) \in SessionRow
    BY <1>6, OnType DEF WorkerExits
  <2>2. sess' = [sess EXCEPT ![On(t)] = row]
    BY <1>6, <2>1 DEF WorkerExits, Me, TypeOK, SessionRow
  <2>3. row \in SessionRow
    BY <2>1 DEF SessionRow
  <2>4. sess' \in [Sessions -> SessionRow]
    <3> HIDE DEF row
    <3> QED
      BY <2>1, <2>2, <2>3, SessWrite
  <2>5. store' \in [Sessions -> StoredRow \cup {None}]
    BY <1>6, <2>4, SaveType DEF WorkerExits, SaveAtExit
  <2>6. stop' \in [Sessions -> BOOLEAN]
    BY <1>6, <2>1 DEF WorkerExits, TypeOK
  <2> QED
    BY <1>6, <2>4, <2>5, <2>6, GoneType, GoneChild DEF WorkerExits, TypeOK
<1> QED
  BY <1>1, <1>2, <1>3, <1>4, <1>5, <1>6

(* _start leaves the spawned children of the other workers known.          *)
LEMMA StartChild ==
    ASSUME TypeOK, NEW s \in Sessions, NEW row, NEW others \in [Threads -> ThreadRow \cup {None}],
           \A t \in Threads :
              (others[t] # None /\ others[t].at \in {"spawned", "joining"}) =>
                 others[t].child \in Sessions /\ Parent[others[t].child] = others[t].on,
           Start(s, row, others)
    PROVE ChildKnown'
<1>1. CASE thread' = others
  BY <1>1 DEF ChildKnown, At, On
<1>2. CASE \E u \in Threads : thread' = [others EXCEPT ![u] = Worker(s, "loop")]
  BY <1>2 DEF ChildKnown, At, On, Worker
<1> QED
  BY <1>1, <1>2 DEF Start

(* The steps that put something in a queue and see to a worker.            *)
LEMMA StartTypes ==
    ASSUME TypeOK, ChildKnown,
           \/ \E s \in Sessions, kind \in Kinds : Submit(s, kind)
           \/ \E t \in Threads : PromptChild(t) \/ ChildReports(t)
    PROVE TypeOK' /\ ChildKnown'
<1>1. CASE \E s \in Sessions, kind \in Kinds : Submit(s, kind)
  <2>1. PICK s \in Sessions, kind \in Kinds : Submit(s, kind)
    BY <1>1
  <2> DEFINE queue == Append(sess[s].pending, kind)
             row == [sess[s] EXCEPT !.pending = queue]
  <2>2. sess[s] \in SessionRow /\ sess[s].pending \in Seq({"prompt", "steer", "compact"})
    BY DEF TypeOK, SessionRow
  <2>3. queue \in Seq({"prompt", "steer", "compact"})
    BY <2>2, QueueTypes, BoundAssumption
  <2>4. row \in SessionRow
    <3> HIDE DEF queue
    <3> QED
      BY <2>2, <2>3 DEF SessionRow
  <2>5. Start(s, row, thread)
    BY <2>1 DEF Submit
  <2>6. used' \in [submits : 0..MaxSubmits, interrupts : 0..MaxInterrupts, restarts : 0..MaxRestarts]
    <3>1. used \in [submits : 0..MaxSubmits, interrupts : 0..MaxInterrupts, restarts : 0..MaxRestarts]
      BY DEF TypeOK
    <3>2. used.submits < MaxSubmits /\ used' = [used EXCEPT !.submits = @ + 1]
      BY <2>1 DEF Submit, Within
    <3>3. used.submits + 1 \in 0..MaxSubmits
      BY <3>1, <3>2, BoundAssumption
    <3> QED
      BY <3>1, <3>2, <3>3
  <2>7. ChildKnown'
    <3> HIDE DEF row
    <3> QED
      BY <2>5, StartChild DEF ChildKnown, At, On, TypeOK
  <2>8. thread \in [Threads -> ThreadRow \cup {None}]
    BY DEF TypeOK
  <2>9. /\ sess' \in [Sessions -> SessionRow]
        /\ thread' \in [Threads -> ThreadRow \cup {None}]
        /\ store' \in [Sessions -> StoredRow \cup {None}]
    <3> HIDE DEF row
    <3> QED
      BY <2>4, <2>5, <2>8, StartType
  <2> QED
    BY <2>1, <2>6, <2>7, <2>9 DEF Submit, TypeOK
<1>2. ASSUME NEW t \in Threads, PromptChild(t) PROVE TypeOK' /\ ChildKnown'
  <2> DEFINE c == thread[t].child
             place == IF sess[c].background THEN "run" ELSE "joining"
             queue == Append(sess[c].pending, "prompt")
             row == [sess[c] EXCEPT !.pending = queue]
             others == [thread EXCEPT ![t].at = place]
  <2>1. thread[t] # None /\ thread[t].at = "spawned" /\ Start(c, row, others)
    BY <1>2 DEF PromptChild, At
  <2>2. c \in Sessions /\ Parent[c] = thread[t].on
    BY <2>1 DEF ChildKnown, At, On
  <2>3. sess[c] \in SessionRow /\ sess[c].pending \in Seq({"prompt", "steer", "compact"})
    BY <2>2 DEF TypeOK, SessionRow
  <2>4. queue \in Seq({"prompt", "steer", "compact"})
    BY <2>3, QueueTypes
  <2>5. row \in SessionRow
    <3> HIDE DEF queue
    <3> QED
      BY <2>3, <2>4 DEF SessionRow
  <2>6. place \in Places
    BY DEF Places
  <2>7. others \in [Threads -> ThreadRow \cup {None}]
    <3> HIDE DEF place
    <3> QED
      BY <2>1, <2>6, NoneAssumption DEF TypeOK, ThreadRow
  <2>8. \A v \in Threads :
           (others[v] # None /\ others[v].at \in {"spawned", "joining"}) =>
              others[v].child \in Sessions /\ Parent[others[v].child] = others[v].on
    <3> HIDE DEF place
    <3>1. ASSUME NEW v \in Threads, v # t PROVE others[v] = thread[v]
      BY <3>1 DEF TypeOK
    <3>2. others[t].child = c /\ others[t].on = thread[t].on
      BY <2>1, NoneAssumption DEF TypeOK, ThreadRow
    <3> QED
      BY <2>2, <3>1, <3>2 DEF ChildKnown, At, On
  <2> HIDE DEF c, row, others
  <2>9. ChildKnown'
    BY <2>1, <2>2, <2>7, <2>8, StartChild
  <2>10. /\ sess' \in [Sessions -> SessionRow]
         /\ thread' \in [Threads -> ThreadRow \cup {None}]
         /\ store' \in [Sessions -> StoredRow \cup {None}]
    BY SMTT(30), <2>1, <2>2, <2>5, <2>7, StartType
  <2>11. UNCHANGED <<halted, boot, due, stop, used>>
    BY <1>2 DEF PromptChild
  <2> QED
    BY SMTT(30), <2>9, <2>10, <2>11 DEF TypeOK
<1>3. ASSUME NEW t \in Threads, ChildReports(t) PROVE TypeOK' /\ ChildKnown'
  <2> DEFINE c == On(t)
             p == Parent[c]
             queue == Append(sess[p].inbox, c)
             row == [sess[p] EXCEPT !.inbox = queue]
             others == [thread EXCEPT ![t].at = "loop"]
  <2>1. thread[t] # None /\ UNCHANGED <<halted, boot, due, stop, used>> /\ c \in Sessions
    BY <1>3, OnType DEF ChildReports, At
  <2>2. CASE p # None /\ sess[p].listed /\ sess[c].background
    <3>1. Start(p, row, others)
      BY <1>3, <2>2 DEF ChildReports
    <3>2. p \in Sessions
      BY <2>1, <2>2, ForestAssumption
    <3>3. sess[p] \in SessionRow /\ sess[p].inbox \in Seq(Sessions)
      BY <3>2 DEF TypeOK, SessionRow
    <3>4. queue \in Seq(Sessions)
      BY <2>1, <3>3, QueueTypes
    <3>5. row \in SessionRow
      <4> HIDE DEF queue
      <4> QED
        BY <3>3, <3>4 DEF SessionRow
    <3>6. others \in [Threads -> ThreadRow \cup {None}]
      BY <2>1, NoneAssumption DEF TypeOK, ThreadRow, Places
    <3>7. \A v \in Threads :
             (others[v] # None /\ others[v].at \in {"spawned", "joining"}) =>
                others[v].child \in Sessions /\ Parent[others[v].child] = others[v].on
      <4>1. ASSUME NEW v \in Threads, v # t PROVE others[v] = thread[v]
        BY <4>1 DEF TypeOK
      <4>2. others[t].at = "loop"
        BY <2>1, NoneAssumption DEF TypeOK, ThreadRow
      <4> QED
        BY <4>1, <4>2 DEF ChildKnown, At, On
    <3> HIDE DEF p, row, others
    <3>8. ChildKnown'
      BY <3>1, <3>2, <3>6, <3>7, StartChild
    <3>9. /\ sess' \in [Sessions -> SessionRow]
          /\ thread' \in [Threads -> ThreadRow \cup {None}]
          /\ store' \in [Sessions -> StoredRow \cup {None}]
      BY <3>1, <3>2, <3>5, <3>6, StartType
    <3> QED
      BY <2>1, <3>8, <3>9 DEF TypeOK
  <2>3. CASE ~(p # None /\ sess[p].listed /\ sess[c].background)
    <3>1. MoveTo(t, "loop") /\ UNCHANGED <<sess, store>>
      BY <1>3, <2>3 DEF ChildReports
    <3> QED
      BY <2>1, <3>1, MoveType, MoveChild DEF TypeOK, Places
  <2> QED
    BY <2>2, <2>3
<1> QED
  BY <1>1, <1>2, <1>3

(* The other API calls.                                                    *)
LEMMA CallTypes ==
    ASSUME TypeOK, ChildKnown, NEW s \in Sessions,
           \/ Create(s) \/ Interrupt(s) \/ Remove(s) \/ CancelForm(s)
           \/ \E decision \in Replies : ReplyPermission(s, decision)
    PROVE TypeOK' /\ ChildKnown'
<1>0. \A d \in Sessions : sess[d] \in SessionRow /\ Cancelled(sess[d]) \in SessionRow
  BY CancelledType DEF TypeOK
<1>1. CASE Create(s)
  <2> DEFINE row == [sess[s] EXCEPT !.made = TRUE, !.listed = TRUE]
  <2>1. sess' = [sess EXCEPT ![s] = row]
    BY <1>1, <1>0 DEF Create, TypeOK, SessionRow
  <2>2. row \in SessionRow
    BY <1>0 DEF SessionRow
  <2>3. sess' \in [Sessions -> SessionRow]
    <3> HIDE DEF row
    <3> QED
      BY <2>1, <2>2, SessWrite
  <2> QED
    BY <1>1, <2>3, SaveType, SameChild DEF Create, TypeOK
<1>2. CASE Interrupt(s)
  <2>1. sess' \in [Sessions -> SessionRow]
    BY <1>0, <1>2 DEF Interrupt, CancelTree
  <2>2. used' \in [submits : 0..MaxSubmits, interrupts : 0..MaxInterrupts, restarts : 0..MaxRestarts]
    BY <1>2, BoundAssumption DEF Interrupt, Within, TypeOK
  <2> QED
    BY <1>2, <2>1, <2>2, SameChild DEF Interrupt, TypeOK
<1>3. CASE Remove(s)
  <2>1. \A d \in Sessions : [Cancelled(sess[d]) EXCEPT !.listed = FALSE] \in SessionRow
    BY <1>0, RowWrite
  <2>2. sess' \in [Sessions -> SessionRow]
    BY <1>0, <1>3, <2>1 DEF Remove
  <2>3. stop' \in [Sessions -> BOOLEAN]
    BY <1>3 DEF Remove
  <2>4. Save /\ UNCHANGED <<thread, halted, boot, due, used>>
    BY <1>3 DEF Remove
  <2> QED
    BY <2>2, <2>3, <2>4, SaveType, SameChild DEF TypeOK
<1>4. CASE CancelForm(s)
  <2>1. sess' = [sess EXCEPT ![s] = [sess[s] EXCEPT !.form = "settled"]]
    BY <1>4 DEF CancelForm
  <2>2. sess' \in [Sessions -> SessionRow]
    BY <1>0, <2>1, RowWrite, SessWrite
  <2> QED
    BY <1>4, <2>2, SameChild DEF CancelForm, TypeOK
<1>5. CASE \E decision \in Replies : ReplyPermission(s, decision)
  <2>1. PICK decision \in Replies : ReplyPermission(s, decision)
    BY <1>5
  <2>2. sess' = [sess EXCEPT ![s] = [sess[s] EXCEPT !.ask = decision]]
    BY <2>1 DEF ReplyPermission
  <2>3. sess' \in [Sessions -> SessionRow]
    BY <1>0, <2>2, RowWrite, SessWrite
  <2> QED
    BY <2>1, <2>3, SameChild DEF ReplyPermission, TypeOK
<1> QED
  BY <1>1, <1>2, <1>3, <1>4, <1>5

(* A script's child is created with the worker holding on to it.           *)
LEMMA SpawnTypes ==
    ASSUME TypeOK, ChildKnown, NEW t \in Threads, NEW c \in Sessions, NEW background \in Modes,
           SpawnChild(t, c, background)
    PROVE TypeOK' /\ ChildKnown'
<1> DEFINE row == [sess[c] EXCEPT !.made = TRUE, !.listed = TRUE, !.background = background]
           work == [thread[t] EXCEPT !.at = "spawned", !.child = c]
<1>1. thread[t] # None /\ thread[t] \in ThreadRow
  BY DEF SpawnChild, At, TypeOK
<1>2. sess' = [sess EXCEPT ![c] = row]
  BY DEF SpawnChild, TypeOK, SessionRow
<1>3. row \in SessionRow
  BY BoundAssumption, RowWrite DEF TypeOK
<1>4. sess' \in [Sessions -> SessionRow]
  <2> HIDE DEF row
  <2> QED
    BY <1>2, <1>3, SessWrite
<1>5. thread' = [thread EXCEPT ![t] = work]
  BY <1>1 DEF SpawnChild, TypeOK, ThreadRow
<1>6. work \in ThreadRow /\ work.child = c /\ work.on = thread[t].on
  BY <1>1 DEF ThreadRow, Places
<1>7. thread' \in [Threads -> ThreadRow \cup {None}]
  <2> HIDE DEF work
  <2> QED
    BY <1>5, <1>6 DEF TypeOK
<1>8. ChildKnown'
  <2> HIDE DEF work
  <2>1. Parent[c] = thread[t].on
    BY DEF SpawnChild, On
  <2>2. thread'[t] = work /\ \A v \in Threads : v # t => thread'[v] = thread[v]
    BY <1>5 DEF TypeOK
  <2> QED
    BY <1>6, <2>1, <2>2 DEF ChildKnown, At, On
<1> QED
  BY <1>4, <1>7, <1>8, SaveType DEF SpawnChild, TypeOK

(* Signals, restarts and resumes.                                          *)
LEMMA LifeTypes ==
    ASSUME TypeOK, ChildKnown, Halt \/ Restart \/ \E s \in Sessions : ResumeSession(s)
    PROVE TypeOK' /\ ChildKnown'
<1>1. CASE Halt
  <2>1. \A s \in Sessions :
          [sess[s] EXCEPT !.holder = IF sess[s].holder = "live" /\ sess[s].listed THEN "dead"
                                     ELSE sess[s].holder] \in SessionRow
    <3>1. ASSUME NEW s \in Sessions
          PROVE (IF sess[s].holder = "live" /\ sess[s].listed THEN "dead" ELSE sess[s].holder)
                  \in {None, "live", "dead"}
      BY DEF TypeOK, SessionRow
    <3> QED
      BY <3>1, RowWrite DEF TypeOK
  <2>2. sess' \in [Sessions -> SessionRow]
    BY <1>1, <2>1 DEF Halt
  <2>3. used' \in [submits : 0..MaxSubmits, interrupts : 0..MaxInterrupts, restarts : 0..MaxRestarts]
    BY <1>1, BoundAssumption DEF Halt, Within, TypeOK
  <2> QED
    BY <1>1, <2>2, <2>3, SaveType, SameChild DEF Halt, TypeOK
<1>2. CASE Restart
  <2>1. Unmade \in SessionRow
    BY EmptySeq DEF Unmade, SessionRow
  <2>2. \A s \in Sessions : Loaded(s) \in SessionRow
    <3>1. ASSUME NEW s \in Sessions PROVE Loaded(s) \in SessionRow
      <4>1. sess[s].made \in BOOLEAN /\ (store[s] # None => store[s] \in StoredRow)
        BY DEF TypeOK, SessionRow
      <4>2. CASE store[s] = None
        BY <2>1, <4>1, <4>2 DEF Loaded, SessionRow
      <4>3. CASE store[s] # None
        BY <2>1, <4>1, <4>3 DEF Loaded, SessionRow, StoredRow
      <4> QED
        BY <4>2, <4>3
    <3> QED
      BY <3>1
  <2>3. sess' \in [Sessions -> SessionRow]
    BY <1>2, <2>2 DEF Restart
  <2>4. used' \in [submits : 0..MaxSubmits, interrupts : 0..MaxInterrupts, restarts : 0..MaxRestarts]
    BY <1>2, BoundAssumption DEF Restart, Within, TypeOK
  <2>5. ChildKnown'
    BY <1>2 DEF Restart, ChildKnown, At
  <2> QED
    BY <1>2, <2>3, <2>4, <2>5 DEF Restart, TypeOK
<1>3. ASSUME NEW s \in Sessions, ResumeSession(s) PROVE TypeOK' /\ ChildKnown'
  <2>1. PICK u \in Threads : thread' = [thread EXCEPT ![u] = Worker(s, "resume")]
    BY <1>3 DEF ResumeSession
  <2>2. Worker(s, "resume") \in ThreadRow
    BY DEF Worker, ThreadRow, Places
  <2>3. sess' \in [Sessions -> SessionRow]
    <3>1. sess' = [sess EXCEPT ![s] = [sess[s] EXCEPT !.running = TRUE]]
      BY <1>3 DEF ResumeSession
    <3> QED
      BY <3>1, RowWrite, SessWrite DEF TypeOK
  <2>4. ChildKnown'
    BY <2>1 DEF ChildKnown, At, On, Worker, TypeOK
  <2> QED
    BY <1>3, <2>1, <2>2, <2>3, <2>4 DEF ResumeSession, TypeOK
<1> QED
  BY <1>1, <1>2, <1>3

(* Every step keeps the types.                                             *)
LEMMA TypeStep == ASSUME TypeOK, ChildKnown, [Next]_vars PROVE TypeOK' /\ ChildKnown'
<1>1. CASE Client
  BY <1>1, StartTypes, CallTypes DEF Client
<1>2. CASE Replier
  BY <1>2, CallTypes DEF Replier
<1>3. ASSUME NEW t \in Threads, WorkerStep(t) PROVE TypeOK' /\ ChildKnown'
  BY <1>3, LookTypes, FieldTypes, IdleTypes, TakeTypes, StartTypes DEF WorkerStep
<1>4. ASSUME NEW t \in Threads, ScriptStep(t) PROVE TypeOK' /\ ChildKnown'
  BY <1>4, LookTypes, FieldTypes, IdleTypes, TakeTypes, SpawnTypes DEF ScriptStep
<1>5. CASE Halt \/ Restart \/ \E s \in Sessions : ResumeSession(s)
  BY <1>5, LifeTypes
<1>6. CASE UNCHANGED vars
  BY <1>6, SameChild DEF vars, TypeOK
<1> QED
  BY <1>1, <1>2, <1>3, <1>4, <1>5, <1>6 DEF Next

(* The types hold at first.                                                *)
LEMMA TypeInit == Init => TypeOK /\ ChildKnown
<1> SUFFICES ASSUME Init PROVE TypeOK /\ ChildKnown
  OBVIOUS
<1>1. Unmade \in SessionRow
  BY EmptySeq DEF Unmade, SessionRow
<1>2. used \in [submits : 0..MaxSubmits, interrupts : 0..MaxInterrupts, restarts : 0..MaxRestarts]
  BY BoundAssumption DEF Init
<1> QED
  BY <1>1, <1>2 DEF Init, TypeOK, ChildKnown, At

(* The types of the engine's state hold in every state.                    *)
THEOREM TypeCorrect == Spec => []TypeOK
<1>1. TypeOK /\ ChildKnown /\ [Next]_vars => (TypeOK /\ ChildKnown)'
  BY TypeStep
<1> QED
  BY <1>1, TypeInit, PTL DEF Spec

-----------------------------------------------------------------------------
(* What the steps leave alone                                              *)

(* Row q is row r to the store and to _start.                              *)
Kept(r, q) ==
    /\ q.made = r.made /\ q.listed = r.listed /\ q.running = r.running
    /\ q.current = r.current /\ q.outcome = r.outcome /\ q.background = r.background

(* A worker stays, moves on or ends, and has not just spawned.             *)
MovesOn(t) ==
    \/ thread'[t] = thread[t] \/ thread'[t] = None
    \/ /\ thread[t] # None /\ thread'[t] # None
       /\ thread'[t].on = thread[t].on /\ thread'[t].at # "spawned"

Moved == \A t \in Threads : MovesOn(t)

(* A step that writes nothing the store holds.                             *)
Quiet == (\A s \in Sessions : Kept(sess[s], sess'[s])) /\ UNCHANGED <<store, boot>> /\ Moved

(* A step that saves, with nobody's worker started or ended.               *)
Saved ==
    /\ \A s \in Sessions : sess'[s].running = sess[s].running /\ (sess[s].made => sess'[s].made)
    /\ Save /\ UNCHANGED boot /\ Moved

(* A worker that moves on is the only one that moves.                      *)
LEMMA MoveMoved ==
    ASSUME TypeOK, NEW t \in Threads, thread[t] # None, NEW place \in Places \ {"spawned"},
           MoveTo(t, place)
    PROVE Moved
BY NoneAssumption DEF TypeOK, MoveTo, Moved, MovesOn, ThreadRow

(* So is a worker that ends.                                               *)
LEMMA GoneMoved == ASSUME TypeOK, NEW t \in Threads, thread' = Gone(t) PROVE Moved
BY DEF TypeOK, Gone, Moved, MovesOn

(* The fields that a row may change without the store being behind.        *)
LEMMA KeptFields ==
    ASSUME NEW row \in SessionRow
    PROVE /\ Kept(row, row)
          /\ \A v : Kept(row, [row EXCEPT !.holder = v]) /\ Kept(row, [row EXCEPT !.form = v])
          /\ \A v : Kept(row, [row EXCEPT !.ask = v]) /\ Kept(row, [row EXCEPT !.pending = v])
          /\ \A v : Kept(row, [row EXCEPT !.inbox = v])
          /\ \A v : Kept(row, [row EXCEPT !.holder = None, !.pending = v])
BY DEF Kept, SessionRow

(* One session written with such a field leaves every session's row kept.  *)
LEMMA KeptWrite ==
    ASSUME TypeOK, NEW s \in Sessions, NEW row, Kept(sess[s], row), sess' = [sess EXCEPT ![s] = row]
    PROVE \A d \in Sessions : Kept(sess[d], sess'[d])
BY DEF TypeOK, Kept

(* _cancel touches neither the list nor the running flag.                  *)
LEMMA CancelledKept == ASSUME NEW row \in SessionRow PROVE Kept(row, Cancelled(row))
BY DEF Cancelled, Kept, SessionRow

(* The steps that look and move on, or die, write nothing.                 *)
LEMMA LookQuiet ==
    ASSUME TypeOK, NEW t \in Threads,
           \/ Resume(t) \/ WorkerQuits(t) \/ TakeInbox(t) \/ RunCompact(t)
           \/ RefuseTurn(t) \/ SeesCancel(t) \/ CallTool(t) \/ RaiseFormLost(t)
           \/ PromptChildLost(t) \/ JoinChild(t) \/ JudgeEnd(t) \/ AfterFailure(t)
    PROVE Quiet
<1>1. Silent
  BY DEF Resume, WorkerQuits, TakeInbox, RunCompact, RefuseTurn, SeesCancel, CallTool,
         RaiseFormLost, PromptChildLost, JoinChild, JudgeEnd, AfterFailure
<1>2. CASE WorkerQuits(t) \/ RaiseFormLost(t) \/ PromptChildLost(t)
  <2>1. thread' = Gone(t)
    BY <1>2 DEF WorkerQuits, RaiseFormLost, PromptChildLost
  <2> QED
    BY <1>1, <2>1, GoneMoved DEF Quiet, Silent, Kept
<1>3. CASE ~(WorkerQuits(t) \/ RaiseFormLost(t) \/ PromptChildLost(t))
  <2>1. thread[t] # None
    BY <1>3 DEF Resume, TakeInbox, RunCompact, RefuseTurn, SeesCancel, CallTool, JoinChild,
                JudgeEnd, AfterFailure, At
  <2>2. \E place \in Places \ {"spawned"} : MoveTo(t, place)
    <3>1. CASE Resume(t)
      BY <3>1 DEF Resume, Places
    <3>2. CASE TakeInbox(t)
      BY <3>2 DEF TakeInbox, Places
    <3>3. CASE RunCompact(t)
      BY <3>3 DEF RunCompact, Places
    <3>4. CASE RefuseTurn(t)
      BY <3>4 DEF RefuseTurn, Places
    <3>5. CASE SeesCancel(t) \/ CallTool(t)
      BY <3>5 DEF SeesCancel, CallTool, Places
    <3>6. CASE JoinChild(t)
      BY <3>6 DEF JoinChild, Places
    <3>7. CASE JudgeEnd(t)
      BY <3>7 DEF JudgeEnd, Places
    <3>8. CASE AfterFailure(t)
      BY <3>8 DEF AfterFailure, Places
    <3> QED
      BY <1>3, <3>1, <3>2, <3>3, <3>4, <3>5, <3>6, <3>7, <3>8
  <2> QED
    BY <1>1, <2>1, <2>2, MoveMoved DEF Quiet, Silent, Kept
<1> QED
  BY <1>2, <1>3

(* The steps that write one unsaved field write nothing of the store.      *)
LEMMA FieldQuiet ==
    ASSUME TypeOK, NEW t \in Threads,
           \/ OpenTurn(t) \/ RaiseForm(t) \/ RequestPermission(t) \/ PermissionAnswered(t)
           \/ AwaitForm(t) \/ ScriptEnds(t) \/ PipeCloses(t) \/ TakePending(t) \/ TakeSteer(t)
    PROVE Quiet
<1> USE DEF At
<1>1. thread[t] # None /\ UNCHANGED <<store, boot>>
  BY DEF OpenTurn, RaiseForm, RequestPermission, PermissionAnswered, AwaitForm, ScriptEnds,
         PipeCloses, TakePending, TakeSteer
<1>2. On(t) \in Sessions /\ Me(t) \in SessionRow /\ Me(t) = sess[On(t)]
  BY <1>1, OnType DEF Me
<1>3. \E row : Kept(Me(t), row) /\ sess' = [sess EXCEPT ![On(t)] = row]
  <2>1. CASE OpenTurn(t) \/ ScriptEnds(t) \/ PipeCloses(t)
    <3>1. \E v : sess' = [sess EXCEPT ![On(t)] = [Me(t) EXCEPT !.holder = v]]
      BY <2>1 DEF OpenTurn, ScriptEnds, PipeCloses, Me
    <3> QED
      BY <1>2, <3>1, KeptFields
  <2>2. CASE RaiseForm(t) \/ AwaitForm(t)
    <3>1. \E v : sess' = [sess EXCEPT ![On(t)] = [Me(t) EXCEPT !.form = v]]
      BY <2>2 DEF RaiseForm, AwaitForm, Me
    <3> QED
      BY <1>2, <3>1, KeptFields
  <2>3. CASE RequestPermission(t) \/ PermissionAnswered(t)
    <3>1. \E v : sess' = [sess EXCEPT ![On(t)] = [Me(t) EXCEPT !.ask = v]]
      BY <2>3 DEF RequestPermission, PermissionAnswered, Me
    <3> QED
      BY <1>2, <3>1, KeptFields
  <2>4. CASE TakePending(t)
    <3>1. \E v : sess' = [sess EXCEPT ![On(t)] = [Me(t) EXCEPT !.pending = v]]
      BY <2>4 DEF TakePending, Me
    <3> QED
      BY <1>2, <3>1, KeptFields
  <2>5. CASE TakeSteer(t)
    <3>1. \E v : sess' = [sess EXCEPT ![On(t)] = [Me(t) EXCEPT !.holder = None, !.pending = v]]
      <4>1. PICK i \in 1..Len(Me(t).pending) :
              sess' = [sess EXCEPT ![On(t)].holder = None,
                 ![On(t)].pending = SubSeq(@, 1, i - 1) \o SubSeq(@, i + 1, Len(@))]
        BY <2>5 DEF TakeSteer
      <4> QED
        BY <1>2, <4>1 DEF Me, SessionRow, TypeOK
    <3> QED
      BY <1>2, <3>1, KeptFields
  <2> QED
    BY <2>1, <2>2, <2>3, <2>4, <2>5
<1>4. \A d \in Sessions : Kept(sess[d], sess'[d])
  BY <1>2, <1>3, KeptWrite
<1>5. \E place \in Places \ {"spawned"} : MoveTo(t, place)
  <2>1. CASE PermissionAnswered(t)
    BY <2>1 DEF PermissionAnswered, Places
  <2>2. CASE AwaitForm(t)
    BY <2>2 DEF AwaitForm, Places
  <2>3. CASE TakePending(t)
    BY <2>3 DEF TakePending, Places
  <2> QED
    BY <2>1, <2>2, <2>3 DEF OpenTurn, RaiseForm, RequestPermission, ScriptEnds, PipeCloses,
                            TakeSteer, Places
<1> QED
  BY <1>1, <1>4, <1>5, MoveMoved DEF Quiet

(* The API calls that save nothing change nothing the store holds.         *)
LEMMA CallQuiet ==
    ASSUME TypeOK, NEW s \in Sessions,
           \/ Interrupt(s) \/ CancelForm(s)
           \/ \E decision \in Replies : ReplyPermission(s, decision)
    PROVE Quiet
<1>1. UNCHANGED <<thread, store, boot>>
  BY DEF Interrupt, CancelForm, ReplyPermission
<1>2. \A d \in Sessions : Kept(sess[d], sess'[d])
  <2>1. CASE Interrupt(s)
    <3>1. \A d \in Sessions : sess'[d] = sess[d] \/ sess'[d] = Cancelled(sess[d])
      BY <2>1 DEF Interrupt, CancelTree
    <3> QED
      BY ZenonT(60), <3>1, CancelledKept, KeptFields DEF TypeOK
  <2>2. CASE CancelForm(s)
    <3>1. sess' = [sess EXCEPT ![s] = [sess[s] EXCEPT !.form = "settled"]] /\ sess[s] \in SessionRow
      BY <2>2 DEF CancelForm, TypeOK
    <3> QED
      BY <3>1, KeptFields, KeptWrite
  <2>3. CASE \E decision \in Replies : ReplyPermission(s, decision)
    <3>1. \E v : sess' = [sess EXCEPT ![s] = [sess[s] EXCEPT !.ask = v]]
      BY <2>3 DEF ReplyPermission
    <3>2. sess[s] \in SessionRow
      BY DEF TypeOK
    <3> QED
      BY <3>1, <3>2, KeptFields, KeptWrite
  <2> QED
    BY <2>1, <2>2, <2>3
<1> QED
  BY <1>1, <1>2 DEF Quiet, Moved, MovesOn

(* The turn's ends, and the beginning of one, save.                        *)
LEMMA TurnSaved ==
    ASSUME TypeOK, NEW t \in Threads,
           \/ TurnInterrupted(t) \/ TurnFails(t) \/ TurnSucceeds(t) \/ ScriptFails(t)
           \/ UserMessage(t) \/ Declined(t)
           \/ DeliverInbox(t) /\ ~Silent
    PROVE Saved
<1> USE DEF At
<1>1. thread[t] # None /\ Save /\ UNCHANGED boot
  BY DEF TurnInterrupted, TurnFails, TurnSucceeds, ScriptFails, Idle, UserMessage, Declined,
         DeliverInbox
<1>2. On(t) \in Sessions /\ Me(t) \in SessionRow /\ Me(t) = sess[On(t)]
  BY <1>1, OnType DEF Me
<1>3. \E row : /\ row.running = Me(t).running /\ row.made = Me(t).made
               /\ sess' = [sess EXCEPT ![On(t)] = row]
  <2>1. CASE TurnInterrupted(t) \/ TurnFails(t) \/ TurnSucceeds(t) \/ ScriptFails(t)
    <3>1. \E outcome : sess' = [sess EXCEPT ![On(t)] = Idled(Me(t), outcome)]
      BY <2>1 DEF TurnInterrupted, TurnFails, TurnSucceeds, ScriptFails, Idle, Me
    <3>2. \A outcome : /\ Idled(Me(t), outcome).running = Me(t).running
                       /\ Idled(Me(t), outcome).made = Me(t).made
      BY <1>2 DEF Idled, SessionRow
    <3> QED
      BY <3>1, <3>2
  <2>2. CASE UserMessage(t)
    <3>1. sess' = [sess EXCEPT ![On(t)] = [Me(t) EXCEPT !.current = TRUE, !.cancel = FALSE]]
      BY <1>2, <2>2 DEF UserMessage, Me, TypeOK, SessionRow
    <3> QED
      BY <1>2, <3>1 DEF SessionRow
  <2>3. CASE Declined(t)
    <3>1. sess' = [sess EXCEPT ![On(t)] =
                     [Me(t) EXCEPT !.ask = None, !.current = FALSE, !.holder = None]]
      BY <1>2, <2>3 DEF Declined, Me, TypeOK, SessionRow
    <3> QED
      BY <1>2, <3>1 DEF SessionRow
  <2>4. CASE DeliverInbox(t) /\ ~Silent
    <3>1. sess' = [sess EXCEPT ![On(t)] = [Me(t) EXCEPT !.inbox = Tail(Me(t).inbox)]]
      BY <2>4 DEF DeliverInbox, Me
    <3> QED
      BY <1>2, <3>1 DEF SessionRow
  <2> QED
    BY <2>1, <2>2, <2>3, <2>4
<1>4. \A s \in Sessions : sess'[s].running = sess[s].running /\ (sess[s].made => sess'[s].made)
  BY <1>2, <1>3 DEF TypeOK
<1>5. \E place \in Places \ {"spawned"} : MoveTo(t, place)
  <2>1. CASE TurnSucceeds(t)
    BY <2>1 DEF TurnSucceeds, Idle, Places
  <2>2. CASE DeliverInbox(t)
    BY <2>2 DEF DeliverInbox, Places
  <2> QED
    BY <2>1, <2>2 DEF TurnInterrupted, TurnFails, ScriptFails, Idle, UserMessage, Declined, Places
<1> QED
  BY <1>1, <1>4, <1>5, MoveMoved DEF Saved

(* create, remove and halt save.                                           *)
LEMMA CallSaved ==
    ASSUME TypeOK, (\E s \in Sessions : Create(s) \/ Remove(s)) \/ Halt
    PROVE Saved
<1>1. Save /\ UNCHANGED <<thread, boot>>
  BY DEF Create, Remove, Halt
<1>2. \A s \in Sessions : sess'[s].running = sess[s].running /\ (sess[s].made => sess'[s].made)
  <2>1. ASSUME NEW s \in Sessions, Create(s)
        PROVE \A d \in Sessions : sess'[d].running = sess[d].running /\ (sess[d].made => sess'[d].made)
    <3>1. sess' = [sess EXCEPT ![s] = [sess[s] EXCEPT !.made = TRUE, !.listed = TRUE]]
      BY <2>1 DEF Create, TypeOK, SessionRow
    <3> QED
      BY <3>1 DEF TypeOK, SessionRow
  <2>2. ASSUME NEW s \in Sessions, Remove(s)
        PROVE \A d \in Sessions : sess'[d].running = sess[d].running /\ (sess[d].made => sess'[d].made)
    <3>1. \A d \in Sessions :
             sess'[d] = sess[d] \/ sess'[d] = [Cancelled(sess[d]) EXCEPT !.listed = FALSE]
      BY <2>2 DEF Remove
    <3>2. \A d \in Sessions :
             /\ [Cancelled(sess[d]) EXCEPT !.listed = FALSE].running = sess[d].running
             /\ [Cancelled(sess[d]) EXCEPT !.listed = FALSE].made = sess[d].made
      BY CancelledKept, CancelledType DEF TypeOK, Kept, SessionRow
    <3> QED
      BY <3>1, <3>2
  <2>3. ASSUME Halt
        PROVE \A d \in Sessions : sess'[d].running = sess[d].running /\ (sess[d].made => sess'[d].made)
    BY ZenonT(60), <2>3 DEF Halt, TypeOK, SessionRow
  <2> QED
    BY <2>1, <2>2, <2>3
<1> QED
  BY <1>1, <1>2 DEF Saved, Moved, MovesOn

(* What _start did when it started a worker for s, who asked for it, and   *)
(* what the caller's own thread did.                                       *)
Started(s) ==
    /\ ~sess[s].running /\ sess'[s].running /\ (sess[s].made => sess'[s].made)
    /\ \A d \in Sessions \ {s} : sess'[d] = sess[d]
    /\ \E u \in Threads : /\ thread[u] = None /\ thread'[u] = Worker(s, "loop")
                          /\ \A t \in Threads \ {u} : MovesOn(t)
    /\ Save /\ UNCHANGED boot
    /\ \/ Listening
       \/ \E t \in Threads : At(t, "spawned") /\ thread[t].child = s
       \/ \E t \in Threads : thread[t] # None /\ Parent[On(t)] = s

(* _start of a row that differs from the session's own in its queues only. *)
LEMMA StartEffect ==
    ASSUME TypeOK, NEW s \in Sessions, NEW row \in SessionRow, Kept(sess[s], row),
           NEW others \in [Threads -> ThreadRow \cup {None}], Start(s, row, others)
    PROVE \/ /\ \A d \in Sessions : Kept(sess[d], sess'[d])
             /\ store' = store /\ thread' = others
          \/ /\ ~sess[s].running /\ sess'[s].running /\ sess'[s].made = sess[s].made
             /\ \A d \in Sessions \ {s} : sess'[d] = sess[d]
             /\ \E u \in Threads : thread[u] = None /\ thread' = [others EXCEPT ![u] = Worker(s, "loop")]
             /\ Save
<1>1. CASE NeedsWorker(row)
  <2>1. PICK u \in Threads :
           /\ IsFree(u) /\ Save
           /\ sess' = [sess EXCEPT ![s] = [row EXCEPT !.running = TRUE, !.cancel = FALSE]]
           /\ thread' = [others EXCEPT ![u] = Worker(s, "loop")]
    BY <1>1 DEF Start
  <2>2. /\ sess'[s] = [row EXCEPT !.running = TRUE, !.cancel = FALSE]
        /\ \A d \in Sessions \ {s} : sess'[d] = sess[d]
    BY <2>1 DEF TypeOK
  <2>3. [row EXCEPT !.running = TRUE, !.cancel = FALSE].running
        /\ [row EXCEPT !.running = TRUE, !.cancel = FALSE].made = row.made
    BY DEF SessionRow
  <2> QED
    BY <1>1, <2>1, <2>2, <2>3 DEF NeedsWorker, Kept, IsFree
<1>2. CASE ~NeedsWorker(row)
  <2>1. sess' = [sess EXCEPT ![s] = row] /\ store' = store /\ thread' = others
    BY <1>2 DEF Start
  <2> QED
    BY <2>1, KeptWrite
<1> QED
  BY <1>1, <1>2

(* A prompt, a spawned child's prompt and a child's report either leave    *)
(* the running worker to find the entry or start one.                      *)
LEMMA StartStarted ==
    ASSUME TypeOK, ChildKnown,
           \/ \E s \in Sessions, kind \in Kinds : Submit(s, kind)
           \/ \E t \in Threads : PromptChild(t) \/ ChildReports(t)
    PROVE Quiet \/ \E s \in Sessions : Started(s)
<1>1. ASSUME NEW s \in Sessions, NEW kind \in Kinds, Submit(s, kind)
      PROVE Quiet \/ Started(s)
  <2> DEFINE queue == Append(sess[s].pending, kind)
             row == [sess[s] EXCEPT !.pending = queue]
  <2>1. sess[s] \in SessionRow /\ sess[s].pending \in Seq({"prompt", "steer", "compact"})
        /\ thread \in [Threads -> ThreadRow \cup {None}]
    BY DEF TypeOK, SessionRow
  <2>2. queue \in Seq({"prompt", "steer", "compact"})
    BY <2>1, QueueTypes, BoundAssumption
  <2> HIDE DEF queue
  <2>3. row \in SessionRow
    BY <2>1, <2>2 DEF SessionRow
  <2>4. Kept(sess[s], row)
    BY <2>1, KeptFields
  <2>5. Start(s, row, thread) /\ Listening /\ UNCHANGED boot
    BY <1>1 DEF Submit, queue
  <2> HIDE DEF row
  <2> QED
    BY <2>1, <2>3, <2>4, <2>5, StartEffect DEF Quiet, Started, Moved, MovesOn
<1>2. ASSUME NEW t \in Threads, PromptChild(t)
      PROVE Quiet \/ \E s \in Sessions : Started(s)
  <2> DEFINE c == thread[t].child
             place == IF sess[c].background THEN "run" ELSE "joining"
             queue == Append(sess[c].pending, "prompt")
             row == [sess[c] EXCEPT !.pending = queue]
             others == [thread EXCEPT ![t].at = place]
  <2>1. thread[t] # None /\ thread[t].at = "spawned" /\ Start(c, row, others) /\ UNCHANGED boot
    BY <1>2 DEF PromptChild, At
  <2>2. c \in Sessions
    BY <2>1 DEF ChildKnown, At, On
  <2>3. sess[c] \in SessionRow /\ sess[c].pending \in Seq({"prompt", "steer", "compact"})
    BY <2>2 DEF TypeOK, SessionRow
  <2>4. queue \in Seq({"prompt", "steer", "compact"})
    BY <2>3, QueueTypes
  <2>5. place \in Places \ {"spawned"}
    BY DEF Places
  <2> HIDE DEF queue, place
  <2>6. row \in SessionRow
    BY <2>3, <2>4 DEF SessionRow
  <2>7. Kept(sess[c], row)
    BY <2>3, KeptFields
  <2>8. others \in [Threads -> ThreadRow \cup {None}]
    BY <2>1, <2>5, NoneAssumption DEF TypeOK, ThreadRow
  <2>9. \A v \in Threads : \/ others[v] = thread[v]
                           \/ /\ thread[v] # None /\ others[v] # None
                              /\ others[v].on = thread[v].on /\ others[v].at # "spawned"
    BY <2>1, <2>5, NoneAssumption DEF TypeOK, ThreadRow
  <2>10. At(t, "spawned") /\ thread[t].child = c
    BY <2>1 DEF At
  <2> HIDE DEF c, row, others
  <2> QED
    BY SMTT(30), <2>1, <2>2, <2>6, <2>7, <2>8, <2>9, <2>10, StartEffect DEF Quiet, Started, Moved, MovesOn
<1>3. ASSUME NEW t \in Threads, ChildReports(t)
      PROVE Quiet \/ \E s \in Sessions : Started(s)
  <2> DEFINE c == On(t)
             p == Parent[c]
             queue == Append(sess[p].inbox, c)
             row == [sess[p] EXCEPT !.inbox = queue]
             others == [thread EXCEPT ![t].at = "loop"]
  <2>1. thread[t] # None /\ UNCHANGED boot /\ c \in Sessions
    BY <1>3, OnType DEF ChildReports, At
  <2>2. CASE p # None /\ sess[p].listed /\ sess[c].background
    <3>1. Start(p, row, others)
      BY <1>3, <2>2 DEF ChildReports
    <3>2. p \in Sessions
      BY <2>1, <2>2, ForestAssumption
    <3>3. sess[p] \in SessionRow /\ sess[p].inbox \in Seq(Sessions)
      BY <3>2 DEF TypeOK, SessionRow
    <3>4. queue \in Seq(Sessions)
      BY <2>1, <3>3, QueueTypes
    <3>5. others \in [Threads -> ThreadRow \cup {None}]
      BY <2>1, NoneAssumption DEF TypeOK, ThreadRow, Places
    <3>6. \A v \in Threads : \/ others[v] = thread[v]
                             \/ /\ thread[v] # None /\ others[v] # None
                                /\ others[v].on = thread[v].on /\ others[v].at # "spawned"
      BY <2>1, NoneAssumption DEF TypeOK, ThreadRow, Places
    <3> HIDE DEF queue
    <3>7. row \in SessionRow
      BY <3>3, <3>4 DEF SessionRow
    <3>8. Kept(sess[p], row)
      BY <3>3, KeptFields
    <3>9. thread[t] # None /\ Parent[On(t)] = p
      BY <2>1
    <3> HIDE DEF p, row, others
    <3> QED
      BY <2>1, <3>1, <3>2, <3>5, <3>6, <3>7, <3>8, <3>9, StartEffect
      DEF Quiet, Started, Moved, MovesOn
  <2>3. CASE ~(p # None /\ sess[p].listed /\ sess[c].background)
    <3>1. MoveTo(t, "loop") /\ UNCHANGED <<sess, store>>
      BY <1>3, <2>3 DEF ChildReports
    <3>2. "loop" \in Places \ {"spawned"}
      BY DEF Places
    <3> QED
      BY <2>1, <3>1, <3>2, MoveMoved DEF Quiet, Kept
  <2> QED
    BY <2>2, <2>3
<1> QED
  BY <1>1, <1>2, <1>3

(* The steps of the engine, by what they do to the workers and the store:  *)
(* nothing, a save, a worker started, a worker's exit, a child created, a  *)
(* restart or a resume.                                                    *)
LEMMA StepKinds ==
    ASSUME TypeOK, ChildKnown, [Next]_vars
    PROVE \/ Quiet \/ Saved \/ Restart
          \/ \E s \in Sessions : Started(s) \/ ResumeSession(s)
          \/ \E t \in Threads : WorkerExits(t)
          \/ \E t \in Threads, c \in Sessions, background \in Modes : SpawnChild(t, c, background)
<1>1. CASE Client
  BY <1>1, StartStarted, CallQuiet, CallSaved DEF Client
<1>2. CASE Replier
  BY <1>2, CallQuiet DEF Replier
<1>3. ASSUME NEW t \in Threads, WorkerStep(t)
      PROVE Quiet \/ Saved \/ WorkerExits(t) \/ \E s \in Sessions : Started(s)
  <2>1. CASE DeliverInbox(t) /\ Silent
    <3>1. thread[t] # None /\ \E place \in Places \ {"spawned"} : MoveTo(t, place)
      BY <2>1 DEF DeliverInbox, At, Places
    <3> QED
      BY <2>1, <3>1, MoveMoved DEF Quiet, Silent, Kept
  <2>2. CASE DeliverInbox(t) /\ ~Silent
    BY <2>2, TurnSaved
  <2> QED
    BY <1>3, <2>1, <2>2, LookQuiet, FieldQuiet, TurnSaved, StartStarted DEF WorkerStep
<1>4. ASSUME NEW t \in Threads, ScriptStep(t)
      PROVE \/ Quiet \/ Saved
            \/ \E c \in Sessions, background \in Modes : SpawnChild(t, c, background)
  BY <1>4, LookQuiet, FieldQuiet, TurnSaved DEF ScriptStep
<1>5. CASE Halt
  BY <1>5, CallSaved
<1>6. CASE UNCHANGED vars
  BY <1>6 DEF vars, Quiet, Kept, Moved, MovesOn
<1> QED
  BY <1>1, <1>2, <1>3, <1>4, <1>5, <1>6 DEF Next

-----------------------------------------------------------------------------
(* The store                                                               *)

(* A record of the store with its running flag written.                    *)
LEMMA Remarked ==
    ASSUME NEW row \in StoredRow, NEW b
    PROVE [row EXCEPT !.running = b] = [running |-> b, current |-> row.current,
                                        outcome |-> row.outcome, background |-> row.background]
BY DEF StoredRow

(* A save leaves the store with what the sessions are.                     *)
LEMMA SaveMatches == ASSUME TypeOK', Save PROVE StoreMatches'
<1> SUFFICES ASSUME NEW s \in Sessions
             PROVE /\ (store'[s] # None) <=> sess'[s].listed
                   /\ sess'[s].listed =>
                        /\ [store'[s] EXCEPT !.running = sess'[s].running] = Stored(sess'[s])
                        /\ store'[s].running = sess'[s].running
  BY DEF StoreMatches
<1>1. store'[s] = Stored(sess'[s]) /\ sess'[s] \in SessionRow
  BY DEF Save, TypeOK
<1>2. sess'[s].listed => Stored(sess'[s]) \in StoredRow /\ Stored(sess'[s]).running = sess'[s].running
  BY <1>1 DEF Stored, SessionRow, StoredRow
<1>3. ~sess'[s].listed => Stored(sess'[s]) = None
  BY DEF Stored
<1>4. ASSUME NEW row \in StoredRow PROVE [row EXCEPT !.running = row.running] = row
  BY DEF StoredRow
<1> QED
  BY <1>1, <1>2, <1>3, <1>4, NoneAssumption

(* A step that changes nothing the store holds keeps the store in step.    *)
LEMMA QuietMatches == ASSUME TypeOK, StoreMatches, Quiet PROVE StoreMatches'
<1> SUFFICES ASSUME NEW s \in Sessions
             PROVE /\ (store'[s] # None) <=> sess'[s].listed
                   /\ sess'[s].listed =>
                        /\ [store'[s] EXCEPT !.running = sess'[s].running] = Stored(sess'[s])
                        /\ store'[s].running => (sess'[s].running \/ s \in Waiting')
                        /\ sess'[s].running => (store'[s].running \/ boot'[s] = "resumed")
  BY DEF StoreMatches
<1>1. store'[s] = store[s] /\ boot'[s] = boot[s] /\ Waiting' = Waiting /\ Kept(sess[s], sess'[s])
  BY DEF Quiet, Waiting
<1>2. Stored(sess'[s]) = Stored(sess[s])
  BY SMTT(30), <1>1 DEF Kept, Stored
<1> QED
  BY <1>1, <1>2 DEF StoreMatches, Kept

(* Every step keeps the store in step with the sessions.                   *)
LEMMA StoreStep ==
    ASSUME TypeOK, TypeOK', ChildKnown, StoreMatches, [Next]_vars
    PROVE StoreMatches'
<1>1. CASE Quiet
  BY <1>1, QuietMatches
<1>2. CASE Save
  BY <1>2, SaveMatches
<1>3. CASE Restart
  <2> SUFFICES ASSUME NEW s \in Sessions
               PROVE /\ (store'[s] # None) <=> sess'[s].listed
                     /\ sess'[s].listed =>
                          /\ [store'[s] EXCEPT !.running = sess'[s].running] = Stored(sess'[s])
                          /\ store'[s].running => s \in Waiting'
                          /\ ~sess'[s].running
    BY DEF StoreMatches
  <2>1. sess'[s] = Loaded(s) /\ store' = store
    BY <1>3 DEF Restart
  <2>2. CASE store[s] = None
    BY <2>1, <2>2 DEF Loaded, Unmade
  <2>3. CASE store[s] # None
    <3>1. store[s] \in StoredRow
      BY <2>3 DEF TypeOK
    <3>2. /\ Loaded(s).listed /\ ~Loaded(s).running
          /\ Stored(Loaded(s)) = [running |-> FALSE, current |-> store[s].current,
                                  outcome |-> store[s].outcome,
                                  background |-> store[s].background]
      BY <2>3 DEF Loaded, Unmade, Stored
    <3>3. [store[s] EXCEPT !.running = FALSE] = Stored(Loaded(s)) /\ Loaded(s).running = FALSE
      BY <3>1, <3>2, <2>3, Remarked DEF Loaded, Unmade
    <3>4. store[s].running => s \in Waiting'
      BY <1>3, <2>3 DEF Restart, WasRunning, Waiting
    <3> QED
      BY <2>1, <2>3, <3>2, <3>3, <3>4
  <2> QED
    BY <2>2, <2>3
<1>4. ASSUME NEW r \in Sessions, ResumeSession(r) PROVE StoreMatches'
  <2> SUFFICES ASSUME NEW s \in Sessions
               PROVE /\ (store'[s] # None) <=> sess'[s].listed
                     /\ sess'[s].listed =>
                          /\ [store'[s] EXCEPT !.running = sess'[s].running] = Stored(sess'[s])
                          /\ store'[s].running => (sess'[s].running \/ s \in Waiting')
                          /\ sess'[s].running => (store'[s].running \/ boot'[s] = "resumed")
    BY DEF StoreMatches
  <2>1. /\ store' = store /\ boot' = [boot EXCEPT ![r] = "resumed"]
        /\ sess' = [sess EXCEPT ![r] = [sess[r] EXCEPT !.running = TRUE]]
    BY <1>4 DEF ResumeSession
  <2>2. CASE s # r
    BY <2>1, <2>2 DEF StoreMatches, Waiting, TypeOK
  <2>3. CASE s = r
    <3>1. sess'[s] = [sess[s] EXCEPT !.running = TRUE] /\ boot'[s] = "resumed"
      BY <2>1, <2>3 DEF TypeOK
    <3>2. /\ sess[s] \in SessionRow /\ sess'[s].listed = sess[s].listed
          /\ sess'[s].running = TRUE /\ sess'[s].current = sess[s].current
          /\ sess'[s].outcome = sess[s].outcome /\ sess'[s].background = sess[s].background
      BY <3>1 DEF TypeOK, SessionRow
    <3>3. (store[s] # None) <=> sess[s].listed
      BY DEF StoreMatches
    <3>4. ASSUME sess[s].listed
          PROVE [store[s] EXCEPT !.running = TRUE] = Stored(sess'[s])
      <4>1. store[s] \in StoredRow
        BY <3>3, <3>4 DEF TypeOK
      <4>2. [store[s] EXCEPT !.running = sess[s].running] = Stored(sess[s])
        BY <3>4 DEF StoreMatches
      <4>3. store[s].current = sess[s].current /\ store[s].outcome = sess[s].outcome
            /\ store[s].background = sess[s].background
        BY <3>4, <4>1, <4>2 DEF Stored, StoredRow
      <4>4. Stored(sess'[s]) = [running |-> TRUE, current |-> store[s].current,
                                outcome |-> store[s].outcome, background |-> store[s].background]
        BY <3>2, <3>4, <4>3 DEF Stored
      <4> QED
        BY <4>1, <4>4, Remarked
    <3> QED
      BY <2>1, <3>1, <3>2, <3>3, <3>4
  <2> QED
    BY <2>2, <2>3
<1> QED
  BY <1>1, <1>2, <1>3, <1>4, StepKinds DEF Saved, Started, WorkerExits, SaveAtExit, SpawnChild

(* Nothing exists and nothing is on file at first.                         *)
LEMMA StoreInit == Init => StoreMatches
BY DEF Init, StoreMatches, Unmade

(* The store is never behind, whatever calls, workers, signals, crashes    *)
(* and resumes come in which order: what a crash finds on file is what the *)
(* engine held, but for the running flag of a session just resumed.        *)
THEOREM StoreUpToDate == Spec => []StoreMatches
<1>1. TypeOK /\ ChildKnown /\ StoreMatches /\ [Next]_vars
        => (TypeOK /\ ChildKnown /\ StoreMatches)'
  BY TypeStep, StoreStep
<1> QED
  BY <1>1, TypeInit, StoreInit, PTL DEF Spec

-----------------------------------------------------------------------------
(* One worker a session                                                    *)

(* The sessions with a worker and all above them are done waiting.  The    *)
(* set is named by what it is closed under: `above` is not a definition a  *)
(* prover can unfold.                                                      *)
Clear(A) ==
    /\ \A s \in A : Parent[s] = None \/ Parent[s] \in A
    /\ A \cap Waiting = {}
    /\ \A t \in Threads : thread[t] # None => On(t) \in A

(* One worker is inductive with: a worker's session is marked running; a   *)
(* session that waits for its resume exists, is not running and has none   *)
(* below it at work; a child just spawned does not wait.                   *)
WorkerInv ==
    /\ OneWorker
    /\ \A t \in Threads : thread[t] # None => sess[On(t)].running
    /\ \A s \in Waiting : sess[s].made /\ ~sess[s].running
    /\ \A t \in Threads : At(t, "spawned") => thread[t].child \notin Waiting
    /\ \E A \in SUBSET Sessions : Clear(A)

(* Steps that start no worker and leave the running flags alone keep it.   *)
LEMMA KeepsWorkers ==
    ASSUME TypeOK, WorkerInv, Moved, UNCHANGED boot,
           \A s \in Sessions : sess'[s].running = sess[s].running /\ (sess[s].made => sess'[s].made)
    PROVE WorkerInv'
<1>1. \A t \in Threads : thread'[t] # None => thread[t] # None /\ On(t)' = On(t)
  BY DEF Moved, MovesOn, On
<1>2. Waiting' = Waiting
  BY DEF Waiting
<1>3. OneWorker'
  BY <1>1 DEF WorkerInv, OneWorker
<1>4. \A t \in Threads : thread'[t] # None => sess'[On(t)'].running
  BY <1>1, OnType DEF WorkerInv
<1>5. \A s \in Waiting' : sess'[s].made /\ ~sess'[s].running
  BY <1>2 DEF WorkerInv, Waiting
<1>6. \A t \in Threads : At(t, "spawned")' => thread'[t].child \notin Waiting'
  BY <1>2 DEF WorkerInv, At, Moved, MovesOn
<1>7. \A A \in SUBSET Sessions : Clear(A) => Clear(A)'
  BY <1>1, <1>2 DEF Clear
<1> QED
  BY <1>3, <1>4, <1>5, <1>6, <1>7 DEF WorkerInv

(* A worker is started only for a session that has none and does not wait. *)
LEMMA StartedWorkers ==
    ASSUME TypeOK, ChildKnown, WorkerInv, NEW s \in Sessions, Started(s)
    PROVE WorkerInv'
<1>1. PICK u \in Threads : /\ thread[u] = None /\ thread'[u] = Worker(s, "loop")
                           /\ \A t \in Threads \ {u} : MovesOn(t)
  BY DEF Started
<1>2. thread'[u] # None /\ On(u)' = s /\ ~At(u, "spawned")'
  <2>1. Worker(s, "loop") \in ThreadRow
    BY DEF Worker, ThreadRow, Places
  <2> QED
    BY <1>1, <2>1, NoneAssumption DEF Worker, On, At
<1>3. \A t \in Threads \ {u} : thread'[t] # None => thread[t] # None /\ On(t)' = On(t)
  BY <1>1 DEF MovesOn, On
<1>4. Waiting' = Waiting
  BY DEF Started, Waiting
<1>5. \A t \in Threads : thread[t] # None => On(t) # s
  BY DEF WorkerInv, Started
<1>6. OneWorker'
  BY <1>2, <1>3, <1>5 DEF WorkerInv, OneWorker
<1>7. \A t \in Threads : thread'[t] # None => sess'[On(t)'].running
  <2>1. \A t \in Threads \ {u} : thread'[t] # None => sess'[On(t)'].running
    BY <1>3, <1>5, OnType DEF WorkerInv, Started
  <2> QED
    BY <1>2, <2>1 DEF Started
<1>8. \A t \in Threads : At(t, "spawned")' => thread'[t].child \notin Waiting'
  BY <1>1, <1>2, <1>4 DEF WorkerInv, At, MovesOn
<1>9. PICK A \in SUBSET Sessions : Clear(A)
  BY DEF WorkerInv
<1>10. \E B \in SUBSET Sessions : s \in B /\ Clear(B)
  <2>1. CASE Listening
    <3>1. Clear(Sessions)
      BY <2>1, ForestAssumption, OnType DEF Clear, Listening
    <3> QED
      BY <3>1
  <2>2. ASSUME NEW t \in Threads, At(t, "spawned"), thread[t].child = s
        PROVE \E B \in SUBSET Sessions : s \in B /\ Clear(B)
    <3>1. Parent[s] = On(t) /\ On(t) \in A /\ s \notin Waiting
      BY <1>9, <2>2 DEF ChildKnown, WorkerInv, Clear, At
    <3>2. Clear(A \cup {s})
      BY <1>9, <3>1 DEF Clear
    <3> QED
      BY <3>2
  <2>3. ASSUME NEW t \in Threads, thread[t] # None, Parent[On(t)] = s
        PROVE s \in A
    BY <1>9, <2>3, NoneAssumption DEF Clear
  <2> QED
    BY <1>9, <2>1, <2>2, <2>3 DEF Started
<1>11. \E B \in SUBSET Sessions : s \in B /\ Clear(B)'
  <2>1. ASSUME NEW B \in SUBSET Sessions, s \in B, Clear(B) PROVE Clear(B)'
    BY <1>2, <1>3, <1>4, <2>1 DEF Clear
  <2> QED
    BY <1>10, <2>1
<1>12. \A d \in Waiting' : sess'[d].made /\ ~sess'[d].running
  <2>1. s \notin Waiting
    BY <1>10 DEF Clear
  <2> QED
    BY <1>4, <2>1 DEF WorkerInv, Started, Waiting
<1> QED
  BY <1>6, <1>7, <1>8, <1>11, <1>12 DEF WorkerInv

(* A worker that exits is its session's only one.                          *)
LEMMA ExitWorkers ==
    ASSUME TypeOK, WorkerInv, NEW t \in Threads, WorkerExits(t)
    PROVE WorkerInv'
<1>1. thread[t] # None /\ thread' = [thread EXCEPT ![t] = None] /\ boot' = boot
  BY DEF WorkerExits, At, Gone
<1>2. On(t) \in Sessions /\ Me(t) \in SessionRow
  BY <1>1, OnType
<1>3. sess' = [sess EXCEPT ![On(t)] = [Me(t) EXCEPT !.running = FALSE, !.current = FALSE]]
  BY <1>2 DEF WorkerExits, Me, TypeOK, SessionRow
<1>4. /\ \A d \in Sessions \ {On(t)} : sess'[d] = sess[d]
      /\ ~sess'[On(t)].running /\ sess'[On(t)].made = sess[On(t)].made
  BY <1>2, <1>3 DEF TypeOK, SessionRow, Me
<1>5. Waiting' = Waiting
  BY <1>1 DEF Waiting
<1>6. thread'[t] = None /\ \A v \in Threads \ {t} : thread'[v] = thread[v]
  BY <1>1 DEF TypeOK
<1>7. OneWorker'
  BY <1>6 DEF WorkerInv, OneWorker, On
<1>8. \A v \in Threads : thread'[v] # None => sess'[On(v)'].running
  <2>1. ASSUME NEW v \in Threads, thread'[v] # None
        PROVE v # t /\ thread[v] # None /\ On(v)' = On(v) /\ On(v) # On(t)
    BY <1>1, <1>6, <2>1 DEF WorkerInv, OneWorker, On
  <2> QED
    BY <1>4, <2>1, OnType DEF WorkerInv
<1>9. \A d \in Waiting' : sess'[d].made /\ ~sess'[d].running
  BY <1>4, <1>5 DEF WorkerInv, Waiting
<1>10. \A v \in Threads : At(v, "spawned")' => thread'[v].child \notin Waiting'
  BY <1>5, <1>6 DEF WorkerInv, At
<1>11. \A A \in SUBSET Sessions : Clear(A) => Clear(A)'
  BY <1>5, <1>6 DEF Clear, On
<1> QED
  BY <1>7, <1>8, <1>9, <1>10, <1>11 DEF WorkerInv

(* A child is created on an id that never was, so it does not wait.        *)
LEMMA SpawnWorkers ==
    ASSUME TypeOK, WorkerInv, NEW t \in Threads, NEW c \in Sessions, NEW background \in Modes,
           SpawnChild(t, c, background)
    PROVE WorkerInv'
<1>1. thread[t] # None /\ boot' = boot /\ ~sess[c].made
  BY DEF SpawnChild, At
<1>2. sess' = [sess EXCEPT ![c] = [sess[c] EXCEPT !.made = TRUE, !.listed = TRUE,
                                                 !.background = background]]
  BY DEF SpawnChild, TypeOK, SessionRow
<1>3. \A d \in Sessions : sess'[d].running = sess[d].running /\ (sess[d].made => sess'[d].made)
  BY <1>2 DEF TypeOK, SessionRow
<1>4. thread' = [thread EXCEPT ![t] = [thread[t] EXCEPT !.at = "spawned", !.child = c]]
  BY <1>1 DEF SpawnChild, TypeOK, ThreadRow
<1>5. /\ thread'[t].on = thread[t].on /\ thread'[t].child = c
      /\ \A v \in Threads \ {t} : thread'[v] = thread[v]
  BY <1>1, <1>4 DEF TypeOK, ThreadRow
<1>6. Waiting' = Waiting /\ c \notin Waiting
  BY <1>1 DEF Waiting, WorkerInv
<1>7. \A v \in Threads : thread'[v] # None => thread[v] # None /\ On(v)' = On(v)
  BY <1>1, <1>5 DEF On
<1>8. OneWorker'
  BY <1>7 DEF WorkerInv, OneWorker
<1>9. \A v \in Threads : thread'[v] # None => sess'[On(v)'].running
  BY <1>3, <1>7, OnType DEF WorkerInv
<1>10. \A d \in Waiting' : sess'[d].made /\ ~sess'[d].running
  BY <1>3, <1>6 DEF WorkerInv, Waiting
<1>11. \A v \in Threads : At(v, "spawned")' => thread'[v].child \notin Waiting'
  BY <1>5, <1>6 DEF WorkerInv, At
<1>12. \A A \in SUBSET Sessions : Clear(A) => Clear(A)'
  BY <1>6, <1>7 DEF Clear
<1> QED
  BY <1>8, <1>9, <1>10, <1>11, <1>12 DEF WorkerInv

(* resume goes by the order of the store, so a session's parents are done  *)
(* waiting when its turn comes.                                            *)
LEMMA ResumeWorkers ==
    ASSUME TypeOK, WorkerInv, NEW s \in Sessions, ResumeSession(s)
    PROVE WorkerInv'
<1>1. PICK u \in Threads : thread[u] = None /\ thread' = [thread EXCEPT ![u] = Worker(s, "resume")]
  BY DEF ResumeSession, IsFree
<1>2. sess' = [sess EXCEPT ![s] = [sess[s] EXCEPT !.running = TRUE]]
  BY DEF ResumeSession
<1>3. /\ \A d \in Sessions \ {s} : sess'[d] = sess[d]
      /\ sess'[s].running /\ sess'[s].made = sess[s].made
  BY <1>2 DEF TypeOK, SessionRow
<1>4. s \in Waiting /\ Waiting' = Waiting \ {s} /\ \A p \in Waiting : Order[s] <= Order[p]
  BY DEF ResumeSession, Waiting, TypeOK
<1>5. thread'[u] # None /\ On(u)' = s /\ ~At(u, "spawned")'
  <2>1. Worker(s, "resume") \in ThreadRow /\ thread'[u] = Worker(s, "resume")
    BY <1>1 DEF Worker, ThreadRow, Places, TypeOK
  <2> QED
    BY <2>1, NoneAssumption DEF Worker, On, At
<1>6. \A t \in Threads \ {u} : thread'[t] = thread[t] /\ On(t)' = On(t)
  BY <1>1 DEF TypeOK, On
<1>7. \A t \in Threads : thread[t] # None => On(t) # s
  BY <1>4 DEF WorkerInv
<1>8. OneWorker'
  BY <1>5, <1>6, <1>7 DEF WorkerInv, OneWorker
<1>9. \A t \in Threads : thread'[t] # None => sess'[On(t)'].running
  <2>1. \A t \in Threads \ {u} : thread'[t] # None => sess'[On(t)'].running
    BY <1>3, <1>6, <1>7, OnType DEF WorkerInv
  <2> QED
    BY <1>3, <1>5, <2>1
<1>10. \A d \in Waiting' : sess'[d].made /\ ~sess'[d].running
  BY <1>3, <1>4 DEF WorkerInv, Waiting
<1>11. \A t \in Threads : At(t, "spawned")' => thread'[t].child \notin Waiting'
  BY <1>4, <1>5, <1>6 DEF WorkerInv, At
<1>12. PICK A \in SUBSET Sessions : Clear(A)
  BY DEF WorkerInv
<1>13. PICK B \in SUBSET Sessions : B = {x \in Sessions : \A w \in Waiting' : Order[x] < Order[w]}
  OBVIOUS
<1>14. s \in B /\ B \cap Waiting' = {}
  BY <1>4, <1>13, ForestAssumption DEF Waiting
<1>15. \A x \in B : Parent[x] = None \/ Parent[x] \in B
  <2>1. SUFFICES ASSUME NEW x \in B, Parent[x] # None PROVE Parent[x] \in B
    OBVIOUS
  <2>2. Parent[x] \in Sessions /\ Order[Parent[x]] < Order[x] /\ Order[Parent[x]] \in Nat
        /\ Order[x] \in Nat
    BY <2>1, ForestAssumption
  <2>3. \A w \in Waiting' : Order[w] \in Nat
    BY ForestAssumption DEF Waiting
  <2> QED
    BY <1>13, <2>1, <2>2, <2>3
<1>16. Clear(A \cup B)'
  <2>1. \A x \in A \cup B : Parent[x] = None \/ Parent[x] \in A \cup B
    BY <1>12, <1>15 DEF Clear
  <2>2. (A \cup B) \cap Waiting' = {}
    BY <1>4, <1>12, <1>14 DEF Clear
  <2>3. \A t \in Threads : thread'[t] # None => On(t)' \in A \cup B
    BY <1>5, <1>6, <1>12, <1>14 DEF Clear
  <2> QED
    BY <2>1, <2>2, <2>3 DEF Clear
<1>17. \E C \in SUBSET Sessions : Clear(C)'
  BY <1>12, <1>13, <1>16
<1> QED
  BY <1>8, <1>9, <1>10, <1>11, <1>17 DEF WorkerInv

(* A restart leaves no worker, and waiting only sessions that are loaded.  *)
LEMMA RestartWorkers == ASSUME TypeOK, Restart PROVE WorkerInv'
<1>1. \A t \in Threads : thread'[t] = None
  BY DEF Restart
<1>2. \A s \in Waiting' : sess'[s].made /\ ~sess'[s].running
  BY DEF Restart, Waiting, WasRunning, Loaded, Unmade
<1>3. Clear({})'
  BY <1>1 DEF Clear
<1> QED
  BY <1>1, <1>2, <1>3 DEF WorkerInv, OneWorker, At

(* Every step keeps the workers apart.                                     *)
LEMMA WorkerStepInv ==
    ASSUME TypeOK, ChildKnown, WorkerInv, [Next]_vars
    PROVE WorkerInv'
<1>1. CASE Quiet
  BY <1>1, KeepsWorkers DEF Quiet, Kept
<1>2. CASE Saved
  BY <1>2, KeepsWorkers DEF Saved
<1> QED
  BY <1>1, <1>2, StepKinds, StartedWorkers, ExitWorkers, SpawnWorkers, ResumeWorkers, RestartWorkers

(* No worker and nobody waiting at first.                                  *)
LEMMA WorkerInit == Init => WorkerInv
<1> SUFFICES ASSUME Init PROVE WorkerInv
  OBVIOUS
<1>1. (\A t \in Threads : thread[t] = None) /\ Waiting = {}
  BY DEF Init, Waiting
<1>2. Clear({})
  BY <1>1 DEF Clear
<1> QED
  BY <1>1, <1>2 DEF WorkerInv, OneWorker, At

(* No session ever has two workers: prompts, child reports and resumes     *)
(* start one only where none is, whatever else runs.                       *)
THEOREM WorkersApart == Spec => []OneWorker
<1>1. TypeOK /\ ChildKnown /\ WorkerInv /\ [Next]_vars => (TypeOK /\ ChildKnown /\ WorkerInv)'
  BY TypeStep, WorkerStepInv
<1>2. WorkerInv => OneWorker
  BY DEF WorkerInv
<1> QED
  BY <1>1, <1>2, TypeInit, WorkerInit, PTL DEF Spec

-----------------------------------------------------------------------------
(* No lost wake-up                                                           *)

Empty(row) == row.pending = <<>> /\ row.inbox = <<>>

(* A session rewritten without a place in the list, a running flag or a      *)
(* queue entry won or lost to it; what is taken off a queue may go.          *)
Steady(r, q) ==
    /\ q.made = r.made /\ q.listed = r.listed /\ q.running = r.running
    /\ Empty(r) => Empty(q)

(* A worker stays on its session, or it may end.                             *)
MayEnd(t) == halted \/ ~Me(t).listed \/ Bereft(On(t))
Stays(t) == thread[t] # None => MayEnd(t) \/ (thread'[t] # None /\ On(t)' = On(t))

(* A step that queues nothing and starts no worker and ends none that may    *)
(* not: sessions may be created or deleted in it, and queues drained.        *)
Harmless ==
    /\ \A s \in Sessions :
          /\ sess[s].made => sess'[s].made
          /\ sess'[s].listed => sess[s].listed \/ (~sess[s].made /\ sess'[s].made)
          /\ sess'[s].running = sess[s].running
          /\ Empty(sess[s]) => Empty(sess'[s])
    /\ \A t \in Threads : Stays(t)
    /\ halted => halted'

(* The child a worker has just spawned exists.                               *)
ChildMade == \A t \in Threads : At(t, "spawned") => sess[thread[t].child].made

(* No lost wake-up is inductive with: a session that is listed exists, and   *)
(* one that does not exist has nothing queued and does not run.              *)
Served ==
    /\ QueueServed
    /\ \A s \in Sessions : sess[s].listed => sess[s].made
    /\ \A s \in Sessions : ~sess[s].made => Empty(sess[s]) /\ ~sess[s].running
    /\ ChildMade

(* The fields that leave a session steady.                                   *)
LEMMA SteadyFields ==
    ASSUME NEW row \in SessionRow
    PROVE /\ Steady(row, row)
          /\ \A v : Steady(row, [row EXCEPT !.holder = v]) /\ Steady(row, [row EXCEPT !.form = v])
          /\ \A v : Steady(row, [row EXCEPT !.ask = v])
          /\ Steady(row, [row EXCEPT !.current = TRUE, !.cancel = FALSE])
          /\ Steady(row, [row EXCEPT !.ask = None, !.current = FALSE, !.holder = None])
          /\ Steady(row, Cancelled(row))
          /\ \A outcome : Steady(row, Idled(row, outcome))
BY DEF Steady, Empty, SessionRow, Cancelled, Idled

(* So does what is taken off a queue.                                        *)
LEMMA SteadyTakes ==
    ASSUME NEW row \in SessionRow
    PROVE /\ row.pending # <<>> => \A v : Steady(row, [row EXCEPT !.pending = v])
          /\ row.inbox # <<>> => \A v : Steady(row, [row EXCEPT !.inbox = v])
          /\ row.pending # <<>> => \A v : Steady(row, [row EXCEPT !.holder = None, !.pending = v])
BY DEF Steady, Empty, SessionRow

LEMMA SteadyWrite ==
    ASSUME TypeOK, NEW s \in Sessions, NEW row, Steady(sess[s], row), sess' = [sess EXCEPT ![s] = row]
    PROVE \A d \in Sessions : Steady(sess[d], sess'[d])
BY DEF TypeOK, Steady

(* A worker that moves on is the only one that moves.                        *)
LEMMA MoveStays ==
    ASSUME TypeOK, NEW t \in Threads, thread[t] # None, NEW place \in Places, MoveTo(t, place)
    PROVE \A u \in Threads : Stays(u)
BY NoneAssumption DEF TypeOK, MoveTo, Stays, On, ThreadRow

LEMMA GoneStays ==
    ASSUME TypeOK, NEW t \in Threads, thread[t] # None, thread' = Gone(t), MayEnd(t)
    PROVE \A u \in Threads : Stays(u)
BY DEF TypeOK, Gone, Stays, On

(* The steps of a worker or its script that look, or write its own session.  *)
LEMMA OwnSteady ==
    ASSUME TypeOK, NEW t \in Threads,
           \/ OpenTurn(t) \/ RaiseForm(t) \/ RequestPermission(t) \/ PermissionAnswered(t)
           \/ AwaitForm(t) \/ ScriptEnds(t) \/ PipeCloses(t) \/ TakePending(t) \/ TakeSteer(t)
           \/ DeliverInbox(t) /\ ~Silent
           \/ TurnInterrupted(t) \/ TurnFails(t) \/ TurnSucceeds(t) \/ ScriptFails(t)
           \/ UserMessage(t) \/ Declined(t)
    PROVE /\ \A s \in Sessions : Steady(sess[s], sess'[s])
          /\ thread[t] # None /\ halted' = halted /\ \E place \in Places : MoveTo(t, place)
<1> USE DEF At
<1>1. thread[t] # None /\ halted' = halted
  BY DEF OpenTurn, RaiseForm, RequestPermission, PermissionAnswered, AwaitForm, ScriptEnds,
         PipeCloses, TakePending, TakeSteer, DeliverInbox, TurnInterrupted, TurnFails, TurnSucceeds,
         ScriptFails, Idle, UserMessage, Declined
<1>2. On(t) \in Sessions /\ Me(t) \in SessionRow /\ Me(t) = sess[On(t)]
  BY <1>1, OnType DEF Me
<1>3. \E row : Steady(Me(t), row) /\ sess' = [sess EXCEPT ![On(t)] = row]
  <2>1. CASE OpenTurn(t) \/ ScriptEnds(t) \/ PipeCloses(t)
    <3>1. \E v : sess' = [sess EXCEPT ![On(t)] = [Me(t) EXCEPT !.holder = v]]
      BY <2>1 DEF OpenTurn, ScriptEnds, PipeCloses, Me
    <3> QED
      BY <1>2, <3>1, SteadyFields
  <2>2. CASE RaiseForm(t) \/ AwaitForm(t)
    <3>1. \E v : sess' = [sess EXCEPT ![On(t)] = [Me(t) EXCEPT !.form = v]]
      BY <2>2 DEF RaiseForm, AwaitForm, Me
    <3> QED
      BY <1>2, <3>1, SteadyFields
  <2>3. CASE RequestPermission(t) \/ PermissionAnswered(t)
    <3>1. \E v : sess' = [sess EXCEPT ![On(t)] = [Me(t) EXCEPT !.ask = v]]
      BY <2>3 DEF RequestPermission, PermissionAnswered, Me
    <3> QED
      BY <1>2, <3>1, SteadyFields
  <2>4. CASE TakePending(t)
    <3>1. Me(t).pending # <<>> /\ \E v : sess' = [sess EXCEPT ![On(t)] = [Me(t) EXCEPT !.pending = v]]
      BY <2>4 DEF TakePending, Me
    <3> QED
      BY <1>2, <3>1, SteadyTakes
  <2>5. CASE TakeSteer(t)
    <3>1. PICK i \in 1..Len(Me(t).pending) :
            sess' = [sess EXCEPT ![On(t)].holder = None,
               ![On(t)].pending = SubSeq(@, 1, i - 1) \o SubSeq(@, i + 1, Len(@))]
      BY <2>5 DEF TakeSteer
    <3>2. \E v : sess' = [sess EXCEPT ![On(t)] = [Me(t) EXCEPT !.holder = None, !.pending = v]]
      BY <1>2, <3>1 DEF Me, SessionRow, TypeOK
    <3>3. Me(t).pending # <<>>
      BY <3>1, EmptySeq
    <3> QED
      BY <1>2, <3>2, <3>3, SteadyTakes
  <2>6. CASE DeliverInbox(t) /\ ~Silent
    <3>1. Me(t).inbox # <<>> /\ \E v : sess' = [sess EXCEPT ![On(t)] = [Me(t) EXCEPT !.inbox = v]]
      BY SMTT(30), <2>6 DEF DeliverInbox, Me
    <3> QED
      BY <1>2, <3>1, SteadyTakes
  <2>7. CASE TurnInterrupted(t) \/ TurnFails(t) \/ TurnSucceeds(t) \/ ScriptFails(t)
    <3>1. \E outcome : sess' = [sess EXCEPT ![On(t)] = Idled(Me(t), outcome)]
      BY SMTT(30), <2>7 DEF TurnInterrupted, TurnFails, TurnSucceeds, ScriptFails, Idle, Me
    <3> QED
      BY <1>2, <3>1, SteadyFields
  <2>8. CASE UserMessage(t)
    <3>1. sess' = [sess EXCEPT ![On(t)] = [Me(t) EXCEPT !.current = TRUE, !.cancel = FALSE]]
      BY <1>2, <2>8 DEF UserMessage, Me, TypeOK, SessionRow
    <3> QED
      BY <1>2, <3>1, SteadyFields
  <2>9. CASE Declined(t)
    <3>1. sess' = [sess EXCEPT ![On(t)] =
                     [Me(t) EXCEPT !.ask = None, !.current = FALSE, !.holder = None]]
      BY <1>2, <2>9 DEF Declined, Me, TypeOK, SessionRow
    <3> QED
      BY <1>2, <3>1, SteadyFields
  <2> QED
    BY <2>1, <2>2, <2>3, <2>4, <2>5, <2>6, <2>7, <2>8, <2>9
<1>4. \A s \in Sessions : Steady(sess[s], sess'[s])
  BY <1>2, <1>3, SteadyWrite
<1>5. \E place \in Places : MoveTo(t, place)
  <2>1. CASE PermissionAnswered(t) \/ AwaitForm(t) \/ TakePending(t)
    BY <2>1 DEF PermissionAnswered, AwaitForm, TakePending, Places
  <2>2. CASE TurnSucceeds(t)
    BY <2>2 DEF TurnSucceeds, Idle, Places
  <2>3. CASE DeliverInbox(t)
    BY <2>3 DEF DeliverInbox, Places
  <2> QED
    BY <2>1, <2>2, <2>3 DEF OpenTurn, RaiseForm, RequestPermission, ScriptEnds, PipeCloses, TakeSteer,
         TurnInterrupted, TurnFails, ScriptFails, Idle, UserMessage, Declined, Places
<1> QED
  BY SMTT(30), <1>1, <1>4, <1>5

LEMMA OwnHarmless ==
    ASSUME TypeOK, NEW t \in Threads,
           \/ OpenTurn(t) \/ RaiseForm(t) \/ RequestPermission(t) \/ PermissionAnswered(t)
           \/ AwaitForm(t) \/ ScriptEnds(t) \/ PipeCloses(t) \/ TakePending(t) \/ TakeSteer(t)
           \/ DeliverInbox(t) /\ ~Silent
           \/ TurnInterrupted(t) \/ TurnFails(t) \/ TurnSucceeds(t) \/ ScriptFails(t)
           \/ UserMessage(t) \/ Declined(t)
    PROVE Harmless
<1>1. /\ \A s \in Sessions : Steady(sess[s], sess'[s])
      /\ thread[t] # None /\ halted' = halted /\ \E place \in Places : MoveTo(t, place)
  BY OwnSteady
<1>2. \A u \in Threads : Stays(u)
  BY <1>1, MoveStays
<1> QED
  BY <1>1, <1>2 DEF Harmless, Steady

(* A worker ends without an exit only halted, deleted or bereft.             *)
LEMMA LookHarmless ==
    ASSUME TypeOK, ChildKnown, Served, NEW t \in Threads,
           \/ Resume(t) \/ WorkerQuits(t) \/ TakeInbox(t) \/ RunCompact(t)
           \/ RefuseTurn(t) \/ SeesCancel(t) \/ CallTool(t) \/ RaiseFormLost(t)
           \/ PromptChildLost(t) \/ JoinChild(t) \/ JudgeEnd(t) \/ AfterFailure(t)
           \/ DeliverInbox(t) /\ Silent
    PROVE Harmless
<1>1. Silent /\ thread[t] # None
  BY DEF Resume, WorkerQuits, TakeInbox, RunCompact, RefuseTurn, SeesCancel, CallTool,
         RaiseFormLost, PromptChildLost, JoinChild, JudgeEnd, AfterFailure, DeliverInbox, At
<1>2. \A u \in Threads : Stays(u)
  <2>1. CASE WorkerQuits(t) \/ RaiseFormLost(t)
    BY <1>1, <2>1, GoneStays DEF WorkerQuits, RaiseFormLost, MayEnd
  <2>2. CASE PromptChildLost(t)
    <3>1. Bereft(On(t))
      BY <2>2 DEF PromptChildLost, ChildKnown, Served, ChildMade, Bereft
    <3> QED
      BY <1>1, <2>2, <3>1, GoneStays DEF PromptChildLost, MayEnd
  <2>3. CASE Resume(t) \/ TakeInbox(t) \/ RunCompact(t) \/ JudgeEnd(t)
    <3>1. \E place \in Places : MoveTo(t, place)
      BY <2>3 DEF Resume, TakeInbox, RunCompact, JudgeEnd, Places
    <3> QED
      BY <1>1, <3>1, MoveStays
  <2>4. CASE RefuseTurn(t) \/ SeesCancel(t) \/ CallTool(t) \/ JoinChild(t) \/ AfterFailure(t)
    <3>1. \E place \in Places : MoveTo(t, place)
      BY <2>4 DEF RefuseTurn, SeesCancel, CallTool, JoinChild, AfterFailure, Places
    <3> QED
      BY <1>1, <3>1, MoveStays
  <2>5. CASE DeliverInbox(t)
    <3>1. \E place \in Places : MoveTo(t, place)
      BY <2>5 DEF DeliverInbox, Places
    <3> QED
      BY <1>1, <3>1, MoveStays
  <2> QED
    BY <2>1, <2>2, <2>3, <2>4, <2>5
<1> QED
  BY <1>1, <1>2 DEF Harmless, Silent

(* Calls that queue nothing.                                                 *)
LEMMA CallHarmless ==
    ASSUME TypeOK,
           \/ \E s \in Sessions : Interrupt(s) \/ CancelForm(s) \/ Create(s) \/ Remove(s)
           \/ \E s \in Sessions, decision \in Replies : ReplyPermission(s, decision)
           \/ Halt \/ UNCHANGED vars
    PROVE Harmless
<1>1. thread' = thread /\ (halted => halted')
  <2>1. ASSUME NEW s \in Sessions, NEW decision \in Replies, ReplyPermission(s, decision)
        PROVE thread' = thread /\ halted' = halted
    BY <2>1 DEF ReplyPermission
  <2>4. ASSUME NEW s \in Sessions, Interrupt(s) \/ CancelForm(s) \/ Create(s) \/ Remove(s)
        PROVE thread' = thread /\ halted' = halted
    BY <2>4 DEF Interrupt, CancelForm, Create, Remove
  <2>2. CASE Halt
    BY <2>2 DEF Halt
  <2>3. CASE UNCHANGED vars
    BY <2>3 DEF vars
  <2> QED
    BY <2>1, <2>2, <2>3, <2>4
<1>2. \A t \in Threads : Stays(t)
  BY <1>1 DEF Stays, On
<1>3. \A d \in Sessions : sess[d] \in SessionRow
  BY DEF TypeOK
<1>4. ASSUME \A d \in Sessions : Steady(sess[d], sess'[d])
      PROVE Harmless
  BY SMTT(30), <1>1, <1>2, <1>4 DEF Harmless, Steady
<1>5. ASSUME NEW s \in Sessions, Interrupt(s)
      PROVE Harmless
  <2>1. \A d \in Sessions : sess'[d] = sess[d] \/ sess'[d] = Cancelled(sess[d])
    BY <1>5 DEF Interrupt, CancelTree
  <2> QED
    BY <1>3, <1>4, <2>1, SteadyFields
<1>6. ASSUME NEW s \in Sessions, CancelForm(s)
      PROVE Harmless
  <2>1. sess' = [sess EXCEPT ![s] = [sess[s] EXCEPT !.form = "settled"]]
    BY <1>6 DEF CancelForm
  <2> QED
    BY <1>3, <1>4, <2>1, SteadyFields, SteadyWrite
<1>7. ASSUME NEW s \in Sessions, NEW decision \in Replies, ReplyPermission(s, decision)
      PROVE Harmless
  <2>1. \E v : sess' = [sess EXCEPT ![s] = [sess[s] EXCEPT !.ask = v]]
    BY <1>7 DEF ReplyPermission
  <2> QED
    BY <1>3, <1>4, <2>1, SteadyFields, SteadyWrite
<1>8. ASSUME NEW s \in Sessions, Create(s)
      PROVE Harmless
  <2>1. sess' = [sess EXCEPT ![s] = [sess[s] EXCEPT !.made = TRUE, !.listed = TRUE]] /\ ~sess[s].made
    BY <1>8 DEF Create, TypeOK, SessionRow
  <2>2. \A d \in Sessions :
           /\ sess[d].made => sess'[d].made
           /\ sess'[d].listed => sess[d].listed \/ (~sess[d].made /\ sess'[d].made)
           /\ sess'[d].running = sess[d].running
           /\ Empty(sess[d]) => Empty(sess'[d])
    BY <2>1 DEF TypeOK, SessionRow, Empty
  <2> QED
    BY <1>1, <1>2, <2>2 DEF Harmless
<1>9. ASSUME NEW s \in Sessions, Remove(s)
      PROVE Harmless
  <2>1. \A d \in Sessions :
           sess'[d] = sess[d] \/ sess'[d] = [Cancelled(sess[d]) EXCEPT !.listed = FALSE]
    BY <1>9 DEF Remove
  <2>2. ASSUME NEW d \in Sessions, NEW row \in SessionRow, NEW q, Steady(sess[d], row),
               q = [row EXCEPT !.listed = FALSE]
        PROVE /\ q.made = sess[d].made /\ q.running = sess[d].running /\ ~q.listed
              /\ Empty(sess[d]) => Empty(q)
    BY SMTT(30), <2>2 DEF Steady, Empty, SessionRow
  <2>3. \A d \in Sessions : Cancelled(sess[d]) \in SessionRow /\ Steady(sess[d], Cancelled(sess[d]))
    BY <1>3, SteadyFields, CancelledType
  <2>4. \A d \in Sessions :
           /\ sess[d].made => sess'[d].made
           /\ sess'[d].listed => sess[d].listed \/ (~sess[d].made /\ sess'[d].made)
           /\ sess'[d].running = sess[d].running
           /\ Empty(sess[d]) => Empty(sess'[d])
    BY <2>1, <2>2, <2>3
  <2> QED
    BY <1>1, <1>2, <2>4 DEF Harmless
<1>10. ASSUME Halt
       PROVE Harmless
  <2>1. \A d \in Sessions : Steady(sess[d], sess'[d])
    BY <1>3, <1>10 DEF Halt, Steady, Empty, SessionRow
  <2> QED
    BY <1>4, <2>1
<1>11. CASE UNCHANGED vars
  BY <1>3, <1>4, <1>11, SteadyFields DEF vars
<1> QED
  BY <1>5, <1>6, <1>7, <1>8, <1>9, <1>10, <1>11

LEMMA NoneSpawned ==
    ASSUME ChildKnown, Served, \A t \in Threads : thread'[t] = thread[t] \/ ~At(t, "spawned")',
           \A s \in Sessions : sess[s].made => sess'[s].made
    PROVE ChildMade'
<1> SUFFICES ASSUME NEW t \in Threads, At(t, "spawned")'
             PROVE sess'[thread'[t].child].made
  BY DEF ChildMade
<1>1. thread'[t] = thread[t] /\ At(t, "spawned")
  BY DEF At
<1>2. thread[t].child \in Sessions
  BY <1>1 DEF ChildKnown
<1> QED
  BY <1>1, <1>2 DEF Served, ChildMade

LEMMA MovedChild ==
    ASSUME ChildKnown, Served, Moved, \A s \in Sessions : sess[s].made => sess'[s].made
    PROVE ChildMade'
<1>1. \A t \in Threads : thread'[t] = thread[t] \/ ~At(t, "spawned")'
  BY DEF Moved, MovesOn, At
<1> QED
  BY <1>1, NoneSpawned

(* A harmless step leaves every queue with the worker it had.                *)
LEMMA HarmlessServed ==
    ASSUME TypeOK, ChildKnown, WorkerInv', Served, Harmless, ChildMade'
    PROVE Served'
<1>1. \A s \in Sessions : sess'[s].listed => sess'[s].made
  BY DEF Served, Harmless
<1>2. \A s \in Sessions : ~sess'[s].made => Empty(sess'[s]) /\ ~sess'[s].running
  BY DEF Served, Harmless
<1>4. \A s \in Sessions : Bereft(s) => Bereft(s)'
  BY DEF Bereft, Harmless
<1>5. QueueServed'
  <2> SUFFICES ASSUME NEW s \in Sessions, sess'[s].listed, ~halted'
               PROVE /\ (\E t \in Threads : Serves(t, s)') => sess'[s].running
                     /\ sess'[s].running => Bereft(s)' \/ \E t \in Threads : Serves(t, s)'
                     /\ (sess'[s].pending # <<>> \/ sess'[s].inbox # <<>>) => sess'[s].running
    BY DEF QueueServed
  <2>1. (\E t \in Threads : Serves(t, s)') => sess'[s].running
    BY DEF WorkerInv, Serves
  <2>2. ASSUME sess'[s].running
        PROVE Bereft(s)' \/ \E t \in Threads : Serves(t, s)'
    <3>1. sess[s].running /\ sess[s].made /\ sess[s].listed /\ ~halted
      BY <2>2 DEF Harmless, Served
    <3>2. Bereft(s) \/ \E t \in Threads : Serves(t, s)
      BY <3>1 DEF Served, QueueServed
    <3>3. ASSUME NEW t \in Threads, Serves(t, s), ~Bereft(s)
          PROVE Serves(t, s)'
      <4>1. ~MayEnd(t) /\ thread[t] # None /\ On(t) = s
        BY <3>1, <3>3 DEF MayEnd, Serves, Me
      <4> QED
        BY <4>1 DEF Harmless, Stays, Serves
    <3> QED
      BY <1>4, <3>2, <3>3
  <2>3. ASSUME sess'[s].pending # <<>> \/ sess'[s].inbox # <<>>
        PROVE sess'[s].running
    <3>1. ~Empty(sess'[s])
      BY <2>3 DEF Empty
    <3>2. ~Empty(sess[s])
      BY <3>1 DEF Harmless
    <3>3. sess[s].made /\ sess[s].listed /\ ~halted
      BY <3>2 DEF Harmless, Served
    <3>4. sess[s].running
      BY <3>2, <3>3 DEF Served, QueueServed, Empty
    <3> QED
      BY <3>4 DEF Harmless
  <2> QED
    BY <2>1, <2>2, <2>3
<1> QED
  BY <1>1, <1>2, <1>5 DEF Served

(* An exit leaves a session whose queues are empty and that runs no more.    *)
LEMMA ExitServed ==
    ASSUME TypeOK, ChildKnown, WorkerInv, WorkerInv', Served, NEW t \in Threads, WorkerExits(t)
    PROVE Served'
<1>1. thread[t] # None /\ halted' = halted /\ Empty(Me(t)) /\ thread' = Gone(t)
  BY DEF WorkerExits, At, QueueEmpty, Empty
<1>2. On(t) \in Sessions /\ Me(t) \in SessionRow /\ Me(t) = sess[On(t)]
  BY <1>1, OnType DEF Me
<1>3. sess' = [sess EXCEPT ![On(t)] = [Me(t) EXCEPT !.running = FALSE, !.current = FALSE]]
  BY <1>2 DEF WorkerExits, TypeOK, SessionRow, Me
<1>4. /\ ~sess'[On(t)].running /\ Empty(sess'[On(t)])
      /\ sess'[On(t)].made = sess[On(t)].made /\ sess'[On(t)].listed = sess[On(t)].listed
      /\ \A d \in Sessions \ {On(t)} : sess'[d] = sess[d]
  BY <1>1, <1>2, <1>3 DEF TypeOK, SessionRow, Empty
<1>5. thread'[t] = None /\ \A u \in Threads \ {t} : thread'[u] = thread[u] /\ On(u)' = On(u)
  BY <1>1 DEF TypeOK, Gone, On
<1>6. \A s \in Sessions : Bereft(s) => Bereft(s)'
  BY <1>4 DEF Bereft
<1>7. ChildMade'
  <2>1. Moved /\ \A s \in Sessions : sess[s].made => sess'[s].made
    BY <1>1, <1>4, GoneMoved
  <2> QED
    BY <2>1, MovedChild
<1>8. ASSUME NEW s \in Sessions, s # On(t), sess'[s].listed, ~halted'
      PROVE /\ sess'[s].running => Bereft(s)' \/ \E u \in Threads : Serves(u, s)'
            /\ (sess'[s].pending # <<>> \/ sess'[s].inbox # <<>>) => sess'[s].running
  <2>1. sess'[s] = sess[s] /\ ~halted
    BY <1>1, <1>4, <1>8
  <2>2. \A u \in Threads : Serves(u, s) => Serves(u, s)'
    BY <1>5, <1>8 DEF Serves
  <2> QED
    BY <1>6, <1>8, <2>1, <2>2 DEF Served, QueueServed
<1>9. QueueServed'
  <2>1. \A s \in Sessions : (\E u \in Threads : Serves(u, s)') => sess'[s].running
    BY DEF WorkerInv, Serves
  <2> QED
    BY <1>4, <1>8, <2>1 DEF QueueServed, Empty
<1> QED
  BY <1>4, <1>7, <1>9 DEF Served, Empty

(* A child is created with nothing queued.                                   *)
LEMMA SpawnServed ==
    ASSUME TypeOK, ChildKnown, WorkerInv', Served, NEW t \in Threads, NEW c \in Sessions,
           NEW background \in Modes, SpawnChild(t, c, background)
    PROVE Served'
<1>1. thread[t] # None /\ halted' = halted /\ ~sess[c].made
  BY DEF SpawnChild, At
<1>2. sess' = [sess EXCEPT ![c] = [sess[c] EXCEPT !.made = TRUE, !.listed = TRUE,
                                                 !.background = background]]
  BY DEF SpawnChild, TypeOK, SessionRow
<1>3. /\ sess'[c].made /\ sess'[c].running = sess[c].running
      /\ Empty(sess[c]) => Empty(sess'[c])
      /\ \A d \in Sessions \ {c} : sess'[d] = sess[d]
  BY <1>2 DEF TypeOK, SessionRow, Empty
<1>4. thread' = [thread EXCEPT ![t] = [thread[t] EXCEPT !.at = "spawned", !.child = c]]
  BY <1>1 DEF SpawnChild, TypeOK, ThreadRow
<1>5. /\ thread'[t].on = thread[t].on /\ thread'[t].child = c /\ thread'[t] # None
      /\ \A v \in Threads \ {t} : thread'[v] = thread[v]
  <2>1. thread[t] \in ThreadRow
    BY <1>1 DEF TypeOK
  <2>2. [thread[t] EXCEPT !.at = "spawned", !.child = c] \in ThreadRow
    BY <2>1 DEF ThreadRow, Places
  <2>3. thread'[t] = [thread[t] EXCEPT !.at = "spawned", !.child = c]
    BY <1>4 DEF TypeOK
  <2>4. thread'[t].on = thread[t].on /\ thread'[t].child = c
    BY <2>1, <2>3 DEF ThreadRow
  <2> QED
    BY <1>4, <2>2, <2>3, <2>4, NoneAssumption DEF TypeOK
<1>6. Harmless
  <2>1. \A u \in Threads : Stays(u)
    BY <1>5 DEF Stays, On
  <2>2. Empty(sess[c])
    BY <1>1 DEF Served
  <2> QED
    BY <1>1, <1>3, <2>1, <2>2 DEF Harmless
<1>7. ChildMade'
  <2> SUFFICES ASSUME NEW v \in Threads, At(v, "spawned")'
               PROVE sess'[thread'[v].child].made
    BY DEF ChildMade
  <2>1. CASE v = t
    BY <1>3, <1>5, <2>1
  <2>2. CASE v # t
    <3>1. thread'[v] = thread[v] /\ At(v, "spawned")
      BY <1>5, <2>2 DEF At
    <3>2. thread[v].child \in Sessions /\ sess[thread[v].child].made
      BY <3>1 DEF ChildKnown, Served, ChildMade
    <3> QED
      BY <1>3, <3>1, <3>2
  <2> QED
    BY <2>1, <2>2
<1> QED
  BY <1>6, <1>7, HarmlessServed

(* What _start queued for a session finds its worker, or gets one.           *)
LEMMA StartServed ==
    ASSUME TypeOK, ChildKnown, WorkerInv', Served, ChildMade', NEW s \in Sessions, NEW row \in SessionRow,
           Kept(sess[s], row), sess[s].listed, NEW others \in [Threads -> ThreadRow \cup {None}],
           \A t \in Threads : thread[t] # None => others[t] # None /\ others[t].on = thread[t].on,
           Start(s, row, others), halted' = halted
    PROVE Served'
<1>1. sess[s].made /\ row.made /\ row.listed /\ row.running = sess[s].running
  BY DEF Served, Kept
<1>2. /\ sess'[s].made /\ sess'[s].listed /\ sess'[s].running
      /\ \A d \in Sessions \ {s} : sess'[d] = sess[d]
      /\ \/ sess[s].running
         \/ \E t \in Threads : Serves(t, s)'
  <2>1. CASE NeedsWorker(row)
    <3>1. PICK u \in Threads :
             /\ sess' = [sess EXCEPT ![s] = [row EXCEPT !.running = TRUE, !.cancel = FALSE]]
             /\ thread' = [others EXCEPT ![u] = Worker(s, "loop")]
      BY <2>1 DEF Start
    <3>2. sess'[s] = [row EXCEPT !.running = TRUE, !.cancel = FALSE]
          /\ \A d \in Sessions \ {s} : sess'[d] = sess[d]
      BY <3>1 DEF TypeOK
    <3>3. sess'[s].made /\ sess'[s].listed /\ sess'[s].running
      BY <1>1, <3>2 DEF SessionRow
    <3>4. Worker(s, "loop") \in ThreadRow /\ thread'[u] = Worker(s, "loop")
      BY <3>1 DEF Worker, ThreadRow, Places
    <3>5. Serves(u, s)'
      BY <3>4, NoneAssumption DEF Serves, On, Worker
    <3> QED
      BY <3>2, <3>3, <3>5
  <2>2. CASE ~NeedsWorker(row)
    <3>1. sess' = [sess EXCEPT ![s] = row] /\ row.running
      BY <2>2 DEF Start, NeedsWorker
    <3> QED
      BY <1>1, <3>1 DEF TypeOK
  <2> QED
    BY <2>1, <2>2
<1>3. \A t \in Threads, d \in Sessions : Serves(t, d) => Serves(t, d)'
  <2> SUFFICES ASSUME NEW t \in Threads, NEW d \in Sessions, Serves(t, d)
               PROVE Serves(t, d)'
    OBVIOUS
  <2>1. others[t] # None /\ others[t].on = d /\ thread[t] # None
    BY DEF Serves, On
  <2>2. thread'[t] = others[t]
    BY <2>1 DEF Start, IsFree
  <2> QED
    BY <2>1, <2>2 DEF Serves, On
<1>4. \A d \in Sessions : Bereft(d) => Bereft(d)'
  BY <1>1, <1>2 DEF Bereft
<1>5. QueueServed'
  <2>1. \A d \in Sessions : (\E t \in Threads : Serves(t, d)') => sess'[d].running
    BY DEF WorkerInv, Serves
  <2>2. ASSUME NEW d \in Sessions, sess'[d].listed, ~halted', sess'[d].running
        PROVE Bereft(d)' \/ \E t \in Threads : Serves(t, d)'
    <3>1. CASE sess[d].running /\ sess[d].listed
      BY <1>3, <1>4, <2>2, <3>1 DEF Served, QueueServed
    <3>2. CASE ~(sess[d].running /\ sess[d].listed)
      BY <1>2, <2>2, <3>2
    <3> QED
      BY <3>1, <3>2
  <2>3. ASSUME NEW d \in Sessions, sess'[d].listed, ~halted', sess'[d].pending # <<>> \/ sess'[d].inbox # <<>>
        PROVE sess'[d].running
    <3>1. CASE d = s
      BY <1>2, <3>1
    <3>2. CASE d # s
      BY <1>2, <2>3, <3>2 DEF Served, QueueServed
    <3> QED
      BY <3>1, <3>2
  <2> QED
    BY <2>1, <2>2, <2>3 DEF QueueServed
<1> QED
  BY <1>1, <1>2, <1>5 DEF Served

(* A thread that moves on is still a thread, on its session.                 *)
LEMMA MovedRow ==
    ASSUME TypeOK, NEW t \in Threads, thread[t] # None, NEW place \in Places
    PROVE \E row \in ThreadRow : row = [thread[t] EXCEPT !.at = place] /\ row.on = thread[t].on
<1>1. thread[t] \in ThreadRow
  BY DEF TypeOK
<1>2. [thread[t] EXCEPT !.at = place] \in ThreadRow /\ [thread[t] EXCEPT !.at = place].on = thread[t].on
  BY <1>1 DEF ThreadRow
<1> QED
  BY <1>2

(* The three that queue something: a prompt or compact, a spawned child's    *)
(* prompt, a child's report.                                                 *)
LEMMA StartersServed ==
    ASSUME TypeOK, ChildKnown, WorkerInv', Served,
           \/ \E s \in Sessions, kind \in Kinds : Submit(s, kind)
           \/ \E t \in Threads : PromptChild(t) \/ ChildReports(t)
    PROVE Served'
<1>1. ChildMade'
  <2>1. CASE Quiet
    BY <2>1, MovedChild DEF Quiet, Kept
  <2>2. ASSUME NEW s \in Sessions, Started(s)
        PROVE ChildMade'
    <3>1. PICK u \in Threads : /\ thread[u] = None /\ thread'[u] = Worker(s, "loop")
                               /\ \A t \in Threads \ {u} : MovesOn(t)
      BY <2>2 DEF Started
    <3>2. \A t \in Threads : thread'[t] = thread[t] \/ ~At(t, "spawned")'
      BY <3>1 DEF MovesOn, At, Worker
    <3>3. \A d \in Sessions : sess[d].made => sess'[d].made
      BY <2>2 DEF Started
    <3> QED
      BY <3>2, <3>3, NoneSpawned
  <2> QED
    BY <2>1, <2>2, StartStarted
<1>2. thread \in [Threads -> ThreadRow \cup {None}] /\ \A s \in Sessions : sess[s] \in SessionRow
  BY DEF TypeOK
<1>3. \A s \in Sessions : sess[s].pending \in Seq({"prompt", "steer", "compact"}) /\ sess[s].inbox \in Seq(Sessions)
  BY <1>2 DEF SessionRow
<1>5. ASSUME NEW s \in Sessions, NEW q \in Seq({"prompt", "steer", "compact"}), NEW row,
             row = [sess[s] EXCEPT !.pending = q]
      PROVE row \in SessionRow /\ Kept(sess[s], row)
  BY <1>2, <1>5, KeptFields DEF SessionRow
<1>6. ASSUME NEW s \in Sessions, NEW q \in Seq(Sessions), NEW row, row = [sess[s] EXCEPT !.inbox = q]
      PROVE row \in SessionRow /\ Kept(sess[s], row)
  BY <1>2, <1>6, KeptFields DEF SessionRow
<1>7. ASSUME NEW s \in Sessions, NEW kind \in Kinds, Submit(s, kind)
      PROVE Served'
  <2>1. PICK q : q = Append(sess[s].pending, kind)
    OBVIOUS
  <2>2. PICK row : row = [sess[s] EXCEPT !.pending = q]
    OBVIOUS
  <2>3. q \in Seq({"prompt", "steer", "compact"})
    BY <1>3, <2>1, QueueTypes, BoundAssumption
  <2>4. row \in SessionRow /\ Kept(sess[s], row)
    BY <1>5, <2>2, <2>3
  <2>5. Start(s, row, thread) /\ sess[s].listed /\ halted' = halted
    BY <1>7, <2>1, <2>2 DEF Submit
  <2> QED
    BY <1>1, <1>2, <2>4, <2>5, StartServed
<1>8. ASSUME NEW t \in Threads, PromptChild(t)
      PROVE Served'
  <2>1. PICK c : c = thread[t].child
    OBVIOUS
  <2>2. PICK place : place = IF sess[c].background THEN "run" ELSE "joining"
    OBVIOUS
  <2>3. PICK q : q = Append(sess[c].pending, "prompt")
    OBVIOUS
  <2>4. PICK row : row = [sess[c] EXCEPT !.pending = q]
    OBVIOUS
  <2>5. PICK others : others = [thread EXCEPT ![t].at = place]
    OBVIOUS
  <2>6. thread[t] # None /\ Start(c, row, others) /\ sess[c].listed /\ halted' = halted
    BY <1>8, <2>1, <2>2, <2>3, <2>4, <2>5 DEF PromptChild, At
  <2>7. c \in Sessions
    BY <1>8, <2>1 DEF PromptChild, ChildKnown
  <2>8. q \in Seq({"prompt", "steer", "compact"})
    BY <1>3, <2>3, <2>7, QueueTypes
  <2>9. row \in SessionRow /\ Kept(sess[c], row)
    BY <1>5, <2>4, <2>7, <2>8
  <2>10. place \in Places
    BY <2>2 DEF Places
  <2>11. /\ others \in [Threads -> ThreadRow \cup {None}]
         /\ \A u \in Threads : thread[u] # None => others[u] # None /\ others[u].on = thread[u].on
    <3>1. PICK new \in ThreadRow : new = [thread[t] EXCEPT !.at = place] /\ new.on = thread[t].on
      BY <2>6, <2>10, MovedRow
    <3>2. others = [thread EXCEPT ![t] = new]
      BY <2>5, <3>1
    <3>3. others \in [Threads -> ThreadRow \cup {None}]
      BY <1>2, <3>2
    <3>4. others[t] = new /\ new # None /\ \A u \in Threads \ {t} : others[u] = thread[u]
      BY <1>2, <3>2, NoneAssumption
    <3> QED
      BY <3>1, <3>3, <3>4
  <2> QED
    BY <1>1, <2>6, <2>7, <2>9, <2>11, StartServed
<1>9. ASSUME NEW t \in Threads, ChildReports(t)
      PROVE Served'
  <2>1. thread[t] # None /\ On(t) \in Sessions /\ halted' = halted
    BY <1>9, OnType DEF ChildReports, At
  <2>2. PICK p : p = Parent[On(t)]
    OBVIOUS
  <2>3. "loop" \in Places
    BY DEF Places
  <2>4. CASE p # None /\ sess[p].listed /\ sess[On(t)].background
    <3>1. PICK q : q = Append(sess[p].inbox, On(t))
      OBVIOUS
    <3>2. PICK row : row = [sess[p] EXCEPT !.inbox = q]
      OBVIOUS
    <3>3. PICK others : others = [thread EXCEPT ![t].at = "loop"]
      OBVIOUS
    <3>4. Start(p, row, others)
      BY <1>9, <2>2, <2>4, <3>1, <3>2, <3>3 DEF ChildReports
    <3>5. p \in Sessions
      BY <2>1, <2>2, <2>4, ForestAssumption
    <3>6. q \in Seq(Sessions)
      BY <1>3, <2>1, <3>1, <3>5, QueueTypes
    <3>7. row \in SessionRow /\ Kept(sess[p], row)
      BY <1>6, <3>2, <3>5, <3>6
    <3>8. /\ others \in [Threads -> ThreadRow \cup {None}]
          /\ \A u \in Threads : thread[u] # None => others[u] # None /\ others[u].on = thread[u].on
      <4>1. PICK new \in ThreadRow : new = [thread[t] EXCEPT !.at = "loop"] /\ new.on = thread[t].on
        BY <2>1, <2>3, MovedRow
      <4>2. others = [thread EXCEPT ![t] = new]
        BY <3>3, <4>1
      <4>3. others \in [Threads -> ThreadRow \cup {None}]
        BY <1>2, <4>2
      <4>4. others[t] = new /\ new # None /\ \A u \in Threads \ {t} : others[u] = thread[u]
        BY <1>2, <4>2, NoneAssumption
      <4> QED
        BY <4>1, <4>3, <4>4
    <3> QED
      BY <1>1, <2>1, <2>4, <3>4, <3>5, <3>7, <3>8, StartServed
  <2>5. CASE ~(p # None /\ sess[p].listed /\ sess[On(t)].background)
    <3>1. MoveTo(t, "loop") /\ UNCHANGED <<sess, store>>
      BY <1>9, <2>2, <2>5 DEF ChildReports
    <3>2. \A u \in Threads : Stays(u)
      BY <2>1, <2>3, <3>1, MoveStays
    <3>3. Harmless
      BY <2>1, <3>1, <3>2 DEF Harmless
    <3> QED
      BY <1>1, <3>3, HarmlessServed
  <2> QED
    BY <2>4, <2>5
<1> QED
  BY <1>7, <1>8, <1>9

(* A session resumed is running and has its worker.                          *)
LEMMA ResumeServed ==
    ASSUME TypeOK, ChildKnown, WorkerInv, WorkerInv', Served, NEW s \in Sessions, ResumeSession(s)
    PROVE Served'
<1>1. PICK u \in Threads : thread[u] = None /\ thread' = [thread EXCEPT ![u] = Worker(s, "resume")]
  BY DEF ResumeSession, IsFree
<1>2. sess' = [sess EXCEPT ![s] = [sess[s] EXCEPT !.running = TRUE]] /\ halted' = halted /\ sess[s].made
  BY DEF ResumeSession, WorkerInv
<1>3. /\ \A d \in Sessions \ {s} : sess'[d] = sess[d]
      /\ sess'[s].running /\ sess'[s].made
      /\ sess'[s].listed = sess[s].listed
  BY <1>2 DEF TypeOK, SessionRow
<1>4. Worker(s, "resume") \in ThreadRow /\ thread'[u] = Worker(s, "resume")
  BY <1>1 DEF Worker, ThreadRow, Places, TypeOK
<1>5. Serves(u, s)'
  BY <1>4, NoneAssumption DEF Serves, On, Worker
<1>6. \A t \in Threads : thread[t] # None => thread'[t] = thread[t]
  BY <1>1 DEF TypeOK
<1>7. \A t \in Threads, d \in Sessions : Serves(t, d) => Serves(t, d)'
  BY <1>6 DEF Serves, On
<1>8. \A d \in Sessions : Bereft(d) => Bereft(d)'
  BY <1>3 DEF Bereft
<1>9. ChildMade'
  <2>1. \A t \in Threads : thread'[t] = thread[t] \/ ~At(t, "spawned")'
    BY <1>1, <1>4 DEF TypeOK, At, Worker
  <2> QED
    BY <1>2, <1>3, <2>1, NoneSpawned
<1>10. QueueServed'
  <2>1. \A d \in Sessions : (\E t \in Threads : Serves(t, d)') => sess'[d].running
    BY DEF WorkerInv, Serves
  <2>2. ASSUME NEW d \in Sessions \ {s}, sess'[d].listed, ~halted'
        PROVE /\ sess'[d].running => Bereft(d)' \/ \E t \in Threads : Serves(t, d)'
              /\ (sess'[d].pending # <<>> \/ sess'[d].inbox # <<>>) => sess'[d].running
    BY <1>2, <1>3, <1>7, <1>8, <2>2 DEF Served, QueueServed
  <2> QED
    BY <1>3, <1>5, <2>1, <2>2 DEF QueueServed
<1> QED
  BY <1>3, <1>9, <1>10 DEF Served

(* A restart leaves nothing queued and nothing running.                      *)
LEMMA RestartServed == ASSUME Served, Restart PROVE Served'
<1>1. /\ \A t \in Threads : thread'[t] = None
      /\ \A s \in Sessions : sess'[s] = Loaded(s)
  BY DEF Restart
<1>2. \A s \in Sessions : /\ ~Loaded(s).running /\ Empty(Loaded(s))
                          /\ Loaded(s).listed => Loaded(s).made
  BY DEF Loaded, Unmade, Empty
<1> QED
  BY <1>1, <1>2 DEF Served, ChildMade, At, QueueServed, Serves, Empty

LEMMA ServedStep ==
    ASSUME TypeOK, ChildKnown, WorkerInv, WorkerInv', Served, [Next]_vars
    PROVE Served'
<1>1. ASSUME Harmless, Quiet \/ Saved
      PROVE Served'
  BY <1>1, MovedChild, HarmlessServed DEF Quiet, Saved, Harmless
<1>2. CASE Client
  <2>1. ASSUME NEW s \in Sessions, Create(s) \/ Interrupt(s) \/ Remove(s)
        PROVE Served'
    <3>1. Harmless
      BY <2>1, CallHarmless
    <3>2. Quiet \/ Saved
      BY <2>1, CallQuiet, CallSaved
    <3> QED
      BY <1>1, <3>1, <3>2
  <2>2. ASSUME NEW s \in Sessions, NEW kind \in Kinds, Submit(s, kind)
        PROVE Served'
    BY <2>2, StartersServed
  <2> QED
    BY <1>2, <2>1, <2>2 DEF Client
<1>3. CASE Replier
  <2>0. \E s \in Sessions : CancelForm(s) \/ \E decision \in Replies : ReplyPermission(s, decision)
    BY <1>3 DEF Replier
  <2>1. Harmless
    <3>1. \/ \E s \in Sessions : CancelForm(s)
          \/ \E s \in Sessions, decision \in Replies : ReplyPermission(s, decision)
      BY <2>0
    <3> QED
      BY <3>1, CallHarmless
  <2>2. Quiet
    BY <2>0, CallQuiet
  <2> QED
    BY <1>1, <2>1, <2>2
<1>4. CASE Halt
  <2>1. Harmless /\ Saved
    BY <1>4, CallHarmless, CallSaved
  <2> QED
    BY <1>1, <2>1
<1>5. CASE UNCHANGED vars
  <2>1. Harmless /\ Quiet
    BY <1>5, CallHarmless DEF vars, Quiet, Kept, Moved, MovesOn
  <2> QED
    BY <1>1, <2>1
<1>6. ASSUME NEW t \in Threads,
             \/ Resume(t) \/ WorkerQuits(t) \/ TakeInbox(t) \/ RunCompact(t)
             \/ RefuseTurn(t) \/ SeesCancel(t) \/ CallTool(t) \/ RaiseFormLost(t)
             \/ PromptChildLost(t) \/ JoinChild(t) \/ JudgeEnd(t) \/ AfterFailure(t)
      PROVE Served'
  <2>1. Harmless
    BY <1>6, LookHarmless
  <2>2. Quiet
    BY <1>6, LookQuiet
  <2> QED
    BY <1>1, <2>1, <2>2
<1>7. ASSUME NEW t \in Threads, DeliverInbox(t)
      PROVE Served'
  <2>1. Harmless
    BY <1>7, LookHarmless, OwnHarmless
  <2>2. Quiet \/ Saved
    <3>1. CASE Silent
      <4>1. thread[t] # None /\ \E place \in Places \ {"spawned"} : MoveTo(t, place)
        BY <1>7 DEF DeliverInbox, At, Places
      <4> QED
        BY <3>1, <4>1, MoveMoved DEF Quiet, Silent, Kept
    <3> QED
      BY <1>7, <3>1, TurnSaved
  <2> QED
    BY <1>1, <2>1, <2>2
<1>8. ASSUME NEW t \in Threads,
             \/ OpenTurn(t) \/ RaiseForm(t) \/ RequestPermission(t) \/ PermissionAnswered(t)
             \/ AwaitForm(t) \/ ScriptEnds(t) \/ PipeCloses(t) \/ TakePending(t) \/ TakeSteer(t)
      PROVE Served'
  <2>1. Harmless
    BY <1>8, OwnHarmless
  <2>2. Quiet
    BY <1>8, FieldQuiet
  <2> QED
    BY <1>1, <2>1, <2>2
<1>9. ASSUME NEW t \in Threads,
             \/ TurnInterrupted(t) \/ TurnFails(t) \/ TurnSucceeds(t) \/ ScriptFails(t)
             \/ UserMessage(t) \/ Declined(t)
      PROVE Served'
  <2>1. Harmless
    BY <1>9, OwnHarmless
  <2>2. Saved
    BY <1>9, TurnSaved
  <2> QED
    BY <1>1, <2>1, <2>2
<1>10. ASSUME NEW t \in Threads, WorkerStep(t)
       PROVE Served'
  BY <1>6, <1>7, <1>8, <1>9, <1>10, ExitServed, StartersServed DEF WorkerStep
<1>11. ASSUME NEW t \in Threads, ScriptStep(t)
       PROVE Served'
  BY <1>6, <1>8, <1>9, <1>11, SpawnServed DEF ScriptStep
<1> QED
  BY <1>2, <1>3, <1>4, <1>5, <1>10, <1>11, ResumeServed, RestartServed DEF Next

LEMMA ServedInit == Init => Served
<1> SUFFICES ASSUME Init PROVE Served
  OBVIOUS
<1>1. \A s \in Sessions : sess[s] = Unmade
  BY DEF Init
<1>2. \A t \in Threads : thread[t] = None
  BY DEF Init
<1> QED
  BY <1>1, <1>2 DEF Served, ChildMade, At, QueueServed, Serves, Empty, Unmade

(* No lost wake-up: whatever was accepted into a queue or an inbox has a     *)
(* worker to take it, and a session marked running has one, except one whose *)
(* child was deleted (prompt, _start, _worker, _child_settled).              *)
THEOREM QueuesServed == Spec => []QueueServed
<1>1. TypeOK /\ ChildKnown /\ WorkerInv /\ Served /\ [Next]_vars => (TypeOK /\ ChildKnown /\ WorkerInv /\ Served)'
  <2>1. TypeOK /\ ChildKnown /\ WorkerInv /\ [Next]_vars => (TypeOK /\ ChildKnown /\ WorkerInv)'
    BY TypeStep, WorkerStepInv
  <2> QED
    BY <2>1, ServedStep
<1>2. Served => QueueServed
  BY DEF Served
<1> QED
  BY <1>1, <1>2, TypeInit, WorkerInit, ServedInit, PTL DEF Spec

-----------------------------------------------------------------------------
(* Finished turns                                                          *)

(* Every worker that leaves its turn leaves it off the file.               *)
TurnsLeft ==
    \A t \in Threads :
        (InTurn(thread, t) /\ thread'[t] # None /\ ~InTurn(thread', t))
            => (store'[On(t)] = None \/ ~store'[On(t)].current)

(* The worker that moves is the only one that can leave a turn.            *)
LEMMA MoveLeaves ==
    ASSUME TypeOK, NEW t \in Threads, thread[t] # None, NEW place \in Places, MoveTo(t, place),
           \/ place \in TurnPlaces \/ thread[t].at \notin TurnPlaces
           \/ store'[On(t)] = None \/ ~store'[On(t)].current
    PROVE TurnsLeft
<1>1. thread'[t].at = place /\ \A v \in Threads \ {t} : thread'[v] = thread[v]
  BY DEF TypeOK, MoveTo, ThreadRow
<1> QED
  BY <1>1 DEF TurnsLeft, InTurn

(* Workers that end or start leave no turn.                                *)
LEMMA OthersLeave ==
    ASSUME \A v \in Threads : thread'[v] = thread[v] \/ thread'[v] = None \/ thread[v] = None
    PROVE TurnsLeft
BY DEF TurnsLeft, InTurn

(* The steps inside a turn, or outside one.                                *)
LEMMA InsideLeaves ==
    ASSUME TypeOK, NEW t \in Threads,
           \/ TakeInbox(t) \/ RunCompact(t) \/ RefuseTurn(t) \/ SeesCancel(t) \/ CallTool(t)
           \/ JoinChild(t) \/ JudgeEnd(t) \/ AfterFailure(t) \/ OpenTurn(t) \/ RaiseForm(t)
           \/ RequestPermission(t) \/ PermissionAnswered(t) \/ AwaitForm(t) \/ ScriptEnds(t)
           \/ PipeCloses(t) \/ TakePending(t) \/ TakeSteer(t) \/ UserMessage(t) \/ DeliverInbox(t)
    PROVE TurnsLeft
<1> USE DEF At
<1>1. thread[t] # None
  BY DEF TakeInbox, RunCompact, RefuseTurn, SeesCancel, CallTool, JoinChild, JudgeEnd,
         AfterFailure, OpenTurn, RaiseForm, RequestPermission, PermissionAnswered, AwaitForm,
         ScriptEnds, PipeCloses, TakePending, TakeSteer, UserMessage, DeliverInbox
<1>2. \E place \in Places :
        MoveTo(t, place) /\ (place \in TurnPlaces \/ thread[t].at \notin TurnPlaces)
  <2> USE DEF Places, TurnPlaces
  <2>1. CASE TakeInbox(t) \/ RunCompact(t) \/ RefuseTurn(t) \/ SeesCancel(t) \/ CallTool(t)
    BY <2>1 DEF TakeInbox, RunCompact, RefuseTurn, SeesCancel, CallTool
  <2>2. CASE JoinChild(t) \/ JudgeEnd(t) \/ AfterFailure(t)
    BY <2>2 DEF JoinChild, JudgeEnd, AfterFailure
  <2>3. CASE OpenTurn(t) \/ RaiseForm(t) \/ RequestPermission(t) \/ PermissionAnswered(t)
    BY <2>3 DEF OpenTurn, RaiseForm, RequestPermission, PermissionAnswered
  <2>4. CASE AwaitForm(t) \/ ScriptEnds(t) \/ PipeCloses(t)
    BY SMTT(30), <2>4 DEF AwaitForm, ScriptEnds, PipeCloses
  <2>5. CASE TakePending(t) \/ TakeSteer(t)
    BY <2>5 DEF TakePending, TakeSteer
  <2>6. CASE UserMessage(t) \/ DeliverInbox(t)
    BY <2>6 DEF UserMessage, DeliverInbox
  <2> QED
    BY <2>1, <2>2, <2>3, <2>4, <2>5, <2>6
<1> QED
  BY <1>1, <1>2, MoveLeaves

(* A turn's ends save it as no longer current.                             *)
LEMMA EndsLeave ==
    ASSUME TypeOK, NEW t \in Threads,
           \/ TurnInterrupted(t) \/ TurnFails(t) \/ TurnSucceeds(t) \/ ScriptFails(t)
           \/ Declined(t)
    PROVE TurnsLeft
<1> USE DEF At
<1>1. thread[t] # None /\ Save
  BY DEF TurnInterrupted, TurnFails, TurnSucceeds, ScriptFails, Idle, Declined
<1>2. On(t) \in Sessions /\ Me(t) \in SessionRow
  BY <1>1, OnType
<1>3. sess'[On(t)].current = FALSE
  <2>1. CASE TurnInterrupted(t) \/ TurnFails(t) \/ TurnSucceeds(t) \/ ScriptFails(t)
    <3>1. \E outcome : sess' = [sess EXCEPT ![On(t)] = Idled(Me(t), outcome)]
      BY <2>1 DEF TurnInterrupted, TurnFails, TurnSucceeds, ScriptFails, Idle, Me
    <3>2. \A outcome : Idled(Me(t), outcome).current = FALSE
      BY <1>2 DEF Idled, SessionRow
    <3> QED
      BY <1>2, <3>1, <3>2 DEF TypeOK
  <2>2. CASE Declined(t)
    BY <1>2, <2>2 DEF Declined, TypeOK, SessionRow
  <2> QED
    BY <2>1, <2>2
<1>4. store'[On(t)] = None \/ ~store'[On(t)].current
  BY <1>1, <1>2, <1>3 DEF Save, Stored
<1>5. \E place \in Places : MoveTo(t, place)
  BY DEF TurnInterrupted, TurnFails, TurnSucceeds, ScriptFails, Idle, Declined, Places
<1> QED
  BY <1>1, <1>4, <1>5, MoveLeaves

(* A resumed session with no turn on file has none to leave.               *)
LEMMA ResumeLeaves ==
    ASSUME TypeOK, StoreMatches, NEW t \in Threads, Resume(t) PROVE TurnsLeft
<1>1. thread[t] # None /\ store' = store
  BY DEF Resume, At, Silent
<1>2. On(t) \in Sessions /\ Me(t) \in SessionRow
  BY <1>1, OnType
<1>3. CASE Me(t).current
  <2>1. MoveTo(t, "opening") /\ "opening" \in Places /\ "opening" \in TurnPlaces
    BY <1>3 DEF Resume, Places, TurnPlaces
  <2> QED
    BY <1>1, <2>1, MoveLeaves
<1>4. CASE ~Me(t).current
  <2>1. MoveTo(t, "loop") /\ "loop" \in Places
    BY <1>4 DEF Resume, Places
  <2>2. ASSUME store[On(t)] # None PROVE ~store[On(t)].current
    <3>1. store[On(t)] \in StoredRow /\ sess[On(t)].listed
      BY <1>2, <2>2 DEF TypeOK, StoreMatches
    <3>2. [store[On(t)] EXCEPT !.running = sess[On(t)].running] = Stored(sess[On(t)])
      BY <1>2, <3>1 DEF StoreMatches
    <3>3. store[On(t)].current = sess[On(t)].current
      BY <3>1, <3>2 DEF Stored, StoredRow
    <3> QED
      BY <1>4, <3>3 DEF Me
  <2> QED
    BY <1>1, <2>1, <2>2, MoveLeaves
<1> QED
  BY <1>3, <1>4

(* _start leaves the caller's thread as the caller says, and starts others *)
(* on free threads only.                                                   *)
LEMMA StartLeaves ==
    ASSUME TypeOK, NEW s, NEW row, NEW others \in [Threads -> ThreadRow \cup {None}],
           \A v \in Threads : \/ others[v] = thread[v]
                              \/ others[v].at \in TurnPlaces
                              \/ thread[v].at \notin TurnPlaces,
           Start(s, row, others)
    PROVE TurnsLeft
<1>1. CASE thread' = others
  BY <1>1 DEF TurnsLeft, InTurn
<1>2. CASE \E u \in Threads : IsFree(u) /\ thread' = [others EXCEPT ![u] = Worker(s, "loop")]
  BY <1>2 DEF TurnsLeft, InTurn, IsFree
<1> QED
  BY <1>1, <1>2 DEF Start

(* Prompting a child stays in the turn, a report is after it.              *)
LEMMA StartersLeave ==
    ASSUME TypeOK,
           \/ \E s \in Sessions, kind \in Kinds : Submit(s, kind)
           \/ \E t \in Threads : PromptChild(t) \/ ChildReports(t)
    PROVE TurnsLeft
<1>0. thread \in [Threads -> ThreadRow \cup {None}]
  BY DEF TypeOK
<1>1. ASSUME NEW s \in Sessions, NEW kind \in Kinds, Submit(s, kind) PROVE TurnsLeft
  BY <1>0, <1>1, StartLeaves DEF Submit
<1>2. ASSUME NEW t \in Threads, PromptChild(t) PROVE TurnsLeft
  <2> DEFINE place == IF sess[thread[t].child].background THEN "run" ELSE "joining"
             others == [thread EXCEPT ![t].at = place]
  <2>1. thread[t] # None /\ \E s, row : Start(s, row, others)
    BY <1>2 DEF PromptChild, At
  <2>2. place \in Places /\ place \in TurnPlaces
    BY DEF Places, TurnPlaces
  <2> HIDE DEF place
  <2>3. others \in [Threads -> ThreadRow \cup {None}] /\ others[t].at = place
        /\ \A v \in Threads \ {t} : others[v] = thread[v]
    BY <1>0, <2>1, <2>2, NoneAssumption DEF ThreadRow
  <2> HIDE DEF others
  <2> QED
    BY SMTT(30), <2>1, <2>2, <2>3, StartLeaves
<1>3. ASSUME NEW t \in Threads, ChildReports(t) PROVE TurnsLeft
  <2> DEFINE others == [thread EXCEPT ![t].at = "loop"]
  <2>1. thread[t] # None /\ thread[t].at \notin TurnPlaces
    BY <1>3 DEF ChildReports, At, TurnPlaces
  <2>2. others \in [Threads -> ThreadRow \cup {None}]
        /\ \A v \in Threads \ {t} : others[v] = thread[v]
    BY <1>0, <2>1, NoneAssumption DEF ThreadRow, Places
  <2>3. (\E s, row : Start(s, row, others)) \/ MoveTo(t, "loop")
    BY <1>3 DEF ChildReports
  <2>4. "loop" \in Places
    BY DEF Places
  <2> HIDE DEF others
  <2> QED
    BY <2>1, <2>2, <2>3, <2>4, StartLeaves, MoveLeaves
<1> QED
  BY <1>1, <1>2, <1>3

(* No step takes a worker out of a turn that is still current on file.     *)
LEMMA StepLeaves ==
    ASSUME TypeOK, StoreMatches, [Next]_vars PROVE TurnsLeft
<1>1. CASE Client
  <2>1. CASE \E s \in Sessions : Create(s) \/ Interrupt(s) \/ Remove(s)
    BY <2>1, OthersLeave DEF Create, Interrupt, Remove
  <2> QED
    BY <1>1, <2>1, StartersLeave DEF Client
<1>2. CASE Replier
  BY <1>2, OthersLeave DEF Replier, CancelForm, ReplyPermission
<1>3. ASSUME NEW t \in Threads, WorkerQuits(t) \/ RaiseFormLost(t) \/ PromptChildLost(t) \/ WorkerExits(t)
      PROVE TurnsLeft
  <2>1. thread' = Gone(t)
    BY <1>3 DEF WorkerQuits, RaiseFormLost, PromptChildLost, WorkerExits
  <2> QED
    BY <2>1, OthersLeave DEF Gone, TypeOK
<1>4. ASSUME NEW t \in Threads, NEW c \in Sessions, NEW background \in Modes,
             SpawnChild(t, c, background)
      PROVE TurnsLeft
  <2>1. thread'[t].at = "spawned" /\ \A v \in Threads \ {t} : thread'[v] = thread[v]
    BY <1>4 DEF SpawnChild, At, TypeOK, ThreadRow
  <2> QED
    BY <2>1 DEF TurnsLeft, InTurn, TurnPlaces
<1>5. ASSUME NEW t \in Threads, WorkerStep(t) PROVE TurnsLeft
  BY <1>3, <1>5, InsideLeaves, EndsLeave, ResumeLeaves, StartersLeave DEF WorkerStep
<1>6. ASSUME NEW t \in Threads, ScriptStep(t) PROVE TurnsLeft
  BY <1>3, <1>4, <1>6, InsideLeaves, EndsLeave DEF ScriptStep
<1>7. CASE Halt \/ Restart \/ UNCHANGED vars
  BY <1>7, OthersLeave DEF Halt, Restart, vars
<1>8. ASSUME NEW s \in Sessions, ResumeSession(s) PROVE TurnsLeft
  BY <1>8, OthersLeave DEF ResumeSession, IsFree, TypeOK
<1> QED
  BY <1>1, <1>2, <1>5, <1>6, <1>7, <1>8 DEF Next

(* A restart never runs a finished turn again: by whichever of its ends a  *)
(* worker leaves a turn, the turn is off the file when it does.            *)
THEOREM FinishedStaysFinished == Spec => FinishedNotRerun
<1>1. TypeOK /\ StoreMatches /\ [Next]_vars => [TurnsLeft]_vars
  BY StepLeaves
<1> QED
  BY <1>1, TypeCorrect, StoreUpToDate, PTL DEF Spec, FinishedNotRerun, TurnsLeft

=============================================================================
