--------------------------- MODULE HubChunkProofs ---------------------------
(* Machine-checked facts about the chunk lifecycle, for every set of       *)
(* chunks, runners, questions and epochs, every graph and every bound.     *)
EXTENDS HubChunk, TLAPS

USE DEF Seeded, Ended, Held

(* Every handler writes rows of the declared shape.                        *)
LEMMA FreshRowType == ASSUME NEW s \in Statuses PROVE FreshRow(s) \in Row
BY BoundAssumption, NoneAssumption DEF FreshRow, Row

(* resume_chunk writes a status of the enum, also for a row seeded paused.  *)
LEMMA ResumedStatusType ==
    ASSUME NEW row \in Row PROVE ResumedStatus(row) \in Statuses
BY DEF Row, ResumedStatus, Statuses

(* _advance answers one of the four outcomes and writes a row of the shape. *)
LEMMA AdvancedType ==
    ASSUME NEW row \in Row, NEW target \in Nodes \cup {TERMINAL, Dangling, None}
    PROVE  Outcome(target) \in Outcomes /\ Advanced(row, target) \in Row
<1>1. Outcome(target) \in Outcomes
  BY DEF Outcome, Outcomes
<1>2. Outcome(target) # "failure" => target \in Nodes \cup {TERMINAL}
  BY GraphAssumption DEF Outcome
<1>3. CASE Outcome(target) = "failure" BY <1>1, <1>3 DEF Advanced
<1>4. CASE Outcome(target) # "failure"
  <2> DEFINE s == IF Outcome(target) = "next" THEN "running" ELSE "done"
  <2>1. s \in Statuses BY DEF Statuses
  <2>2. Advanced(row, target) = [row EXCEPT !.current_node = target, !.status = s]
    BY <1>4 DEF Advanced
  <2> HIDE DEF s
  <2>3. [row EXCEPT !.current_node = target, !.status = s] \in Row
    BY <1>2, <1>4, <2>1 DEF Row
  <2>4. QED BY <1>1, <2>2, <2>3
<1>5. QED BY <1>3, <1>4

(* A route given up by a host retire leaves a row of the declared shape.    *)
LEMMA RouteGivenUpType == ASSUME NEW row \in Row PROVE RouteGivenUp(row) \in Row
<1> DEFINE s == IF row.status = "running" THEN "ready" ELSE row.status
<1>1. s \in Statuses BY DEF Row, Statuses
<1>2. RouteGivenUp(row) = [row EXCEPT !.claimed = FALSE, !.route_runner = None, !.status = s]
  BY DEF RouteGivenUp, Row
<1> HIDE DEF s
<1>3. [row EXCEPT !.claimed = FALSE, !.route_runner = None, !.status = s] \in Row
  BY <1>1 DEF Row
<1>4. QED BY <1>2, <1>3

(* The registry verbs write registry rows of the declared shape.            *)
LEMMA RegistryWrite ==
    ASSUME NEW row \in RunnerRow, NEW b \in BOOLEAN
    PROVE  /\ [row EXCEPT !.paused = b] \in RunnerRow
           /\ [row EXCEPT !.authed = b] \in RunnerRow
           /\ [row EXCEPT !.retired = TRUE, !.authed = FALSE] \in RunnerRow
BY DEF RunnerRow

(* A retire, repeated or not, leaves the registry typed.                    *)
LEMMA RetiredRegistryType ==
    ASSUME TypeOK, NEW r \in Runners PROVE RetiredRegistry(r) \in [Runners -> RunnerRow]
<1>1. runner[r] \in RunnerRow BY DEF TypeOK
<1>2. [runner[r] EXCEPT !.retired = TRUE, !.authed = FALSE] \in RunnerRow
  BY <1>1, RegistryWrite
<1>3. QED BY <1>2 DEF RetiredRegistry, TypeOK

(* The rows, registry and levers start in their sets.                      *)
LEMMA InitType == Init => TypeOK
BY BoundAssumption DEF Init, TypeOK, RunnerRow

(* Every step keeps every row, question, registry bit and lever in its set. *)
LEMMA TypeStep == TypeOK /\ [Next]_vars => TypeOK'
<1> SUFFICES ASSUME TypeOK, [Next]_vars PROVE TypeOK' OBVIOUS
<1>1. ASSUME NEW c \in Chunks, NEW s \in SeedStatuses, SeedChunk(c, s) PROVE TypeOK'
  <2>1. FreshRow(s) \in Row BY FreshRowType, BoundAssumption
  <2>2. QED BY <1>1, <2>1 DEF SeedChunk, TypeOK
<1>2. ASSUME NEW r \in Runners, NEW c \in Chunks, PauseChunk(r, c) PROVE TypeOK'
  <2>1. chunk[c] \in Row BY <1>2 DEF PauseChunk, TypeOK
  <2>2. [chunk[c] EXCEPT !.status_before_pause = chunk[c].status,
                         !.status = StatusIfPaused(chunk[c].status)] \in Row
    <3>1. chunk[c].status \in Statuses BY <2>1 DEF Row
    <3>2. StatusIfPaused(chunk[c].status) \in Statuses BY <3>1 DEF StatusIfPaused, Statuses
    <3>3. QED BY <2>1, <3>1, <3>2 DEF Row
  <2>3. QED BY <1>2, <2>1, <2>2 DEF PauseChunk, TypeOK
<1>3. ASSUME NEW r \in Runners, NEW c \in Chunks, ResumeChunk(r, c) PROVE TypeOK'
  <2>1. chunk[c] \in Row BY <1>3 DEF ResumeChunk, TypeOK
  <2>2. [chunk[c] EXCEPT !.status = ResumedStatus(chunk[c]), !.status_before_pause = None] \in Row
    BY <2>1, ResumedStatusType DEF Row
  <2>3. QED BY <1>3, <2>1, <2>2 DEF ResumeChunk, TypeOK
<1>4. ASSUME NEW c \in Chunks, StopChunk(c) PROVE TypeOK'
  <2>1. chunk[c] \in Row BY <1>4 DEF StopChunk, TypeOK
  <2>2. [chunk[c] EXCEPT !.status = "stopped", !.claimed = FALSE] \in Row
    BY <2>1 DEF Row, Statuses
  <2>3. QED BY <1>4, <2>1, <2>2 DEF StopChunk, TypeOK
<1>5. ASSUME NEW q \in Questions, AnswerQuestion(q) PROVE TypeOK'
  BY <1>5 DEF AnswerQuestion, TypeOK, QuestionRow
<1>6. ASSUME NEW r \in Runners, NEW c \in Chunks, Claim(r, c) PROVE TypeOK'
  <2>1. chunk[c] \in Row BY <1>6 DEF Claim, GraphReadable, TypeOK
  <2> DEFINE token == [epoch |-> chunk[c].latest_epoch, rekey |-> 0]
             node == IF chunk[c].current_node = None THEN Entry ELSE chunk[c].current_node
             row == [chunk[c] EXCEPT !.claimed = TRUE, !.route_runner = r, !.current_node = node,
                                     !.status = "running", !.live_route_token = token]
  <2>2. token \in Tokens BY <2>1 DEF Row, Tokens
  <2>3. row \in Row BY ZenonT(60), <2>1, <2>2, GraphAssumption DEF Row, Statuses
  <2>4. chunk' = [chunk EXCEPT ![c] = row] /\ issued' = [issued EXCEPT ![c] = @ \cup {token}]
    BY <1>6 DEF Claim, TypeOK
  <2>5. UNCHANGED <<question, runner, levers, retire_lever, seeds, moves>> BY <1>6 DEF Claim
  <2> HIDE DEF token, node, row
  <2>6. QED BY <2>2, <2>3, <2>4, <2>5 DEF TypeOK
<1>7. ASSUME NEW r \in Runners, NEW c \in Chunks, RekeyRouteToken(r, c) PROVE TypeOK'
  <2>1. chunk[c] \in Row BY <1>7 DEF RekeyRouteToken, TypeOK
  <2> DEFINE token == RekeyedToken(chunk[c])
             row == [chunk[c] EXCEPT !.rekey_count = @ + 1, !.live_route_token = token]
  <2>2. token \in Tokens BY <2>1 DEF Row, Tokens, RekeyedToken
  <2>3. row \in Row
    <3>1. chunk[c].rekey_count + 1 \in Nat BY <2>1 DEF Row
    <3> HIDE DEF token
    <3>2. QED BY <2>1, <2>2, <3>1 DEF Row
  <2>4. chunk' = [chunk EXCEPT ![c] = row] /\ issued' = [issued EXCEPT ![c] = @ \cup {token}]
    BY <1>7 DEF RekeyRouteToken, TypeOK
  <2>5. UNCHANGED <<question, runner, levers, retire_lever, seeds, moves>> BY <1>7 DEF RekeyRouteToken
  <2> HIDE DEF token, row
  <2>6. QED BY <2>2, <2>3, <2>4, <2>5 DEF TypeOK
<1>8. ASSUME NEW r \in Runners, NEW c \in Chunks, NEW e \in Epochs, NEW t \in issued[c],
             Release(r, c, e, t) PROVE TypeOK'
  <2>1. chunk[c] \in Row BY <1>8 DEF Release, TypeOK
  <2>2. [chunk[c] EXCEPT !.claimed = FALSE, !.route_runner = None,
                         !.status = "ready", !.live_route_token = None] \in Row
    BY <2>1 DEF Row, Statuses
  <2>3. QED BY <1>8, <2>1, <2>2 DEF Release, TypeOK
<1>9. ASSUME NEW r \in Runners, NEW c \in Chunks, NEW e \in Epochs, LeaseMinted(r, c, e) PROVE TypeOK'
  <2>1. chunk[c] \in Row BY <1>9 DEF LeaseMinted, TypeOK
  <2>2. [chunk[c] EXCEPT !.latest_epoch = NewestEpoch(@, e)] \in Row
    BY <2>1 DEF Row, NewestEpoch
  <2>3. QED BY <1>9, <2>1, <2>2 DEF LeaseMinted, TypeOK
<1>10. ASSUME NEW r \in Runners, NEW c \in Chunks, NEW e \in Epochs, EscalationRecorded(r, c, e)
       PROVE TypeOK'
  <2>1. chunk[c] \in Row BY <1>10 DEF EscalationRecorded, TypeOK
  <2>2. [chunk[c] EXCEPT !.escalation = e] \in Row BY <2>1 DEF Row
  <2>3. QED BY <1>10, <2>1, <2>2 DEF EscalationRecorded, TypeOK
<1>11. ASSUME NEW r \in Runners, NEW q \in Questions, NEW c \in Chunks, NEW e \in Epochs,
              QuestionAsked(r, q, c, e) PROVE TypeOK'
  BY <1>11 DEF QuestionAsked, TypeOK, QuestionRow
<1>12. ASSUME NEW r \in Runners, NEW q \in Questions, NEW c \in Chunks, AnswerDelivered(r, q, c)
       PROVE TypeOK'
  BY <1>12 DEF AnswerDelivered, TypeOK, QuestionRow
<1>13. ASSUME NEW r \in Runners, NEW c \in Chunks, NEW n \in Nodes, NEW e \in Epochs,
              NEW ch \in ChoiceNames, ApplyCompletion(r, c, n, e, ch) PROVE TypeOK'
  <2> DEFINE target == Goto[n][ch]
             row == [Advanced(chunk[c], target) EXCEPT
                       !.applied[<<n, e>>] = Outcome(target), !.last_response = Outcome(target)]
  <2>1. chunk[c] \in Row BY <1>13 DEF ApplyCompletion, GraphReadable, TypeOK
  <2>2. target \in Nodes \cup {TERMINAL, Dangling, None} BY GraphAssumption
  <2>3. Outcome(target) \in Outcomes /\ Advanced(chunk[c], target) \in Row
    BY <2>1, <2>2, AdvancedType
  <2>4. row \in Row BY <2>3 DEF Row, Keys
  <2>5. chunk' = [chunk EXCEPT ![c] = row] BY <1>13 DEF ApplyCompletion
  <2>6. moves' = [moves EXCEPT ![c][<<n, e>>] = IF Outcome(target) = "failure" THEN @ ELSE @ + 1]
    BY <1>13 DEF ApplyCompletion
  <2>7. UNCHANGED <<question, runner, levers, retire_lever, seeds, issued>> BY <1>13 DEF ApplyCompletion
  <2>8. moves' \in [Chunks -> [Keys -> Nat]]
    <3>1. <<n, e>> \in Keys BY DEF Keys
    <3>2. QED BY <2>6, <3>1 DEF TypeOK
  <2> HIDE DEF target, row
  <2>9. QED BY <2>4, <2>5, <2>7, <2>8 DEF TypeOK
<1>14. ASSUME NEW r \in Runners, NEW c \in Chunks, NEW n \in Nodes \cup {TERMINAL}, NEW e \in Epochs,
              ApplyDecision(r, c, n, e) PROVE TypeOK'
  <2>1. chunk[c] \in Row BY <1>14 DEF ApplyDecision, GraphReadable, TypeOK
  <2>2. [chunk[c] EXCEPT !.status = "needs_human"] \in Row BY <2>1 DEF Row, Statuses
  <2>3. QED BY <1>14, <2>1, <2>2 DEF ApplyDecision, TypeOK
<1>15. ASSUME NEW r \in Runners, NEW c \in Chunks, HubAdvance(r, c) PROVE TypeOK'
  <2>1. chunk[c] \in Row BY <1>15 DEF HubAdvance, GraphReadable, TypeOK
  <2>2. [chunk[c] EXCEPT !.status = "done"] \in Row BY <2>1 DEF Row, Statuses
  <2>3. QED BY <1>15, <2>1, <2>2 DEF HubAdvance, TypeOK
<1>16. ASSUME NEW r \in Runners, \/ \E p \in BOOLEAN : SetPaused(r, p)
                               \/ RevokeToken(r) \/ Enroll(r) \/ Retire(r)
       PROVE TypeOK'
  <2>1. runner[r] \in RunnerRow BY DEF TypeOK
  <2>2. ASSUME NEW p \in BOOLEAN, SetPaused(r, p) PROVE TypeOK'
    <3>1. [runner[r] EXCEPT !.paused = p] \in RunnerRow BY <2>1, RegistryWrite
    <3>2. QED BY <2>2, <3>1 DEF SetPaused, TypeOK
  <2>3. CASE RevokeToken(r)
    <3>1. [runner[r] EXCEPT !.authed = FALSE] \in RunnerRow BY <2>1, RegistryWrite
    <3>2. QED BY <2>3, <3>1 DEF RevokeToken, TypeOK
  <2>4. CASE Enroll(r)
    <3>1. [runner[r] EXCEPT !.authed = TRUE] \in RunnerRow BY <2>1, RegistryWrite
    <3>2. QED BY <2>4, <3>1 DEF Enroll, TypeOK
  <2>5. CASE Retire(r) BY <2>5, RetiredRegistryType DEF Retire, TypeOK
  <2>6. QED BY <1>16, <2>2, <2>3, <2>4, <2>5
<1>17. ASSUME NEW r \in Runners, NEW force \in BOOLEAN, RetireHostRunner(r, force) PROVE TypeOK'
  <2>1. \A c \in Chunks : c \in HeldBy(r) => chunk[c] \in Row BY DEF HeldBy, TypeOK
  <2>2. \A c \in Chunks : c \in HeldBy(r) => RouteGivenUp(chunk[c]) \in Row
    BY <2>1, RouteGivenUpType
  <2>3. chunk' \in [Chunks -> Row \cup {None}] BY <1>17, <2>2 DEF RetireHostRunner, TypeOK
  <2>4. QED BY <1>17, <2>3, RetiredRegistryType DEF RetireHostRunner, TypeOK
<1>18. ASSUME NEW r \in Runners, NEW force \in BOOLEAN, RetireHostRunnerConflict(r, force) PROVE TypeOK'
  <2>1. runner' \in [Runners -> RunnerRow]
    BY <1>18, RetiredRegistryType DEF RetireHostRunnerConflict, TypeOK
  <2>2. QED BY <1>18, <2>1 DEF RetireHostRunnerConflict, TypeOK
<1>19. ASSUME NEW c \in Chunks, NEW k \in Levers, ArmLever(c, k) \/ ConsumeLever(c, k) PROVE TypeOK'
  BY <1>19, BoundAssumption DEF ArmLever, ConsumeLever, TypeOK
<1>20. ASSUME NEW how \in {"conflict", "interrupted"}, ArmRetireLever(how) PROVE TypeOK'
  BY <1>20 DEF ArmRetireLever, TypeOK
<1>21. CASE UNCHANGED vars BY <1>21 DEF vars, TypeOK
<1>22. QED
  BY <1>1, <1>2, <1>3, <1>4, <1>5, <1>6, <1>7, <1>8, <1>9, <1>10, <1>11, <1>12, <1>13, <1>14,
     <1>15, <1>16, <1>17, <1>18, <1>19, <1>20, <1>21
     DEF Next, Operator, RunnerCall, Fact, Registry

(* TypeOK holds of every behaviour of the chunk lifecycle.                 *)
THEOREM TypeCorrect == Spec => []TypeOK
BY InitType, TypeStep, PTL DEF Spec

-----------------------------------------------------------------------------
(* What one step does to one chunk, with the functions over Chunks peeled  *)
(* off: the safety proofs below argue about these row changes only.        *)

Kept(c) == seeds'[c] = seeds[c] /\ moves'[c] = moves[c] /\ issued'[c] = issued[c]

Reseeded(c) ==
    /\ \E s \in Statuses \ {"running"} : chunk'[c] = FreshRow(s)
    /\ seeds'[c] = seeds[c] + 1
    /\ moves'[c] = [k \in Keys |-> 0]
    /\ issued'[c] = {}

Granted(c) ==
    /\ ClaimGranted(c)
    /\ \E r \in {x \in Runners : RunnerMayClaim(x)} :
         LET token == [epoch |-> chunk[c].latest_epoch, rekey |-> 0]
             node == IF chunk[c].current_node = None THEN Entry ELSE chunk[c].current_node
         IN /\ chunk'[c] = [chunk[c] EXCEPT !.claimed = TRUE, !.route_runner = r,
                                            !.current_node = node, !.status = "running",
                                            !.live_route_token = token]
            /\ issued'[c] = issued[c] \cup {token}
    /\ seeds'[c] = seeds[c] /\ moves'[c] = moves[c]

Rekeyed(c) ==
    /\ chunk[c].claimed
    /\ chunk'[c] = [chunk[c] EXCEPT !.rekey_count = chunk[c].rekey_count + 1,
                                    !.live_route_token = RekeyedToken(chunk[c])]
    /\ issued'[c] = issued[c] \cup {RekeyedToken(chunk[c])}
    /\ seeds'[c] = seeds[c] /\ moves'[c] = moves[c]

Completed(c) ==
    /\ \E n \in Nodes, e \in Epochs, ch \in ChoiceNames :
         /\ CompletionAdmitted(c, n, e)
         /\ chunk'[c] = [Advanced(chunk[c], Goto[n][ch]) EXCEPT
                           !.applied[<<n, e>>] = Outcome(Goto[n][ch]),
                           !.last_response = Outcome(Goto[n][ch])]
         /\ moves'[c] = [moves[c] EXCEPT ![<<n, e>>] =
                           IF Outcome(Goto[n][ch]) = "failure" THEN @ ELSE @ + 1]
    /\ seeds'[c] = seeds[c] /\ issued'[c] = issued[c]

Paused(c) ==
    /\ Pausable(chunk[c].status) /\ chunk[c].status # "paused"
    /\ chunk'[c] = [chunk[c] EXCEPT !.status_before_pause = chunk[c].status,
                                    !.status = StatusIfPaused(chunk[c].status)]

Released(c) ==
    /\ chunk[c].claimed /\ chunk[c].status = "running"
    /\ chunk'[c] = [chunk[c] EXCEPT !.claimed = FALSE, !.route_runner = None,
                                    !.status = "ready", !.live_route_token = None]

GivenUp(c) == chunk[c].claimed /\ chunk'[c] = RouteGivenUp(chunk[c])

Resumed(c) ==
    chunk'[c] = [chunk[c] EXCEPT !.status = ResumedStatus(chunk[c]), !.status_before_pause = None]

Fenced(c) ==
    \E e \in Epochs :
        \/ chunk'[c] = [chunk[c] EXCEPT !.latest_epoch = NewestEpoch(chunk[c].latest_epoch, e)]
        \/ chunk'[c] = [chunk[c] EXCEPT !.escalation = e]

StatusSet(c) ==
    \/ chunk'[c] = [chunk[c] EXCEPT !.status = "stopped", !.claimed = FALSE]
    \/ chunk'[c] = [chunk[c] EXCEPT !.status = "needs_human"]
    \/ /\ chunk[c].current_node \in HubNodes
       /\ chunk'[c] = [chunk[c] EXCEPT !.status = "done"]

RowStep(c) ==
    \/ chunk'[c] = chunk[c] /\ Kept(c)
    \/ Reseeded(c)
    \/ /\ chunk[c] \in Row
       /\ \/ Granted(c) \/ Rekeyed(c) \/ Completed(c)
          \/ Kept(c) /\ (Paused(c) \/ Resumed(c) \/ Released(c) \/ GivenUp(c)
                                  \/ Fenced(c) \/ StatusSet(c))

(* Every step does to every chunk one of the row changes above.            *)
LEMMA StepByRow == TypeOK /\ [Next]_vars => \A c \in Chunks : RowStep(c)
<1> SUFFICES ASSUME TypeOK, [Next]_vars, NEW d \in Chunks PROVE RowStep(d) OBVIOUS
<1>1. ASSUME NEW c \in Chunks, NEW s \in SeedStatuses, SeedChunk(c, s) PROVE RowStep(d)
  <2>1. s \in Statuses \ {"running"} BY <1>1, BoundAssumption DEF SeedChunk
  <2>2. CASE c = d BY <1>1, <2>1, <2>2 DEF SeedChunk, TypeOK, RowStep, Reseeded
  <2>3. CASE c # d BY <1>1, <2>3 DEF SeedChunk, TypeOK, RowStep, Kept
  <2>4. QED BY <2>2, <2>3
<1>2. ASSUME NEW r \in Runners, NEW c \in Chunks, PauseChunk(r, c) PROVE RowStep(d)
  BY <1>2 DEF PauseChunk, TypeOK, RowStep, Kept, Paused
<1>3. ASSUME NEW r \in Runners, NEW c \in Chunks, ResumeChunk(r, c) PROVE RowStep(d)
  BY <1>3 DEF ResumeChunk, TypeOK, RowStep, Kept, Resumed
<1>4. ASSUME NEW c \in Chunks, StopChunk(c) PROVE RowStep(d)
  BY <1>4 DEF StopChunk, TypeOK, RowStep, Kept, StatusSet
<1>5. ASSUME NEW r \in Runners, NEW c \in Chunks, Claim(r, c) PROVE RowStep(d)
  <2>1. CASE c = d
    <3>1. chunk[d] \in Row BY <1>5, <2>1 DEF Claim, GraphReadable, TypeOK
    <3>2. Granted(d) BY <1>5, <2>1, <3>1 DEF Claim, TypeOK, Granted
    <3>3. QED BY <3>1, <3>2 DEF RowStep
  <2>2. CASE c # d BY <1>5, <2>2 DEF Claim, TypeOK, RowStep, Kept
  <2>3. QED BY <2>1, <2>2
<1>6. ASSUME NEW r \in Runners, NEW c \in Chunks, RekeyRouteToken(r, c) PROVE RowStep(d)
  <2>1. CASE c = d
    <3>1. chunk[d] \in Row BY <1>6, <2>1 DEF RekeyRouteToken, TypeOK
    <3>2. Rekeyed(d) BY <1>6, <2>1, <3>1 DEF RekeyRouteToken, TypeOK, Rekeyed
    <3>3. QED BY <3>1, <3>2 DEF RowStep
  <2>2. CASE c # d BY <1>6, <2>2 DEF RekeyRouteToken, TypeOK, RowStep, Kept
  <2>3. QED BY <2>1, <2>2
<1>7. ASSUME NEW r \in Runners, NEW c \in Chunks, NEW e \in Epochs, NEW t \in issued[c],
             Release(r, c, e, t) PROVE RowStep(d)
  BY <1>7 DEF Release, TypeOK, RowStep, Kept, Released
<1>8. ASSUME NEW r \in Runners, NEW c \in Chunks, NEW e \in Epochs,
             LeaseMinted(r, c, e) \/ EscalationRecorded(r, c, e) PROVE RowStep(d)
  BY <1>8 DEF LeaseMinted, EscalationRecorded, TypeOK, RowStep, Kept, Fenced
<1>9. ASSUME NEW r \in Runners, NEW c \in Chunks, NEW n \in Nodes, NEW e \in Epochs,
             NEW ch \in ChoiceNames, ApplyCompletion(r, c, n, e, ch) PROVE RowStep(d)
  <2>1. CASE c = d
    <3>1. chunk[d] \in Row BY <1>9, <2>1 DEF ApplyCompletion, GraphReadable, TypeOK
    <3>2. Completed(d) BY <1>9, <2>1, <3>1 DEF ApplyCompletion, TypeOK, Completed
    <3>3. QED BY <3>1, <3>2 DEF RowStep
  <2>2. CASE c # d BY <1>9, <2>2 DEF ApplyCompletion, TypeOK, RowStep, Kept
  <2>3. QED BY <2>1, <2>2
<1>10. ASSUME NEW r \in Runners, NEW c \in Chunks, NEW n \in Nodes \cup {TERMINAL}, NEW e \in Epochs,
              ApplyDecision(r, c, n, e) PROVE RowStep(d)
  BY <1>10 DEF ApplyDecision, GraphReadable, TypeOK, RowStep, Kept, StatusSet
<1>11. ASSUME NEW r \in Runners, NEW c \in Chunks, HubAdvance(r, c) PROVE RowStep(d)
  BY <1>11 DEF HubAdvance, GraphReadable, TypeOK, RowStep, Kept, StatusSet
<1>12. ASSUME NEW r \in Runners, NEW force \in BOOLEAN, RetireHostRunner(r, force) PROVE RowStep(d)
  BY <1>12 DEF RetireHostRunner, HeldBy, TypeOK, RowStep, Kept, GivenUp
<1>13. CASE UNCHANGED <<chunk, seeds, moves, issued>> BY <1>13 DEF RowStep, Kept
<1>14. (\E q \in Questions : AnswerQuestion(q)) => UNCHANGED <<chunk, seeds, moves, issued>>
  BY DEF AnswerQuestion
<1>15. ASSUME NEW r \in Runners, NEW q \in Questions, NEW c \in Chunks, NEW e \in Epochs,
              QuestionAsked(r, q, c, e) \/ AnswerDelivered(r, q, c) PROVE RowStep(d)
  BY <1>13, <1>15 DEF QuestionAsked, AnswerDelivered
<1>16. ASSUME NEW r \in Runners, \/ \E p \in BOOLEAN : SetPaused(r, p)
                                \/ RevokeToken(r) \/ Enroll(r) \/ Retire(r)
                                \/ \E force \in BOOLEAN : RetireHostRunnerConflict(r, force)
       PROVE RowStep(d)
  BY <1>13, <1>16 DEF SetPaused, RevokeToken, Enroll, Retire, RetireHostRunnerConflict
<1>17. ASSUME NEW c \in Chunks, NEW k \in Levers, ArmLever(c, k) \/ ConsumeLever(c, k) PROVE RowStep(d)
  BY <1>13, <1>17 DEF ArmLever, ConsumeLever
<1>18. ASSUME NEW how \in {"conflict", "interrupted"}, ArmRetireLever(how) PROVE RowStep(d)
  BY <1>13, <1>18 DEF ArmRetireLever
<1>19. CASE UNCHANGED vars BY <1>13, <1>19 DEF vars
<1>20. 0 \in Epochs BY BoundAssumption
<1>21. QED
  BY <1>1, <1>2, <1>3, <1>4, <1>5, <1>6, <1>7, <1>8, <1>9, <1>10, <1>11, <1>12, <1>13, <1>14,
     <1>15, <1>16, <1>17, <1>18, <1>19, <1>20
     DEF Next, Operator, RunnerCall, Fact, Registry

-----------------------------------------------------------------------------
(* The strengthened invariant of one row.  HeldNotOffered is not inductive *)
(* alone: a resume gives back status_before_pause, so a held paused chunk  *)
(* must have been paused while running; and a held chunk that is done      *)
(* stands at a node no completion leaves.                                  *)

HeldRow(row) ==
    row.claimed =>
        /\ row.status \in {"running", "paused", "needs_human", "done"}
        /\ row.status = "paused" => row.status_before_pause = "running"
        /\ row.status = "done" => row.current_node \in {TERMINAL} \cup HubNodes
        /\ row.route_runner # None /\ row.current_node # None /\ row.live_route_token # None

MovesRow(row, m) ==
    \A k \in Keys : m[k] <= 1 /\ (row.applied[k] = None => m[k] = 0)

IssuedRow(row, ts) == \A t \in ts : t.rekey <= row.rekey_count

RowInv(c) ==
    Seeded(c) => HeldRow(chunk[c]) /\ MovesRow(chunk[c], moves[c]) /\ IssuedRow(chunk[c], issued[c])

ChunkInv == \A c \in Chunks : RowInv(c) /\ \A k \in Keys : moves[c][k] <= 1

(* No call breaks a held row: its status, runner, node and token stay.      *)
LEMMA HeldRowStep ==
    ASSUME TypeOK, NEW c \in Chunks, HeldRow(chunk[c]), RowStep(c), chunk[c] \in Row
    PROVE  HeldRow(chunk'[c])
<1> DEFINE row == chunk[c]
<1> row \in Row OBVIOUS
<1>1. CASE chunk'[c] = chunk[c] BY <1>1
<1>2. CASE Reseeded(c) BY <1>2 DEF Reseeded, FreshRow, HeldRow
<1>3. CASE Granted(c)
  <2>1. PICK r \in Runners :
          chunk'[c] = [row EXCEPT !.claimed = TRUE, !.route_runner = r,
             !.current_node = IF row.current_node = None THEN Entry ELSE row.current_node,
             !.status = "running",
             !.live_route_token = [epoch |-> row.latest_epoch, rekey |-> 0]]
    BY <1>3 DEF Granted
  <2>2. [epoch |-> row.latest_epoch, rekey |-> 0] \in Tokens BY DEF Row, Tokens
  <2>3. chunk'[c].live_route_token = [epoch |-> row.latest_epoch, rekey |-> 0]
    BY <2>1 DEF Row
  <2>4. chunk'[c].live_route_token # None BY <2>2, <2>3, NoneAssumption
  <2>5. chunk'[c].current_node # None BY <2>1, GraphAssumption DEF Row
  <2>6. chunk'[c].route_runner # None /\ chunk'[c].status = "running"
    BY <2>1, NoneAssumption DEF Row
  <2>7. QED BY <2>4, <2>5, <2>6 DEF HeldRow
<1>4. CASE Rekeyed(c)
  <2>1. RekeyedToken(row) \in Tokens BY DEF Row, Tokens, RekeyedToken
  <2>2. RekeyedToken(row) # None BY <2>1, NoneAssumption
  <2>3. chunk'[c] = [row EXCEPT !.rekey_count = row.rekey_count + 1,
                                !.live_route_token = RekeyedToken(row)]
    BY <1>4 DEF Rekeyed
  <2>4. QED BY <2>2, <2>3 DEF Row, HeldRow
<1>5. CASE Completed(c)
  <2>1. PICK n \in Nodes, e \in Epochs, ch \in ChoiceNames :
          /\ CompletionAdmitted(c, n, e)
          /\ chunk'[c] = [Advanced(row, Goto[n][ch]) EXCEPT
                            !.applied[<<n, e>>] = Outcome(Goto[n][ch]),
                            !.last_response = Outcome(Goto[n][ch])]
    BY ZenonT(60), <1>5 DEF Completed
  <2> DEFINE target == Goto[n][ch]
             moved == Advanced(row, target)
  <2>2. target \in Nodes \cup {TERMINAL, Dangling, None} BY GraphAssumption
  <2>3. moved \in Row BY <2>2, AdvancedType
  <2>4. /\ chunk'[c].status = moved.status /\ chunk'[c].claimed = moved.claimed
        /\ chunk'[c].status_before_pause = moved.status_before_pause
        /\ chunk'[c].current_node = moved.current_node
        /\ chunk'[c].route_runner = moved.route_runner
        /\ chunk'[c].live_route_token = moved.live_route_token
    <3> HIDE DEF moved
    <3>1. QED BY <2>1, <2>3 DEF Row, moved
  <2>5. HeldRow(moved)
    <3>1. CASE Outcome(target) = "failure" BY <3>1 DEF Advanced
    <3>2. CASE Outcome(target) # "failure"
      <4>1. moved = [row EXCEPT !.current_node = target,
                        !.status = IF Outcome(target) = "next" THEN "running" ELSE "done"]
        BY <3>2 DEF Advanced
      <4>2. target \in Nodes \cup {TERMINAL} BY <2>2, <3>2, GraphAssumption DEF Outcome
      <4>3. target # None BY <4>2, GraphAssumption
      <4>4. Outcome(target) # "next" => target \in {TERMINAL} \cup HubNodes
        BY <4>2 DEF Outcome
      <4> HIDE DEF target, moved
      <4>5. QED BY <4>1, <4>3, <4>4 DEF Row, HeldRow
    <3>3. QED BY <3>1, <3>2
  <2> HIDE DEF moved, target
  <2>6. QED BY <2>4, <2>5 DEF HeldRow
<1>6. CASE Paused(c) BY <1>6 DEF Paused, Pausable, StatusIfPaused, Row, HeldRow
<1>7. CASE Resumed(c)
  <2> DEFINE back == ResumedStatus(row)
  <2>1. row.claimed => back \in {"running", "needs_human", "done"}
    BY NoneAssumption DEF ResumedStatus, HeldRow, Statuses
  <2>2. back = "done" /\ row.claimed => row.status = "done"
    BY NoneAssumption DEF ResumedStatus, HeldRow, Statuses
  <2> HIDE DEF back
  <2>3. chunk'[c] = [row EXCEPT !.status = back, !.status_before_pause = None]
    BY <1>7 DEF Resumed, back
  <2>4. QED BY <2>1, <2>2, <2>3 DEF Row, HeldRow
<1>8. CASE Released(c) BY <1>8 DEF Released, Row, HeldRow
<1>9. CASE GivenUp(c)
  <2>1. chunk'[c].claimed = FALSE BY <1>9 DEF GivenUp, RouteGivenUp, Row
  <2>2. QED BY <2>1 DEF HeldRow
<1>10. CASE Fenced(c) BY <1>10 DEF Fenced, Row, HeldRow
<1>11. CASE StatusSet(c) BY <1>11 DEF StatusSet, Row, HeldRow
<1>12. QED
  BY <1>1, <1>2, <1>3, <1>4, <1>5, <1>6, <1>7, <1>8, <1>9, <1>10, <1>11 DEF RowStep

(* A completion is counted in moves only when its key is written to        *)
(* applied, and no other step touches either.                              *)
LEMMA MovesRowStep ==
    ASSUME TypeOK, NEW c \in Chunks, MovesRow(chunk[c], moves[c]), RowStep(c), chunk[c] \in Row
    PROVE  MovesRow(chunk'[c], moves'[c])
<1>1. CASE chunk'[c] = chunk[c] /\ Kept(c) BY <1>1 DEF Kept
<1>2. CASE Reseeded(c) BY <1>2 DEF Reseeded, MovesRow
<1>3. CASE Completed(c)
  <2>1. PICK n \in Nodes, e \in Epochs, ch \in ChoiceNames :
          /\ CompletionAdmitted(c, n, e)
          /\ chunk'[c] = [Advanced(chunk[c], Goto[n][ch]) EXCEPT
                            !.applied[<<n, e>>] = Outcome(Goto[n][ch]),
                            !.last_response = Outcome(Goto[n][ch])]
          /\ moves'[c] = [moves[c] EXCEPT ![<<n, e>>] =
                            IF Outcome(Goto[n][ch]) = "failure" THEN @ ELSE @ + 1]
    BY <1>3 DEF Completed
  <2> DEFINE key == <<n, e>>
             out == Outcome(Goto[n][ch])
             moved == Advanced(chunk[c], Goto[n][ch])
  <2>2. key \in Keys BY DEF Keys
  <2>3. out \in Outcomes /\ moved \in Row
    <3>1. Goto[n][ch] \in Nodes \cup {TERMINAL, Dangling, None} BY GraphAssumption
    <3>2. QED BY <3>1, AdvancedType
  <2>4. moved.applied = chunk[c].applied BY DEF Advanced, Row
  <2>5. chunk[c].applied[key] = None BY <2>1 DEF CompletionAdmitted
  <2>6. moves[c] \in [Keys -> Nat] BY DEF TypeOK
  <2>7. chunk'[c] = [moved EXCEPT !.applied[key] = out, !.last_response = out]
        /\ moves'[c] = [moves[c] EXCEPT ![key] = IF out = "failure" THEN @ ELSE @ + 1]
    BY <2>1
  <2>8. out # None BY <2>3, NoneAssumption
  <2> HIDE DEF key, out, moved
  <2>9. chunk'[c].applied = [chunk[c].applied EXCEPT ![key] = out]
    BY <2>3, <2>4, <2>7 DEF Row
  <2>10. moves[c][key] = 0 BY <2>2, <2>5 DEF MovesRow
  <2>11. chunk[c].applied \in [Keys -> Outcomes \cup {None}] BY DEF Row
  <2>12. ASSUME NEW k \in Keys
         PROVE  moves'[c][k] <= 1 /\ (chunk'[c].applied[k] = None => moves'[c][k] = 0)
    <3>1. CASE k = key BY <2>2, <2>6, <2>7, <2>8, <2>9, <2>10, <2>11, <3>1
    <3>2. CASE k # key BY <2>6, <2>7, <2>9, <2>11, <3>2 DEF MovesRow
    <3>3. QED BY <3>1, <3>2
  <2>13. QED BY <2>12 DEF MovesRow
<1>4. CASE /\ moves'[c] = moves[c]
           /\ Granted(c) \/ Rekeyed(c) \/ Paused(c) \/ Resumed(c) \/ Released(c) \/ GivenUp(c)
              \/ Fenced(c) \/ StatusSet(c)
  <2>1. chunk'[c].applied = chunk[c].applied
    BY <1>4 DEF Granted, Rekeyed, Paused, Resumed, Released, GivenUp, RouteGivenUp, Fenced,
                StatusSet, Row
  <2>2. QED BY <1>4, <2>1 DEF MovesRow
<1>5. QED BY <1>1, <1>2, <1>3, <1>4 DEF RowStep, Kept, Granted, Rekeyed

(* Only a re-key or a new row touches the re-key count.                    *)
LEMMA RekeyCountKept ==
    ASSUME NEW c \in Chunks, RowStep(c), chunk[c] \in Row, ~Reseeded(c), ~Rekeyed(c)
    PROVE  chunk'[c].rekey_count = chunk[c].rekey_count
<1>1. CASE Completed(c)
  <2>1. PICK n \in Nodes, e \in Epochs, ch \in ChoiceNames :
          chunk'[c] = [Advanced(chunk[c], Goto[n][ch]) EXCEPT
                        !.applied[<<n, e>>] = Outcome(Goto[n][ch]),
                        !.last_response = Outcome(Goto[n][ch])]
    BY ZenonT(60), <1>1 DEF Completed
  <2>2. Goto[n][ch] \in Nodes \cup {TERMINAL, Dangling, None} BY GraphAssumption
  <2>3. Advanced(chunk[c], Goto[n][ch]) \in Row BY <2>2, AdvancedType
  <2>4. Advanced(chunk[c], Goto[n][ch]).rekey_count = chunk[c].rekey_count
    BY DEF Advanced, Row
  <2>5. QED BY <2>1, <2>3, <2>4 DEF Row
<1>2. CASE Granted(c) BY <1>2 DEF Granted, Row
<1>3. CASE Paused(c) \/ Resumed(c) \/ Released(c) \/ GivenUp(c) \/ Fenced(c) \/ StatusSet(c)
  BY <1>3 DEF Paused, Resumed, Released, GivenUp, RouteGivenUp, Fenced, StatusSet, Row
<1>4. QED BY <1>1, <1>2, <1>3 DEF RowStep

(* No token handed out on a row is ahead of its re-key count.              *)
LEMMA IssuedRowStep ==
    ASSUME TypeOK, NEW c \in Chunks, IssuedRow(chunk[c], issued[c]), RowStep(c), chunk[c] \in Row
    PROVE  IssuedRow(chunk'[c], issued'[c])
<1>1. CASE chunk'[c] = chunk[c] /\ Kept(c) BY <1>1 DEF Kept
<1>2. CASE Reseeded(c) BY <1>2 DEF Reseeded, IssuedRow
<1>3. CASE Granted(c)
  <2>1. chunk'[c].rekey_count = chunk[c].rekey_count BY <1>3 DEF Granted, Row
  <2>2. issued'[c] = issued[c] \cup {[epoch |-> chunk[c].latest_epoch, rekey |-> 0]}
    BY <1>3 DEF Granted
  <2>3. chunk[c].rekey_count \in Nat BY DEF Row
  <2>4. QED BY <2>1, <2>2, <2>3 DEF IssuedRow
<1>4. CASE Rekeyed(c)
  <2>1. chunk'[c].rekey_count = chunk[c].rekey_count + 1 BY <1>4 DEF Rekeyed, Row
  <2>2. issued'[c] = issued[c] \cup
          {[epoch |-> chunk[c].latest_epoch, rekey |-> chunk[c].rekey_count + 1]}
    BY <1>4 DEF Rekeyed, RekeyedToken
  <2>3. chunk[c].rekey_count \in Nat BY DEF Row
  <2>4. \A t \in issued[c] : t.rekey \in Nat BY DEF TypeOK, Tokens
  <2>5. QED BY <2>1, <2>2, <2>3, <2>4 DEF IssuedRow
<1>5. CASE issued'[c] = issued[c] /\ ~Reseeded(c) /\ ~Rekeyed(c)
  <2>1. chunk'[c].rekey_count = chunk[c].rekey_count BY <1>5, RekeyCountKept
  <2>2. QED BY <1>5, <2>1 DEF IssuedRow
<1>6. QED BY <1>1, <1>2, <1>3, <1>4, <1>5 DEF RowStep, Kept, Completed

(* Before anything is seeded the row invariant holds trivially.             *)
LEMMA ChunkInvInit == Init => ChunkInv
BY DEF Init, ChunkInv, RowInv

(* The row invariant is inductive.                                         *)
LEMMA ChunkInvStep == TypeOK /\ ChunkInv /\ [Next]_vars => ChunkInv'
<1> SUFFICES ASSUME TypeOK, ChunkInv, [Next]_vars, NEW c \in Chunks
    PROVE (RowInv(c) /\ \A k \in Keys : moves[c][k] <= 1)'
  BY DEF ChunkInv
<1>1. RowStep(c) BY StepByRow
<1>2. CASE Seeded(c)
  <2>1. chunk[c] \in Row BY <1>2 DEF TypeOK
  <2>2. HeldRow(chunk[c]) /\ MovesRow(chunk[c], moves[c]) /\ IssuedRow(chunk[c], issued[c])
    BY <1>2 DEF ChunkInv, RowInv
  <2>3. HeldRow(chunk'[c]) BY <1>1, <2>1, <2>2, HeldRowStep
  <2>4. MovesRow(chunk'[c], moves'[c]) BY <1>1, <2>1, <2>2, MovesRowStep
  <2>5. IssuedRow(chunk'[c], issued'[c]) BY <1>1, <2>1, <2>2, IssuedRowStep
  <2>6. RowInv(c)' BY <2>3, <2>4, <2>5 DEF RowInv
  <2>7. QED BY <2>4, <2>6 DEF MovesRow
<1>3. CASE ~Seeded(c)
  <2>1. (chunk'[c] = chunk[c] /\ Kept(c)) \/ Reseeded(c)
    BY <1>1, <1>3, NoneAssumption DEF RowStep
  <2>2. CASE chunk'[c] = chunk[c] /\ Kept(c) BY <1>3, <2>2 DEF ChunkInv, RowInv, Kept
  <2>3. CASE Reseeded(c) BY <2>3 DEF Reseeded, FreshRow, RowInv, HeldRow, MovesRow, IssuedRow
  <2>4. QED BY <2>1, <2>2, <2>3
<1>4. QED BY <1>2, <1>3

(* Both invariants hold of every behaviour.                                *)
THEOREM Invariants == Spec => [](TypeOK /\ ChunkInv)
<1>1. Init => TypeOK /\ ChunkInv BY InitType, ChunkInvInit
<1>2. TypeOK /\ ChunkInv /\ [Next]_vars => (TypeOK /\ ChunkInv)' BY TypeStep, ChunkInvStep
<1>3. QED BY <1>1, <1>2, PTL DEF Spec

(* A chunk whose route a runner holds is never offered to another: its     *)
(* status stays one a claimed chunk can have through every pause, resume,  *)
(* decision, completion and retirement.                                    *)
THEOREM HeldChunkNotOffered == Spec => []HeldNotOffered
<1>1. ChunkInv => HeldNotOffered BY DEF ChunkInv, RowInv, HeldRow, HeldNotOffered
<1>2. QED BY <1>1, Invariants, PTL

(* While `claimed` is set the row carries the runner, node and token that  *)
(* chunk_detail and the release check read.                                *)
THEOREM HeldRouteIsWhole == Spec => []RouteWhole
<1>1. ChunkInv => RouteWhole BY DEF ChunkInv, RowInv, HeldRow, RouteWhole
<1>2. QED BY <1>1, Invariants, PTL

(* apply_completion moves a chunk at most once per (node, epoch).          *)
THEOREM CompletionMovesOnce == Spec => []MovesOnce
<1>1. ChunkInv => MovesOnce BY DEF ChunkInv, MovesOnce
<1>2. QED BY <1>1, Invariants, PTL

(* rekey_route_token never answers with a token handed out before.         *)
THEOREM RekeyIsFresh == Spec => RekeyFresh
<1>1. TypeOK /\ ChunkInv /\ [Next]_vars =>
        [\A c \in Chunks :
          (Held(c) /\ SameRow(c) /\ chunk'[c].rekey_count > chunk[c].rekey_count)
            => chunk'[c].live_route_token \notin issued[c]]_vars
  <2> SUFFICES ASSUME TypeOK, ChunkInv, [Next]_vars, NEW c \in Chunks, Held(c), SameRow(c),
                      chunk'[c].rekey_count > chunk[c].rekey_count
      PROVE chunk'[c].live_route_token \notin issued[c]
    OBVIOUS
  <2>1. RowStep(c) BY StepByRow
  <2>2. chunk[c] \in Row BY DEF TypeOK
  <2>3. IssuedRow(chunk[c], issued[c]) BY DEF ChunkInv, RowInv
  <2>4. chunk[c].rekey_count \in Nat BY <2>2 DEF Row
  <2>5. CASE Rekeyed(c)
    <3>1. chunk'[c].live_route_token
            = [epoch |-> chunk[c].latest_epoch, rekey |-> chunk[c].rekey_count + 1]
      BY <2>2, <2>5 DEF Rekeyed, RekeyedToken, Row
    <3>2. \A t \in issued[c] : t.rekey \in Nat /\ t.rekey <= chunk[c].rekey_count
      BY <2>3 DEF TypeOK, Tokens, IssuedRow
    <3>3. QED BY <2>4, <3>1, <3>2
  <2>6. CASE ~Rekeyed(c)
    <3>1. ~Reseeded(c) BY DEF Reseeded, SameRow, TypeOK
    <3>2. chunk'[c].rekey_count = chunk[c].rekey_count
      BY <2>1, <2>2, <2>6, <3>1, RekeyCountKept
    <3>3. QED BY <2>4, <3>2
  <2>7. QED BY <2>5, <2>6
<1>2. QED BY <1>1, Invariants, PTL DEF Spec, RekeyFresh

(* _advance_fence never moves an epoch back, whatever order lease.minted   *)
(* facts arrive in.                                                        *)
THEOREM FenceOnlyAdvances == Spec => FenceMonotone
<1>1. TypeOK /\ [Next]_vars =>
        [\A c \in Chunks :
          (Seeded(c) /\ SameRow(c)) => chunk'[c].latest_epoch >= chunk[c].latest_epoch]_vars
  <2> SUFFICES ASSUME TypeOK, [Next]_vars, NEW c \in Chunks, Seeded(c), SameRow(c)
      PROVE chunk'[c].latest_epoch >= chunk[c].latest_epoch
    OBVIOUS
  <2>1. RowStep(c) BY StepByRow
  <2>2. chunk[c] \in Row BY DEF TypeOK
  <2>3. chunk[c].latest_epoch \in Nat BY <2>2, BoundAssumption DEF Row
  <2>4. ~Reseeded(c) BY DEF Reseeded, SameRow, TypeOK
  <2>5. CASE Completed(c)
    <3>1. PICK n \in Nodes, e \in Epochs, ch \in ChoiceNames :
            chunk'[c] = [Advanced(chunk[c], Goto[n][ch]) EXCEPT
                          !.applied[<<n, e>>] = Outcome(Goto[n][ch]),
                          !.last_response = Outcome(Goto[n][ch])]
      BY <2>5 DEF Completed
    <3>2. Goto[n][ch] \in Nodes \cup {TERMINAL, Dangling, None} BY GraphAssumption
    <3>3. Advanced(chunk[c], Goto[n][ch]) \in Row BY <2>2, <3>2, AdvancedType
    <3>4. Advanced(chunk[c], Goto[n][ch]).latest_epoch = chunk[c].latest_epoch
      BY <2>2 DEF Advanced, Row
    <3>5. QED BY <2>3, <3>1, <3>3, <3>4 DEF Row
  <2>6. CASE Fenced(c)
    <3>1. Epochs \subseteq Nat BY BoundAssumption
    <3>2. QED BY <2>2, <2>3, <2>6, <3>1 DEF Fenced, NewestEpoch, Row
  <2>7. CASE Granted(c) BY <2>2, <2>3, <2>7 DEF Granted, Row
  <2>8. CASE Rekeyed(c) BY <2>2, <2>3, <2>8 DEF Rekeyed, Row
  <2>9. CASE Paused(c) \/ Resumed(c) \/ Released(c) \/ GivenUp(c) \/ StatusSet(c)
    <3>1. chunk'[c].latest_epoch = chunk[c].latest_epoch
      BY <2>2, <2>9 DEF Paused, Resumed, Released, GivenUp, RouteGivenUp, StatusSet, Row
    <3>2. QED BY <2>3, <3>1
  <2>10. QED BY <2>1, <2>3, <2>4, <2>5, <2>6, <2>7, <2>8, <2>9 DEF RowStep
<1>2. QED BY <1>1, TypeCorrect, PTL DEF Spec, FenceMonotone

(* Only a claim or a new row brings a route to a chunk or changes whose it *)
(* is.                                                                     *)
LEMMA RouteKept ==
    ASSUME NEW c \in Chunks, RowStep(c), chunk[c] \in Row, ~Reseeded(c), ~Granted(c), chunk'[c].claimed
    PROVE  chunk[c].claimed /\ chunk'[c].route_runner = chunk[c].route_runner
<1>1. CASE Completed(c)
  <2>1. PICK n \in Nodes, e \in Epochs, ch \in ChoiceNames :
          chunk'[c] = [Advanced(chunk[c], Goto[n][ch]) EXCEPT
                        !.applied[<<n, e>>] = Outcome(Goto[n][ch]),
                        !.last_response = Outcome(Goto[n][ch])]
    BY <1>1 DEF Completed
  <2>2. Goto[n][ch] \in Nodes \cup {TERMINAL, Dangling, None} BY GraphAssumption
  <2>3. Advanced(chunk[c], Goto[n][ch]) \in Row BY <2>2, AdvancedType
  <2>4. /\ Advanced(chunk[c], Goto[n][ch]).route_runner = chunk[c].route_runner
        /\ Advanced(chunk[c], Goto[n][ch]).claimed = chunk[c].claimed
    BY DEF Advanced, Row
  <2>5. QED BY <2>1, <2>3, <2>4 DEF Row
<1>2. CASE Released(c) BY <1>2 DEF Released, Row
<1>3. CASE GivenUp(c) BY <1>3 DEF GivenUp, RouteGivenUp, Row
<1>4. CASE Paused(c) \/ Resumed(c) \/ Rekeyed(c) \/ Fenced(c) \/ StatusSet(c)
  BY ZenonT(60), <1>4 DEF Paused, Resumed, Rekeyed, Fenced, StatusSet, Row
<1>5. QED BY <1>1, <1>2, <1>3, <1>4 DEF RowStep

(* No step takes a held route from one runner and gives it to another.     *)
THEOREM RouteStaysPut == Spec => RouteNotTransferred
<1>1. TypeOK /\ [Next]_vars =>
        [\A c \in Chunks :
          (Held(c) /\ SameRow(c) /\ chunk'[c].claimed)
            => chunk'[c].route_runner = chunk[c].route_runner]_vars
  <2> SUFFICES ASSUME TypeOK, [Next]_vars, NEW c \in Chunks, Held(c), SameRow(c), chunk'[c].claimed
      PROVE chunk'[c].route_runner = chunk[c].route_runner
    OBVIOUS
  <2>1. RowStep(c) BY StepByRow
  <2>2. chunk[c] \in Row BY DEF TypeOK
  <2>3. ~Reseeded(c) BY DEF Reseeded, SameRow, TypeOK
  <2>4. ~Granted(c) BY DEF Granted, ClaimGranted
  <2>5. QED BY <2>1, <2>2, <2>3, <2>4, RouteKept
<1>2. QED BY <1>1, TypeCorrect, PTL DEF Spec, RouteNotTransferred

(* A retired runner without a route never gets one: the claim checks its   *)
(* registration, and nothing else hands out a route.                       *)
THEOREM RetiredRunnerGainsNothing == Spec => RetiredGainsNothing
<1>1. TypeOK /\ [Next]_vars =>
        [\A r \in Runners :
          (runner[r].retired /\ HeldBy(r) = {}) => HeldBy(r)' = {}]_vars
  <2> SUFFICES ASSUME TypeOK, [Next]_vars, NEW r \in Runners, runner[r].retired, HeldBy(r) = {},
                      NEW c \in Chunks, chunk'[c] # None, chunk'[c].claimed,
                      chunk'[c].route_runner = r
      PROVE FALSE
    BY DEF HeldBy
  <2>1. RowStep(c) BY StepByRow
  <2>2. ~Reseeded(c)
    <3>1. \A s \in Statuses : FreshRow(s).claimed = FALSE BY DEF FreshRow
    <3>2. QED BY <3>1 DEF Reseeded
  <2>3. CASE chunk[c] \notin Row BY <2>1, <2>2, <2>3 DEF RowStep, HeldBy
  <2>4. CASE chunk[c] \in Row /\ Granted(c)
    <3>1. PICK x \in Runners : RunnerMayClaim(x) /\ chunk'[c].route_runner = x
      BY <2>4 DEF Granted, Row
    <3>2. QED BY <3>1 DEF RunnerMayClaim
  <2>5. CASE chunk[c] \in Row /\ ~Granted(c)
    <3>1. chunk[c].claimed /\ chunk[c].route_runner = r BY <2>1, <2>2, <2>5, RouteKept
    <3>2. QED BY <2>5, <3>1, NoneAssumption DEF HeldBy
  <2>6. QED BY <2>3, <2>4, <2>5
<1>2. QED BY <1>1, TypeCorrect, PTL DEF Spec, RetiredGainsNothing

-----------------------------------------------------------------------------
(* Retirement                                                              *)

(* No call gives a retired runner a current token again.                    *)
LEMMA RetiredLockedOutStep ==
    TypeOK /\ RetiredLockedOut /\ [Next]_vars => RetiredLockedOut'
<1> SUFFICES ASSUME TypeOK, RetiredLockedOut, [Next]_vars, NEW d \in Runners, runner'[d].retired
    PROVE ~runner'[d].authed
  BY DEF RetiredLockedOut
<1>1. runner[d] \in RunnerRow BY DEF TypeOK
<1>2. CASE UNCHANGED runner BY <1>2 DEF RetiredLockedOut
<1>3. ASSUME NEW r \in Runners, NEW p \in BOOLEAN, SetPaused(r, p) PROVE ~runner'[d].authed
  BY <1>1, <1>3 DEF SetPaused, TypeOK, RunnerRow, RetiredLockedOut
<1>4. ASSUME NEW r \in Runners, RevokeToken(r) PROVE ~runner'[d].authed
  BY <1>1, <1>4 DEF RevokeToken, TypeOK, RunnerRow, RetiredLockedOut
<1>5. ASSUME NEW r \in Runners, Enroll(r) PROVE ~runner'[d].authed
  BY <1>1, <1>5 DEF Enroll, MayEnroll, TypeOK, RunnerRow, RetiredLockedOut
<1>6. ASSUME NEW r \in Runners, runner' = RetiredRegistry(r) PROVE ~runner'[d].authed
  BY <1>1, <1>6 DEF RetiredRegistry, TypeOK, RunnerRow, RetiredLockedOut
<1>7. Operator => UNCHANGED runner
  BY DEF Operator, SeedChunk, StopChunk, ArmLever, ConsumeLever
<1>8. RunnerCall => UNCHANGED runner
  <2>1. ASSUME NEW r \in Runners, NEW c \in Chunks,
               \/ PauseChunk(r, c) \/ ResumeChunk(r, c) \/ HubAdvance(r, c)
               \/ \E e \in Epochs, n \in Nodes \cup {TERMINAL} : ApplyDecision(r, c, n, e)
               \/ \E e \in Epochs, t \in issued[c] : Release(r, c, e, t)
        PROVE UNCHANGED runner
    BY <2>1 DEF PauseChunk, ResumeChunk, HubAdvance, ApplyDecision, Release
  <2>2. ASSUME NEW r \in Runners, NEW c \in Chunks, Claim(r, c) \/ RekeyRouteToken(r, c)
        PROVE UNCHANGED runner
    BY <2>2 DEF Claim, RekeyRouteToken
  <2>3. ASSUME NEW r \in Runners, NEW c \in Chunks, NEW e \in Epochs, NEW n \in Nodes,
               NEW ch \in ChoiceNames, ApplyCompletion(r, c, n, e, ch)
        PROVE UNCHANGED runner
    BY <2>3 DEF ApplyCompletion
  <2>4. QED BY <2>1, <2>2, <2>3 DEF RunnerCall
<1>9. Fact => UNCHANGED runner
  BY DEF Fact, LeaseMinted, EscalationRecorded, QuestionAsked, AnswerDelivered
<1>10. (\E q \in Questions : AnswerQuestion(q)) => UNCHANGED runner BY DEF AnswerQuestion
<1>11. Registry => ~runner'[d].authed
  BY <1>2, <1>3, <1>4, <1>5, <1>6
     DEF Registry, Retire, RetireHostRunner, RetireHostRunnerConflict, ArmRetireLever
<1>12. QED BY <1>2, <1>7, <1>8, <1>9, <1>10, <1>11 DEF Next, vars

(* A retired runner never has a current token again: retire revokes it and *)
(* enroll refuses it.                                                      *)
THEOREM RetiredStaysLockedOut == Spec => []RetiredLockedOut
<1>1. Init => RetiredLockedOut BY DEF Init, RetiredLockedOut
<1>2. QED BY <1>1, RetiredLockedOutStep, TypeCorrect, PTL DEF Spec

-----------------------------------------------------------------------------
(* An ended chunk.  Its status may leave done and stopped again, so what a *)
(* step preserves is weaker than Ended: the row is spent when it is        *)
(* unrouted and not offered, or routed and parked where no completion      *)
(* leaves.                                                                 *)

Spent(row) ==
    \/ /\ ~row.claimed
       /\ \/ row.status \in {"done", "stopped", "running", "needs_human"}
          \/ row.status = "paused" /\ row.status_before_pause = "running"
    \/ /\ row.claimed
       /\ row.status \in {"done", "needs_human"}
       /\ row.current_node \in {TERMINAL} \cup HubNodes

(* A spent row stays spent until its id is seeded anew.                     *)
LEMMA SpentStep ==
    ASSUME TypeOK, NEW c \in Chunks, chunk[c] \in Row, Spent(chunk[c]), RowStep(c), ~Reseeded(c)
    PROVE  Spent(chunk'[c])
<1> DEFINE row == chunk[c]
<1> row \in Row OBVIOUS
<1>1. CASE chunk'[c] = chunk[c] BY <1>1
<1>2. ~Granted(c) BY DEF Granted, ClaimGranted, Spent
<1>3. CASE Rekeyed(c) BY <1>3 DEF Rekeyed, Row, Spent
<1>4. CASE Completed(c)
  <2>1. PICK n \in Nodes, e \in Epochs, ch \in ChoiceNames :
          /\ CompletionAdmitted(c, n, e)
          /\ chunk'[c] = [Advanced(row, Goto[n][ch]) EXCEPT
                            !.applied[<<n, e>>] = Outcome(Goto[n][ch]),
                            !.last_response = Outcome(Goto[n][ch])]
    BY ZenonT(60), <1>4 DEF Completed
  <2> DEFINE target == Goto[n][ch]
             moved == Advanced(row, target)
  <2>2. target \in Nodes \cup {TERMINAL, Dangling, None} BY GraphAssumption
  <2>3. moved \in Row BY <2>2, AdvancedType
  <2>4. /\ chunk'[c].status = moved.status /\ chunk'[c].claimed = moved.claimed
        /\ chunk'[c].status_before_pause = moved.status_before_pause
        /\ chunk'[c].current_node = moved.current_node
    <3> HIDE DEF moved
    <3>1. QED BY <2>1, <2>3 DEF Row, moved
  <2>5. ~row.claimed
    <3>1. n \in Nodes \ HubNodes /\ row.current_node \in {None, n}
      BY <2>1 DEF CompletionAdmitted, Coherent
    <3>2. row.current_node \notin {TERMINAL} \cup HubNodes BY <3>1, GraphAssumption
    <3>3. QED BY <3>2 DEF Spent
  <2>6. Spent(moved)
    <3>1. CASE Outcome(target) = "failure" BY <3>1 DEF Advanced
    <3>2. CASE Outcome(target) # "failure"
      <4>1. moved.claimed = row.claimed /\ moved.status \in {"running", "done"}
        BY <3>2 DEF Advanced, Row
      <4>2. QED BY <2>5, <4>1 DEF Spent
    <3>3. QED BY <3>1, <3>2
  <2> HIDE DEF moved, target
  <2>7. QED BY <2>4, <2>6 DEF Spent
<1>5. CASE Paused(c) BY <1>5 DEF Paused, Pausable, StatusIfPaused, Row, Spent
<1>6. CASE Resumed(c)
  <2> DEFINE back == ResumedStatus(row)
  <2>1. back \in {"done", "stopped", "running", "needs_human"}
        /\ (row.status # "paused" => back = row.status)
    BY NoneAssumption DEF ResumedStatus, Spent, Statuses
  <2> HIDE DEF back
  <2>2. chunk'[c] = [row EXCEPT !.status = back, !.status_before_pause = None]
    BY <1>6 DEF Resumed, back
  <2>3. QED BY <2>1, <2>2 DEF Row, Spent
<1>7. ~Released(c) BY DEF Released, Spent
<1>8. CASE GivenUp(c)
  <2>1. row.claimed BY <1>8 DEF GivenUp
  <2>2. chunk'[c].claimed = FALSE /\ chunk'[c].status = row.status
    BY <1>8, <2>1 DEF GivenUp, RouteGivenUp, Spent, Row
  <2>3. QED BY <2>1, <2>2 DEF Spent
<1>9. CASE Fenced(c) BY <1>9 DEF Fenced, Row, Spent
<1>10. CASE StatusSet(c)
  <2>1. CASE chunk'[c] = [row EXCEPT !.status = "stopped", !.claimed = FALSE]
    BY <2>1 DEF Row, Spent
  <2>2. CASE chunk'[c] = [row EXCEPT !.status = "needs_human"]
    BY <2>2 DEF Row, Spent
  <2>3. CASE row.current_node \in HubNodes /\ chunk'[c] = [row EXCEPT !.status = "done"]
    BY <2>3 DEF Row, Spent
  <2>4. QED BY <1>10, <2>1, <2>2, <2>3 DEF StatusSet
<1>11. QED
  BY <1>1, <1>2, <1>3, <1>4, <1>5, <1>6, <1>7, <1>8, <1>9, <1>10 DEF RowStep

(* A chunk that is done or stopped is never offered again on the same row, *)
(* the promise of ClaimDeniedTerminal: late completions, decisions,        *)
(* pauses, resumes and retirements move its status, but never to ready.    *)
THEOREM EndedStaysUnoffered == Spec => EndedNeverOffered
<1> SUFFICES ASSUME NEW c \in Chunks, NEW k \in 1..MaxSeeds
    PROVE Spec => []((seeds[c] = k /\ Seeded(c) /\ Ended(c))
                        => [](seeds[c] = k => chunk[c].status # "ready"))
  BY DEF EndedNeverOffered
<1> DEFINE Gone == seeds[c] > k \/ (seeds[c] = k /\ Spent(chunk[c]))
           Over == seeds[c] = k /\ Seeded(c) /\ Ended(c)
           Off == seeds[c] = k => chunk[c].status # "ready"
<1>1. TypeOK /\ ChunkInv /\ Over => Gone
  <2> SUFFICES ASSUME TypeOK, ChunkInv, Over PROVE Gone OBVIOUS
  <2>1. chunk[c] \in Row BY DEF TypeOK
  <2>2. HeldRow(chunk[c]) BY DEF ChunkInv, RowInv
  <2>3. chunk[c].claimed \in BOOLEAN BY <2>1 DEF Row
  <2>4. QED BY <2>1, <2>2, <2>3 DEF HeldRow, Spent
<1>2. TypeOK /\ Gone => Off BY DEF Spent, TypeOK
<1>3. TypeOK /\ Gone /\ [Next]_vars => Gone'
  <2> SUFFICES ASSUME TypeOK, Gone, [Next]_vars PROVE Gone' OBVIOUS
  <2>1. RowStep(c) BY StepByRow
  <2>2. seeds[c] \in Nat BY DEF TypeOK
  <2>3. CASE Reseeded(c) BY <2>2, <2>3 DEF Reseeded
  <2>4. CASE ~Reseeded(c)
    <3>1. seeds'[c] = seeds[c]
      BY <2>1, <2>4 DEF RowStep, Kept, Granted, Rekeyed, Completed
    <3>2. CASE seeds[c] > k BY <3>1, <3>2
    <3>3. CASE seeds[c] = k /\ Spent(chunk[c])
      <4>1. CASE chunk[c] \in Row BY <2>1, <2>4, <3>1, <3>3, <4>1, SpentStep
      <4>2. CASE chunk[c] \notin Row BY <2>1, <2>4, <3>1, <3>3, <4>2 DEF RowStep
      <4>3. QED BY <4>1, <4>2
    <3>4. QED BY <3>2, <3>3
  <2>5. QED BY <2>3, <2>4
<1> HIDE DEF Gone, Over, Off
<1>4. Spec => [](Over => []Off) BY <1>1, <1>2, <1>3, Invariants, PTL DEF Spec
<1>5. QED BY <1>4 DEF Over, Off

=============================================================================
