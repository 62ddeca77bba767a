------------------------ MODULE WorkflowDispatchProofs ------------------------
(***************************************************************************)
(* Theorems about WorkflowDispatch, for every set of rows and dispatchers, *)
(* every batch size and every number of faults.                            *)
(***************************************************************************)
EXTENDS WorkflowDispatch, TLAPS

\* Every variable keeps its type.
THEOREM TypeCorrect == Spec => []TypeOK
<1>1. Init => TypeOK
  BY DispatchAssumption DEF Init, TypeOK, RowState, RunState, Outcome, OpenExecution
<1>2. TypeOK /\ [Next]_vars => TypeOK'
  <2> SUFFICES ASSUME TypeOK, [Next]_vars PROVE TypeOK'
    OBVIOUS
  <2> USE DEF TypeOK
  <2>1. ASSUME NEW d \in Dispatch, Enqueue(d) PROVE TypeOK'
    BY <2>1 DEF Enqueue, engineVars, dispatcherVars, RowState
  <2>2. ASSUME NEW d \in Dispatch, Worker(d) PROVE TypeOK'
    BY <2>2 DEF Worker, MarkRunning, MarkCompleted, MarkFailedRetryable, CloseExecution,
                WorkerStep, dispatcherVars, RunState, OpenExecution
  <2>3. ASSUME NEW d \in Dispatch, WorkerLost(d) PROVE TypeOK'
    BY <2>3 DEF WorkerLost, Fault, rowVars, dispatcherVars
  <2>4. ASSUME NEW p \in Dispatcher, ClaimRead(p) PROVE TypeOK'
    <3>1. Candidates \subseteq Dispatch
      BY DEF Candidates
    <3>2. \A d \in Dispatch : [id |-> d, token |-> row[d].token] \in Item
      BY DEF Item
    <3>3. QED
      BY <2>4, <3>1, <3>2 DEF ClaimRead, rowVars, engineVars
  <2>5. ASSUME NEW p \in Dispatcher, ClaimCommit(p) PROVE TypeOK'
    <3> DEFINE won == {i.id : i \in {j \in batch[p] : Won(j)}}
    <3>1. won \subseteq Dispatch
      BY DEF Item
    <3>2. row' \in [Dispatch -> [state : RowState, token : Nat]]
      BY <2>5 DEF ClaimCommit, RowState
    <3>3. \A d \in Dispatch : [id |-> d, token |-> row[d].token + 1] \in Item
      BY DEF Item
    <3>4. batch' \in [Dispatcher -> SUBSET Item]
      BY <2>5, <3>1, <3>3 DEF ClaimCommit
    <3>5. QED
      BY <2>5, <3>2, <3>4 DEF ClaimCommit, engineVars
  <2>6. ASSUME NEW p \in Dispatcher, NEW i \in batch[p], ItemStep(p, i) PROVE TypeOK'
    <3>1. i \in Item /\ i.id \in Dispatch /\ i.token \in Nat
      BY DEF Item
    <3>2. CASE ResolveFails(p, i)
      BY <3>2 DEF ResolveFails, CallReturns, rowVars, engineVars, Outcome
    <3>3. CASE StartAccepted(p, i)
      BY <3>1, <3>3 DEF StartAccepted, EngineAccepts, CallReturns, rowVars, Outcome,
                        OpenExecution
    <3>4. CASE StartAlreadyOpen(p, i)
      BY <3>4 DEF StartAlreadyOpen, CallReturns, rowVars, engineVars, Outcome
    <3>5. CASE BeginRecord(p, i)
      BY <3>1, <3>5 DEF BeginRecord, rowVars, engineVars
    <3>6. CASE RecordConflict(p, i)
      BY <3>6 DEF RecordConflict, Throw, rowVars, engineVars, Outcome, RunState
    <3>7. CASE CommitRecord(p, i)
      BY <3>1, <3>7 DEF CommitRecord, WriteRecord, Target, RunAfterRecord, engineVars,
                        Outcome, RunState, RowState
    <3>8. CASE RecordLosesRace(p, i)
      BY <3>8 DEF RecordLosesRace, Throw, rowVars, engineVars, Outcome, RunState
    <3>9. QED
      BY <2>6, <3>2, <3>3, <3>4, <3>5, <3>6, <3>7, <3>8 DEF ItemStep
  <2>7. ASSUME NEW p \in Dispatcher, NEW i \in batch[p], ItemFault(p, i) PROVE TypeOK'
    <3>1. i \in Item /\ i.id \in Dispatch /\ i.token \in Nat
      BY DEF Item
    <3>2. CASE StartFails(p, i)
      BY <3>1, <3>2 DEF StartFails, Fault, EngineAccepts, CallReturns, rowVars, engineVars,
                        Outcome, OpenExecution
    <3>3. CASE RecordAborts(p, i)
      BY <3>3 DEF RecordAborts, Fault, Throw, rowVars, engineVars, Outcome, RunState
    <3>4. CASE CommitUnacknowledged(p, i)
      BY <3>1, <3>4 DEF CommitUnacknowledged, WriteRecord, Fault, Throw, Target,
                        RunAfterRecord, engineVars, Outcome, RunState, RowState
    <3>5. QED
      BY <2>7, <3>2, <3>3, <3>4 DEF ItemFault
  <2>8. ASSUME NEW p \in Dispatcher, Crash(p) PROVE TypeOK'
    BY <2>8 DEF Crash, Fault, rowVars, engineVars, Outcome, RunState
  <2>9. CASE UNCHANGED vars
    BY <2>9 DEF vars
  <2>10. QED
    BY <2>1, <2>2, <2>3, <2>4, <2>5, <2>6, <2>7, <2>8, <2>9 DEF Next, DispatcherStep
<1>3. QED
  BY <1>1, <1>2, PTL DEF Spec

-------------------------------------------------------------------------------
LEMMA Init_ClaimInv == Init => ClaimInv
BY DispatchAssumption DEF Init, ClaimInv, ItemsKnown, HeldIsCurrent, TokensDiffer, OutcomeTruthful,
       RecordedTruthfully, OneExecutionPerClaim, ExecutionsBudgeted, Held, OpenExecution

LEMMA Enqueue_ClaimInv ==
  ASSUME TypeOK, ClaimInv, NEW d \in Dispatch, Enqueue(d) PROVE ClaimInv'
<1> USE DEF TypeOK, ClaimInv, Item, Enqueue, engineVars, dispatcherVars
<1>1. ItemsKnown'
  BY DEF ItemsKnown
<1>2. HeldIsCurrent'
  BY DEF HeldIsCurrent, ItemsKnown, Held, MayRecord, Outdated, First
<1>3. TokensDiffer'
  BY DEF TokensDiffer, ItemsKnown, Held
<1>4. OutcomeTruthful'
  BY DEF OutcomeTruthful, ItemsKnown, First, OpenExecution
<1>5. RecordedTruthfully'
  BY DEF RecordedTruthfully, OutcomeTruthful
<1>6. OneExecutionPerClaim'
  BY DEF OneExecutionPerClaim, ExecutionsBudgeted
<1>7. ExecutionsBudgeted'
  BY DEF ExecutionsBudgeted, OneExecutionPerClaim, ItemsKnown, Held, MayRecord, First, HeldIsCurrent
<1>8. QED
  BY <1>1, <1>2, <1>3, <1>4, <1>5, <1>6, <1>7

LEMMA Worker_ClaimInv ==
  ASSUME TypeOK, ClaimInv, NEW d \in Dispatch, Worker(d) PROVE ClaimInv'
<1> USE DEF TypeOK, ClaimInv, Item, Worker, MarkRunning, MarkCompleted, MarkFailedRetryable, CloseExecution, WorkerStep, dispatcherVars
<1>1. ItemsKnown'
  BY DEF ItemsKnown
<1>2. HeldIsCurrent'
  BY DEF HeldIsCurrent, ItemsKnown, Held, MayRecord, Outdated, First
<1>3. TokensDiffer'
  BY DEF TokensDiffer, ItemsKnown, Held
<1>4. OutcomeTruthful'
  BY DEF OutcomeTruthful, ItemsKnown, First, OpenExecution
<1>5. RecordedTruthfully'
  BY DEF RecordedTruthfully, OutcomeTruthful
<1>6. OneExecutionPerClaim'
  BY DEF OneExecutionPerClaim, ExecutionsBudgeted
<1>7. ExecutionsBudgeted'
  BY DEF ExecutionsBudgeted, OneExecutionPerClaim, ItemsKnown, Held, MayRecord, First, HeldIsCurrent
<1>8. QED
  BY <1>1, <1>2, <1>3, <1>4, <1>5, <1>6, <1>7

LEMMA WorkerLost_ClaimInv ==
  ASSUME TypeOK, ClaimInv, NEW d \in Dispatch, WorkerLost(d) PROVE ClaimInv'
<1> USE DEF TypeOK, ClaimInv, Item, WorkerLost, rowVars, dispatcherVars
<1>1. ItemsKnown'
  BY DEF ItemsKnown
<1>2. HeldIsCurrent'
  BY DEF HeldIsCurrent, ItemsKnown, Held, MayRecord, Outdated, First
<1>3. TokensDiffer'
  BY DEF TokensDiffer, ItemsKnown, Held
<1>4. OutcomeTruthful'
  BY DEF OutcomeTruthful, ItemsKnown, First, OpenExecution
<1>5. RecordedTruthfully'
  BY DEF RecordedTruthfully, OutcomeTruthful
<1>6. OneExecutionPerClaim'
  BY DEF OneExecutionPerClaim, ExecutionsBudgeted
<1>7. ExecutionsBudgeted'
  BY DEF ExecutionsBudgeted, OneExecutionPerClaim, ItemsKnown, Held, MayRecord, First, HeldIsCurrent
<1>8. QED
  BY <1>1, <1>2, <1>3, <1>4, <1>5, <1>6, <1>7

LEMMA TypedItems ==
  ASSUME TypeOK
  PROVE  /\ \A d \in Dispatch : row[d].token \in Nat /\ executions[d] \in Nat
         /\ \A p \in Dispatcher : \A i \in batch[p] : i.id \in Dispatch /\ i.token \in Nat
BY DEF TypeOK, Item

LEMMA ClaimRead_ClaimInv ==
  ASSUME TypeOK, ClaimInv, NEW p \in Dispatcher, ClaimRead(p) PROVE ClaimInv'
<1> USE TypedItems DEF ClaimInv
<1>1. \A i \in batch'[p] : /\ i.id \in Dispatch
                          /\ row[i.id].state \in Claimable
                          /\ i.token = row[i.id].token
  <2>1. Candidates \subseteq {d \in Dispatch : row[d].state \in Claimable}
    BY DEF Candidates
  <2>2. QED
    BY <2>1 DEF ClaimRead, TypeOK
<1>2. /\ \A q \in Dispatcher \ {p} : batch'[q] = batch[q] /\ pc'[q] = pc[q]
      /\ pc'[p] = "claiming"
      /\ UNCHANGED <<row, exec, executions, outcome>>
  BY DEF ClaimRead, TypeOK, rowVars, engineVars
<1>3. \A i, j \in batch'[p] : i.id = j.id => i = j
  BY DEF ClaimRead, TypeOK
<1>4. ItemsKnown'
  BY <1>1, <1>2, <1>3 DEF ItemsKnown, Claimable
<1>5. HeldIsCurrent'
  BY <1>2 DEF HeldIsCurrent, Held, MayRecord, Outdated, First
<1>6. TokensDiffer'
  BY <1>2 DEF TokensDiffer, Held
<1>7. OutcomeTruthful'
  BY <1>2 DEF OutcomeTruthful, First
<1>8. RecordedTruthfully' /\ OneExecutionPerClaim'
  BY <1>2 DEF RecordedTruthfully, OneExecutionPerClaim
<1>9. ExecutionsBudgeted'
  BY <1>2 DEF ExecutionsBudgeted, Held, MayRecord, First
<1>10. QED
  BY <1>4, <1>5, <1>6, <1>7, <1>8, <1>9

\* What a claim does to the rows and to the claimer's batch.
ClaimedBatch(p) ==
  /\ \A i \in batch'[p] : /\ i.id \in Dispatch
                         /\ row[i.id].state \in Claimable
                         /\ i.token = row[i.id].token + 1
                         /\ row'[i.id].state = "starting"
                         /\ row'[i.id].token = i.token
  /\ \A i, j \in batch'[p] : i.id = j.id => i = j
  /\ pc'[p] \in {"idle", "starting"}

ClaimedRows(p) ==
  /\ \A d \in Dispatch :
       \/ row'[d] = row[d]
       \/ /\ row[d].state \in Claimable
          /\ row'[d].state = "starting"
          /\ row'[d].token = row[d].token + 1
  /\ \A q \in Dispatcher \ {p} : batch'[q] = batch[q] /\ pc'[q] = pc[q]
  /\ UNCHANGED <<exec, executions, outcome>>

LEMMA ClaimEffect ==
  ASSUME TypeOK, NEW p \in Dispatcher, ClaimCommit(p)
  PROVE  ClaimedBatch(p) /\ ClaimedRows(p)
<1> DEFINE won == {i.id : i \in {j \in batch[p] : Won(j)}}
<1>1. \A d \in won : d \in Dispatch /\ row[d].state \in Claimable
  BY DEF TypeOK, Item, Won
<1>2. /\ row' = [d \in Dispatch |-> IF d \in won
                                  THEN [state |-> "starting", token |-> row[d].token + 1]
                                  ELSE row[d]]
      /\ batch' = [batch EXCEPT ![p] = {[id |-> d, token |-> row[d].token + 1] : d \in won}]
      /\ pc' = [pc EXCEPT ![p] = IF won = {} THEN "idle" ELSE "starting"]
      /\ UNCHANGED <<exec, executions, outcome>>
  BY DEF ClaimCommit, engineVars
<1> HIDE DEF won
<1>3. \A d \in Dispatch : row'[d] = IF d \in won
                                  THEN [state |-> "starting", token |-> row[d].token + 1]
                                  ELSE row[d]
  BY <1>2
<1>4. batch'[p] = {[id |-> d, token |-> row[d].token + 1] : d \in won}
  BY <1>2 DEF TypeOK
<1>5. ClaimedBatch(p)
  BY <1>1, <1>2, <1>3, <1>4 DEF TypeOK, ClaimedBatch
<1>6. ClaimedRows(p)
  BY <1>1, <1>2, <1>3 DEF TypeOK, ClaimedRows
<1>7. QED
  BY <1>5, <1>6

LEMMA ClaimCommit_ClaimInv ==
  ASSUME TypeOK, ClaimInv, NEW p \in Dispatcher, ClaimCommit(p) PROVE ClaimInv'
<1> USE TypedItems DEF ClaimInv
<1>0. ClaimedBatch(p) /\ ClaimedRows(p)
  BY ClaimEffect
<1>1. ItemsKnown'
  BY <1>0 DEF ClaimedBatch, ClaimedRows, ItemsKnown, Claimable
<1>2. HeldIsCurrent'
  <2> SUFFICES ASSUME NEW q \in Dispatcher, Held(q)', NEW i \in batch'[q]
               PROVE  (MayRecord(i) \/ (Outdated(q, i) /\ First(q, i) /\ outcome[q] = "retryable"))'
    BY DEF HeldIsCurrent
  <2>1. CASE q = p
    BY <1>0, <2>1 DEF MayRecord, ClaimedBatch
  <2>2. CASE q # p
    <3>1. i \in batch[q] /\ Held(q) /\ i.id \in Dispatch
      BY <1>0, <2>2 DEF Held, ClaimedRows
    <3>2. CASE MayRecord(i)
      BY <1>0, <3>1, <3>2 DEF MayRecord, Claimable, ClaimedRows
    <3>3. CASE Outdated(q, i) /\ First(q, i) /\ outcome[q] = "retryable"
      BY <1>0, <2>2, <3>1, <3>3 DEF Outdated, First, ClaimedRows
    <3>4. QED
      BY <3>1, <3>2, <3>3 DEF HeldIsCurrent
  <2>3. QED
    BY <2>1, <2>2
<1>3. TokensDiffer'
  BY <1>0 DEF ClaimedBatch, ClaimedRows, TokensDiffer, ItemsKnown, Held
<1>4. OutcomeTruthful'
  BY <1>0 DEF ClaimedBatch, ClaimedRows, OutcomeTruthful, First
<1>5. RecordedTruthfully'
  BY <1>0 DEF ClaimedBatch, ClaimedRows, RecordedTruthfully
<1>6. OneExecutionPerClaim'
  BY <1>0 DEF ClaimedBatch, ClaimedRows, OneExecutionPerClaim
<1>7. ExecutionsBudgeted'
  <2>1. \A d \in Dispatch : row'[d].state # "starting" => 2 * executions'[d] < row'[d].token
    BY <1>0 DEF ClaimedBatch, ClaimedRows, ExecutionsBudgeted
  <2>2. ASSUME NEW q \in Dispatcher, Held(q)', NEW i \in batch'[q], MayRecord(i)',
               (pc[q] = "starting" \/ ~First(q, i))'
        PROVE  2 * executions'[i.id] + 2 <= row'[i.id].token
    <3>1. CASE q = p
      BY <1>0, <2>2, <3>1 DEF ExecutionsBudgeted, Claimable, ClaimedBatch, ClaimedRows
    <3>2. CASE q # p
      <4>1. i \in batch[q] /\ Held(q) /\ i.id \in Dispatch
        BY <1>0, <2>2, <3>2 DEF Held, ClaimedRows
      <4>2. row'[i.id] = row[i.id]
        BY <1>0, <2>2, <4>1 DEF MayRecord, ItemsKnown, ClaimedRows
      <4>3. QED
        BY <1>0, <2>2, <3>2, <4>1, <4>2 DEF ClaimedRows, ExecutionsBudgeted, MayRecord, First
    <3>3. QED
      BY <3>1, <3>2
  <2>3. QED
    BY <2>1, <2>2 DEF ExecutionsBudgeted
<1>8. QED
  BY <1>1, <1>2, <1>3, <1>4, <1>5, <1>6, <1>7

LEMMA FirstIsUnique ==
  ASSUME TypeOK, ItemsKnown, NEW p \in Dispatcher, NEW i \in batch[p], NEW j \in batch[p],
         First(p, i), First(p, j)
  PROVE  i = j
<1>1. i.id \in Nat /\ j.id \in Nat
  BY TypedItems, DispatchAssumption
<1>2. i.id = j.id
  BY <1>1 DEF First
<1>3. QED
  BY <1>2 DEF ItemsKnown

\* Between claim and record a dispatcher's calls leave rows and batches alone.
LEMMA CallReturns_ClaimInv ==
  ASSUME TypeOK, ClaimInv, NEW p \in Dispatcher, NEW i \in batch[p], NEW result,
         CallReturns(p, i, result),
         \/ EngineAccepts(i.id)
         \/ UNCHANGED <<exec, executions>>,
         EngineAccepts(i.id) => i.id \notin Unregistered,
         result = "unknown_template" => i.id \in Unregistered,
         result = "accepted" => EngineAccepts(i.id),
         result = "already_started" => exec[i.id] \in OpenExecution
  PROVE  ClaimInv'
<1> USE TypedItems DEF ClaimInv
<1>1. /\ pc[p] = "starting" /\ First(p, i) /\ UNCHANGED <<row, batch>>
      /\ pc'[p] = "recording" /\ outcome'[p] = result
      /\ \A q \in Dispatcher \ {p} : pc'[q] = pc[q] /\ outcome'[q] = outcome[q]
  BY DEF CallReturns, rowVars, TypeOK
<1>2. \A d \in Dispatch :
        \/ executions'[d] = executions[d] /\ exec'[d] = exec[d]
        \/ d = i.id /\ EngineAccepts(i.id) /\ executions'[d] = executions[d] + 1
  BY DEF EngineAccepts, TypeOK
<1>3. EngineAccepts(i.id) => executions'[i.id] = executions[i.id] + 1
  BY DEF EngineAccepts, TypeOK
<1>4. MayRecord(i)
  BY <1>1 DEF HeldIsCurrent, Held, Outdated
<1>5. \A q \in Dispatcher : Held(q)' <=> Held(q)
  BY <1>1 DEF Held
<1>6. ItemsKnown'
  BY <1>1 DEF ItemsKnown
<1>7. HeldIsCurrent'
  BY <1>1, <1>4, <1>5 DEF HeldIsCurrent, MayRecord, Outdated, First
<1>8. TokensDiffer'
  BY <1>1, <1>5 DEF TokensDiffer
<1>9. OutcomeTruthful'
  <2>1. \A d \in Unregistered : executions'[d] = 0
    BY <1>2, DispatchAssumption DEF OutcomeTruthful
  <2>2. \A d \in Dispatch : exec'[d] \in OpenExecution => executions'[d] > 0
    BY <1>2 DEF OutcomeTruthful
  <2>3. ASSUME NEW q \in Dispatcher, pc'[q] \in {"recording", "committing"},
               NEW j \in batch'[q], First(q, j)'
        PROVE  /\ outcome'[q] \in {"accepted", "already_started"} => executions'[j.id] > 0
               /\ outcome'[q] = "unknown_template" => j.id \in Unregistered
    <3>1. j \in batch[q] /\ First(q, j) /\ j.id \in Dispatch
      BY <1>1, <2>3 DEF First
    <3>2. CASE q = p
      <4>1. j = i
        BY <1>1, <3>1, <3>2, FirstIsUnique
      <4>2. result = "accepted" => executions'[i.id] > 0
        BY <1>3
      <4>3. result = "already_started" => executions'[i.id] > 0
        BY <1>2 DEF OutcomeTruthful
      <4>4. QED
        BY <1>1, <3>2, <4>1, <4>2, <4>3
    <3>3. CASE q # p
      BY <1>1, <1>2, <2>3, <3>1, <3>3 DEF OutcomeTruthful
    <3>4. QED
      BY <3>2, <3>3
  <2>4. QED
    BY <2>1, <2>2, <2>3 DEF OutcomeTruthful
<1>10. RecordedTruthfully'
  BY <1>1, <1>2, <1>4 DEF RecordedTruthfully, MayRecord
<1>11. executions'[i.id] <= executions[i.id] + 1 /\ 2 * executions[i.id] + 2 <= row[i.id].token
  BY <1>1, <1>2, <1>4 DEF ExecutionsBudgeted, Held
<1>12. OneExecutionPerClaim'
  BY <1>1, <1>2, <1>11 DEF OneExecutionPerClaim
<1>13. ExecutionsBudgeted'
  <2>1. \A d \in Dispatch : row'[d].state # "starting" => 2 * executions'[d] < row'[d].token
    BY <1>1, <1>2, <1>4 DEF ExecutionsBudgeted, MayRecord
  <2>2. ASSUME NEW q \in Dispatcher, Held(q)', NEW j \in batch'[q], MayRecord(j)',
               (pc[q] = "starting" \/ ~First(q, j))'
        PROVE  2 * executions'[j.id] + 2 <= row'[j.id].token
    <3>1. j \in batch[q] /\ Held(q) /\ j.id \in Dispatch /\ MayRecord(j)
      BY <1>1, <1>5, <2>2 DEF MayRecord
    <3>2. j.id # i.id
      <4>1. CASE q = p
        BY <1>1, <2>2, <3>1, <4>1 DEF ItemsKnown, First
      <4>2. CASE q # p
        BY <1>1, <1>4, <3>1, <4>2 DEF TokensDiffer, MayRecord, Held
      <4>3. QED
        BY <4>1, <4>2
    <3>3. pc[q] = "starting" \/ ~First(q, j)
      BY <1>1, <2>2 DEF First
    <3>4. QED
      BY <1>1, <1>2, <3>1, <3>2, <3>3 DEF ExecutionsBudgeted
  <2>3. QED
    BY <2>1, <2>2 DEF ExecutionsBudgeted
<1>14. QED
  BY <1>6, <1>7, <1>8, <1>9, <1>10, <1>12, <1>13

LEMMA BeginRecord_ClaimInv ==
  ASSUME TypeOK, ClaimInv, NEW p \in Dispatcher, NEW i \in batch[p], BeginRecord(p, i)
  PROVE  ClaimInv'
<1> USE TypedItems DEF ClaimInv
<1>1. /\ pc[p] = "recording" /\ First(p, i) /\ MayRecord(i)
      /\ UNCHANGED <<row, exec, executions, batch, outcome>>
      /\ pc'[p] = "committing"
      /\ \A q \in Dispatcher \ {p} : pc'[q] = pc[q]
  BY DEF BeginRecord, rowVars, engineVars, TypeOK
<1>2. \A q \in Dispatcher : Held(q)' <=> Held(q)
  BY <1>1 DEF Held
<1>3. ItemsKnown' /\ TokensDiffer' /\ RecordedTruthfully' /\ OneExecutionPerClaim'
  BY <1>1, <1>2 DEF ItemsKnown, TokensDiffer, RecordedTruthfully, OneExecutionPerClaim
<1>4. HeldIsCurrent'
  <2> SUFFICES ASSUME NEW q \in Dispatcher, Held(q)', NEW j \in batch'[q]
               PROVE  (MayRecord(j) \/ (Outdated(q, j) /\ First(q, j) /\ outcome[q] = "retryable"))'
    BY DEF HeldIsCurrent
  <2>1. j \in batch[q] /\ Held(q)
    BY <1>1, <1>2
  <2>2. CASE q = p /\ First(q, j)
    <3>1. i = j
      BY <1>1, <2>1, <2>2, FirstIsUnique
    <3>2. QED
      BY <1>1, <3>1 DEF MayRecord
  <2>3. CASE ~(q = p /\ First(q, j))
    BY <1>1, <2>1, <2>3 DEF HeldIsCurrent, MayRecord, Outdated, First
  <2>4. QED
    BY <2>2, <2>3
<1>5. OutcomeTruthful'
  BY <1>1 DEF OutcomeTruthful, First
<1>6. ExecutionsBudgeted'
  BY <1>1, <1>2 DEF ExecutionsBudgeted, MayRecord, First
<1>7. QED
  BY <1>3, <1>4, <1>5, <1>6

\* A throw keeps or drops the whole batch; here with the rows untouched.
LEMMA Throw_ClaimInv ==
  ASSUME TypeOK, ClaimInv, NEW p \in Dispatcher, NEW i \in batch[p],
         pc[p] \in {"recording", "committing"}, First(p, i), Throw(p),
         UNCHANGED <<row, exec, executions>>
  PROVE  ClaimInv'
<1> USE TypedItems DEF ClaimInv
<1>1. \A q \in Dispatcher \ {p} : batch'[q] = batch[q] /\ pc'[q] = pc[q] /\ outcome'[q] = outcome[q]
  BY DEF Throw, TypeOK
<1>2. \/ batch'[p] = {} /\ pc'[p] = "idle"
      \/ batch'[p] = batch[p] /\ pc'[p] = "recording" /\ outcome'[p] = "retryable"
  BY DEF Throw, TypeOK
<1>3. \A q \in Dispatcher : batch'[q] \subseteq batch[q] /\ (Held(q)' => Held(q))
  BY <1>1, <1>2 DEF Held
<1>4. ItemsKnown' /\ TokensDiffer' /\ RecordedTruthfully' /\ OneExecutionPerClaim'
  BY <1>1, <1>2, <1>3 DEF ItemsKnown, TokensDiffer, RecordedTruthfully, OneExecutionPerClaim
<1>5. HeldIsCurrent'
  <2> SUFFICES ASSUME NEW q \in Dispatcher, Held(q)', NEW j \in batch'[q]
               PROVE  (MayRecord(j) \/ (Outdated(q, j) /\ First(q, j) /\ outcome[q] = "retryable"))'
    BY DEF HeldIsCurrent
  <2>1. j \in batch[q] /\ Held(q) /\ batch'[q] = batch[q]
    BY <1>1, <1>2, <1>3 DEF Held
  <2>2. QED
    BY <1>1, <1>2, <2>1 DEF HeldIsCurrent, MayRecord, Outdated, First
<1>6. OutcomeTruthful'
  BY <1>1, <1>2 DEF OutcomeTruthful, First
<1>7. ExecutionsBudgeted'
  <2> SUFFICES ASSUME NEW q \in Dispatcher, Held(q)', NEW j \in batch'[q], MayRecord(j),
                      (pc[q] = "starting" \/ ~First(q, j))'
               PROVE  2 * executions[j.id] + 2 <= row[j.id].token
    BY DEF ExecutionsBudgeted, MayRecord
  <2>1. j \in batch[q] /\ Held(q) /\ batch'[q] = batch[q]
    BY <1>1, <1>2, <1>3 DEF Held
  <2>2. pc[q] = "starting" \/ ~First(q, j)
    BY <1>1, <1>2, <2>1 DEF First
  <2>3. QED
    BY <2>1, <2>2 DEF ExecutionsBudgeted
<1>8. QED
  BY <1>4, <1>5, <1>6, <1>7

\* What a record does to the row it names.
RecordedRow(p, i) ==
  /\ pc[p] = "committing" /\ First(p, i)
  /\ row'[i.id].state = Target(outcome[p])
  /\ row'[i.id].token = row[i.id].token + 1
  /\ \A d \in Dispatch \ {i.id} : row'[d] = row[d]
  /\ UNCHANGED <<exec, executions>>

LEMMA RecordEffect ==
  ASSUME TypeOK, NEW p \in Dispatcher, NEW i \in batch[p], WriteRecord(p, i)
  PROVE  RecordedRow(p, i)
<1>1. row'[i.id] = [state |-> Target(outcome[p]), token |-> row[i.id].token + 1]
  BY TypedItems DEF WriteRecord, TypeOK
<1>2. \A d \in Dispatch \ {i.id} : row'[d] = row[d]
  BY TypedItems DEF WriteRecord, TypeOK
<1>3. pc[p] = "committing" /\ First(p, i) /\ UNCHANGED <<exec, executions>>
  BY DEF WriteRecord, engineVars
<1>4. QED
  BY <1>1, <1>2, <1>3 DEF RecordedRow

\* A record that commits, acknowledged or not: rest is what happens to the dispatcher.
LEMMA Record_ClaimInv ==
  ASSUME TypeOK, ClaimInv, NEW p \in Dispatcher, NEW i \in batch[p], RecordedRow(p, i),
         \A q \in Dispatcher \ {p} :
           batch'[q] = batch[q] /\ pc'[q] = pc[q] /\ outcome'[q] = outcome[q],
         \/ batch'[p] = {} /\ pc'[p] = "idle"
         \/ batch'[p] = batch[p] \ {i} /\ pc'[p] \in {"idle", "starting"}
         \/ batch'[p] = batch[p] /\ pc'[p] = "recording" /\ outcome'[p] = "retryable"
  PROVE  ClaimInv'
<1> USE TypedItems DEF ClaimInv
<1>1. /\ pc[p] = "committing" /\ First(p, i) /\ i.id \in Dispatch /\ Held(p)
      /\ UNCHANGED <<exec, executions>>
  BY DEF RecordedRow, Held
<1>2. MayRecord(i)
  BY <1>1 DEF HeldIsCurrent, Outdated
<1>3. row'[i.id].state \notin {"absent", "pending", "starting"}
  BY DEF RecordedRow, Target
<1>4. row'[i.id].token = row[i.id].token + 1
  BY DEF RecordedRow
<1>5. \A d \in Dispatch \ {i.id} : row'[d] = row[d]
  BY DEF RecordedRow
<1>6. \A q \in Dispatcher : batch'[q] \subseteq batch[q] /\ (Held(q)' => Held(q))
  BY <1>1 DEF Held
<1>7. ItemsKnown'
  <2>1. \A d \in Dispatch : row'[d].state = "absent" => row'[d].token = 1
    BY <1>3, <1>5 DEF ItemsKnown
  <2>2. ASSUME NEW q \in Dispatcher, NEW j \in batch'[q]
        PROVE  row'[j.id].state # "absent" /\ j.token <= row'[j.id].token
    <3>1. j \in batch[q]
      BY <1>6, <2>2
    <3>2. CASE j.id = i.id
      BY <1>3, <1>4, <3>1, <3>2 DEF ItemsKnown
    <3>3. CASE j.id # i.id
      BY <1>5, <3>1, <3>3 DEF ItemsKnown
    <3>4. QED
      BY <3>2, <3>3
  <2>3. QED
    BY <1>6, <2>1, <2>2 DEF ItemsKnown
\* Whoever else knew the row knows it by an older token.
<1>8. ASSUME NEW q \in Dispatcher, Held(q)', NEW j \in batch'[q], j.id = i.id
      PROVE  /\ Outdated(q, j)' /\ First(q, j)' /\ outcome'[q] = "retryable"
  <2>1. j \in batch[q] /\ Held(q)
    BY <1>6, <1>8
  <2>2. CASE q = p
    <3>1. j = i
      BY <1>8, <2>1, <2>2 DEF ItemsKnown
    <3>2. batch'[p] = batch[p] /\ pc'[p] = "recording" /\ outcome'[p] = "retryable"
      BY <1>8, <2>2, <3>1
    <3>3. QED
      BY <1>1, <1>2, <1>4, <2>2, <3>1, <3>2 DEF Outdated, First, MayRecord
  <2>3. CASE q # p
    <3>1. j.token # i.token
      BY <1>1, <1>8, <2>1, <2>3 DEF TokensDiffer
    <3>2. Outdated(q, j) /\ First(q, j) /\ outcome[q] = "retryable"
      BY <1>2, <1>8, <2>1, <3>1 DEF HeldIsCurrent, MayRecord
    <3>3. QED
      BY <1>1, <1>4, <1>8, <2>1, <2>3, <3>2 DEF Outdated, First
  <2>4. QED
    BY <2>2, <2>3
<1>9. HeldIsCurrent'
  <2> SUFFICES ASSUME NEW q \in Dispatcher, Held(q)', NEW j \in batch'[q]
               PROVE  (MayRecord(j) \/ (Outdated(q, j) /\ First(q, j) /\ outcome[q] = "retryable"))'
    BY DEF HeldIsCurrent
  <2>1. CASE j.id = i.id
    BY <1>8, <2>1
  <2>2. CASE j.id # i.id
    <3>1. j \in batch[q] /\ Held(q) /\ j.id \in Dispatch /\ row'[j.id] = row[j.id]
      BY <1>5, <1>6, <2>2
    <3>2. ~Outdated(p, j) /\ (q = p => MayRecord(j))
      BY <1>1, <3>1 DEF Outdated, HeldIsCurrent
    <3>3. CASE q = p
      BY <3>1, <3>2, <3>3 DEF MayRecord
    <3>4. CASE q # p
      BY <3>1, <3>4 DEF HeldIsCurrent, MayRecord, Outdated, First
    <3>5. QED
      BY <3>3, <3>4
  <2>3. QED
    BY <2>1, <2>2
<1>10. TokensDiffer'
  BY <1>6 DEF TokensDiffer
<1>11. OutcomeTruthful'
  BY <1>1, <1>6 DEF OutcomeTruthful, First
<1>12. Target(outcome[p]) \in {"started", "duplicate"} => executions[i.id] > 0
  BY <1>1 DEF OutcomeTruthful, Target
<1>13. Target(outcome[p]) = "failed_terminal" => i.id \in Unregistered /\ executions[i.id] = 0
  BY <1>1 DEF OutcomeTruthful, Target
<1>14. RecordedTruthfully'
  <2> SUFFICES ASSUME NEW d \in Dispatch
               PROVE  /\ row'[d].state \in {"started", "duplicate"} => executions[d] > 0
                      /\ row'[d].state = "failed_terminal" => d \in Unregistered /\ executions[d] = 0
    BY <1>1 DEF RecordedTruthfully
  <2>1. CASE d = i.id
    BY <1>12, <1>13, <2>1 DEF RecordedRow
  <2>2. CASE d # i.id
    BY <1>5, <2>2 DEF RecordedTruthfully
  <2>3. QED
    BY <2>1, <2>2
<1>15. OneExecutionPerClaim'
  BY <1>1, <1>4, <1>5 DEF OneExecutionPerClaim
<1>16. ExecutionsBudgeted'
  <2>1. ASSUME NEW d \in Dispatch, row'[d].state # "starting"
        PROVE  2 * executions'[d] < row'[d].token
    <3>1. CASE d = i.id
      BY <1>1, <1>4, <3>1 DEF OneExecutionPerClaim
    <3>2. CASE d # i.id
      BY <1>1, <1>5, <2>1, <3>2 DEF ExecutionsBudgeted
    <3>3. QED
      BY <3>1, <3>2
  <2>2. ASSUME NEW q \in Dispatcher, Held(q)', NEW j \in batch'[q], MayRecord(j)',
               (pc[q] = "starting" \/ ~First(q, j))'
        PROVE  2 * executions'[j.id] + 2 <= row'[j.id].token
    <3>1. j \in batch[q] /\ Held(q) /\ j.id \in Dispatch
      BY <1>6, <2>2
    <3>2. j.id # i.id
      BY <1>3, <2>2 DEF MayRecord
    <3>3. MayRecord(j)
      BY <1>5, <2>2, <3>1, <3>2 DEF MayRecord
    <3>4. pc[q] = "starting" \/ ~First(q, j)
      <4>1. CASE q = p
        BY <1>1, <3>1, <3>2, <4>1, FirstIsUnique
      <4>2. CASE q # p
        BY <2>2, <4>2 DEF First
      <4>3. QED
        BY <4>1, <4>2
    <3>5. QED
      BY <1>1, <1>5, <3>1, <3>2, <3>3, <3>4 DEF ExecutionsBudgeted
  <2>3. QED
    BY <2>1, <2>2 DEF ExecutionsBudgeted
<1>17. QED
  BY <1>7, <1>9, <1>10, <1>11, <1>14, <1>15, <1>16

LEMMA CommitRecord_ClaimInv ==
  ASSUME TypeOK, ClaimInv, NEW p \in Dispatcher, NEW i \in batch[p], CommitRecord(p, i)
  PROVE  ClaimInv'
<1>1. RecordedRow(p, i)
  BY RecordEffect DEF CommitRecord
<1>2. \A q \in Dispatcher \ {p} :
        batch'[q] = batch[q] /\ pc'[q] = pc[q] /\ outcome'[q] = outcome[q]
  BY DEF CommitRecord, TypeOK
<1>3. batch'[p] = batch[p] \ {i} /\ pc'[p] \in {"idle", "starting"}
  BY DEF CommitRecord, TypeOK
<1>4. QED
  BY <1>1, <1>2, <1>3, Record_ClaimInv

LEMMA CommitUnacknowledged_ClaimInv ==
  ASSUME TypeOK, ClaimInv, NEW p \in Dispatcher, NEW i \in batch[p],
         CommitUnacknowledged(p, i)
  PROVE  ClaimInv'
<1>1. RecordedRow(p, i)
  BY RecordEffect DEF CommitUnacknowledged
<1>2. \A q \in Dispatcher \ {p} :
        batch'[q] = batch[q] /\ pc'[q] = pc[q] /\ outcome'[q] = outcome[q]
  BY DEF CommitUnacknowledged, Throw, TypeOK
<1>3. \/ batch'[p] = {} /\ pc'[p] = "idle"
      \/ batch'[p] = batch[p] /\ pc'[p] = "recording" /\ outcome'[p] = "retryable"
  BY DEF CommitUnacknowledged, Throw, TypeOK
<1>4. QED
  BY <1>1, <1>2, <1>3, Record_ClaimInv

LEMMA Crash_ClaimInv ==
  ASSUME TypeOK, ClaimInv, NEW p \in Dispatcher, Crash(p) PROVE ClaimInv'
<1> USE TypedItems DEF ClaimInv
<1>1. /\ UNCHANGED <<row, exec, executions>>
      /\ batch'[p] = {} /\ pc'[p] = "idle"
      /\ \A q \in Dispatcher \ {p} :
           batch'[q] = batch[q] /\ pc'[q] = pc[q] /\ outcome'[q] = outcome[q]
  BY DEF Crash, rowVars, engineVars, TypeOK
<1>2. ItemsKnown' /\ RecordedTruthfully' /\ OneExecutionPerClaim'
  BY <1>1 DEF ItemsKnown, RecordedTruthfully, OneExecutionPerClaim
<1>3. HeldIsCurrent'
  BY <1>1 DEF HeldIsCurrent, Held, MayRecord, Outdated, First
<1>4. TokensDiffer'
  BY <1>1 DEF TokensDiffer, Held
<1>5. OutcomeTruthful'
  BY <1>1 DEF OutcomeTruthful, First
<1>6. ExecutionsBudgeted'
  BY <1>1 DEF ExecutionsBudgeted, Held, MayRecord, First
<1>7. QED
  BY <1>2, <1>3, <1>4, <1>5, <1>6

LEMMA ItemStep_ClaimInv ==
  ASSUME TypeOK, ClaimInv, NEW p \in Dispatcher, NEW i \in batch[p], ItemStep(p, i)
  PROVE  ClaimInv'
<1>1. CASE ResolveFails(p, i)
  <2>1. UNCHANGED <<exec, executions>> /\ i.id \in Unregistered /\ CallReturns(p, i, "unknown_template")
    BY <1>1 DEF ResolveFails, engineVars
  <2>2. ~EngineAccepts(i.id)
    BY <2>1, TypedItems DEF EngineAccepts, TypeOK
  <2>3. QED
    BY <2>1, <2>2, CallReturns_ClaimInv
<1>2. CASE StartAccepted(p, i)
  BY <1>2, CallReturns_ClaimInv DEF StartAccepted
<1>3. CASE StartAlreadyOpen(p, i)
  <2>1. /\ UNCHANGED <<exec, executions>> /\ exec[i.id] \in OpenExecution
        /\ CallReturns(p, i, "already_started")
    BY <1>3 DEF StartAlreadyOpen, engineVars
  <2>2. ~EngineAccepts(i.id)
    BY <2>1 DEF EngineAccepts
  <2>3. QED
    BY <2>1, <2>2, CallReturns_ClaimInv
<1>4. CASE BeginRecord(p, i)
  BY <1>4, BeginRecord_ClaimInv
<1>5. CASE RecordConflict(p, i)
  BY <1>5, Throw_ClaimInv DEF RecordConflict, rowVars, engineVars
<1>6. CASE CommitRecord(p, i)
  BY <1>6, CommitRecord_ClaimInv
<1>7. CASE RecordLosesRace(p, i)
  BY <1>7, Throw_ClaimInv DEF RecordLosesRace, rowVars, engineVars
<1>8. QED
  BY <1>1, <1>2, <1>3, <1>4, <1>5, <1>6, <1>7 DEF ItemStep

LEMMA ItemFault_ClaimInv ==
  ASSUME TypeOK, ClaimInv, NEW p \in Dispatcher, NEW i \in batch[p], ItemFault(p, i)
  PROVE  ClaimInv'
<1>1. CASE StartFails(p, i)
  BY <1>1, CallReturns_ClaimInv DEF StartFails, engineVars
<1>2. CASE RecordAborts(p, i)
  BY <1>2, Throw_ClaimInv DEF RecordAborts, rowVars, engineVars
<1>3. CASE CommitUnacknowledged(p, i)
  BY <1>3, CommitUnacknowledged_ClaimInv
<1>4. QED
  BY <1>1, <1>2, <1>3 DEF ItemFault

LEMMA Stutter_ClaimInv ==
  ASSUME ClaimInv, UNCHANGED vars PROVE ClaimInv'
BY DEF vars, ClaimInv, ItemsKnown, HeldIsCurrent, TokensDiffer, OutcomeTruthful,
       RecordedTruthfully, OneExecutionPerClaim, ExecutionsBudgeted, Held, MayRecord,
       Outdated, First

\* The invariant of claims, tokens and executions holds in every reachable state.
THEOREM ClaimsInvariant == Spec => []ClaimInv
<1>1. ASSUME TypeOK, ClaimInv, [Next]_vars PROVE ClaimInv'
  <2>1. ASSUME NEW d \in Dispatch, Enqueue(d) \/ Worker(d) \/ WorkerLost(d) PROVE ClaimInv'
    BY <1>1, <2>1, Enqueue_ClaimInv, Worker_ClaimInv, WorkerLost_ClaimInv
  <2>2. ASSUME NEW p \in Dispatcher, DispatcherStep(p) PROVE ClaimInv'
    BY <1>1, <2>2, ClaimRead_ClaimInv, ClaimCommit_ClaimInv, ItemStep_ClaimInv
       DEF DispatcherStep
  <2>3. ASSUME NEW p \in Dispatcher, NEW i \in batch[p], ItemFault(p, i) PROVE ClaimInv'
    BY <1>1, <2>3, ItemFault_ClaimInv
  <2>4. ASSUME NEW p \in Dispatcher, Crash(p) PROVE ClaimInv'
    BY <1>1, <2>4, Crash_ClaimInv
  <2>5. CASE UNCHANGED vars
    BY <1>1, <2>5, Stutter_ClaimInv
  <2>6. QED
    BY <1>1, <2>1, <2>2, <2>3, <2>4, <2>5 DEF Next
<1>2. QED
  BY Init_ClaimInv, <1>1, TypeCorrect, PTL DEF Spec

\* One dispatcher works on a row at a time, whatever the number of dispatchers, the
\* batch size and the faults.
THEOREM ClaimsAreExclusive == Spec => []ExclusiveClaim
<1>1. ClaimInv => ExclusiveClaim
  <2> SUFFICES ASSUME ClaimInv, NEW p \in Dispatcher, NEW q \in Dispatcher, p # q,
                      Held(p), Held(q), NEW i \in batch[p], NEW j \in batch[q], i.id = j.id
               PROVE  Outdated(p, i) \/ Outdated(q, j)
    BY DEF ExclusiveClaim
  <2>1. ~(MayRecord(i) /\ MayRecord(j))
    BY DEF ClaimInv, TokensDiffer, MayRecord
  <2>2. QED
    BY <2>1 DEF ClaimInv, HeldIsCurrent
<1>2. QED
  BY <1>1, ClaimsInvariant, PTL

\* The update by id that ends transitionDispatch always hits the state it checked.
THEOREM CommitsUnderClaim == Spec => []CommitUnderClaim
<1>1. ClaimInv => CommitUnderClaim
  BY DEF ClaimInv, CommitUnderClaim, HeldIsCurrent, Held, Outdated
<1>2. QED
  BY <1>1, ClaimsInvariant, PTL

\* A settled row tells the truth about the engine.
THEOREM RecordsAreTruthful == Spec => []RecordedTruthfully
<1>1. ClaimInv => RecordedTruthfully
  BY DEF ClaimInv
<1>2. QED
  BY <1>1, ClaimsInvariant, PTL

\* A second execution of a workflow id costs a recorded failure and a new claim.
THEOREM ExecutionsAreClaimed == Spec => []OneExecutionPerClaim
<1>1. ClaimInv => OneExecutionPerClaim
  BY DEF ClaimInv
<1>2. QED
  BY <1>1, ClaimsInvariant, PTL

-------------------------------------------------------------------------------
\* While nothing has failed, a dispatcher may record everything it holds, and every row that
\* is starting is held.
AllAttempted ==
  /\ \A p \in Dispatcher : Held(p) => \A i \in batch[p] : MayRecord(i)
  /\ \A d \in Dispatch : row[d].state = "starting" => Attempted(d)

WhileUp == Up => AllAttempted

LEMMA FaultIsDown ==
  ASSUME TypeOK, NEW kind \in {"db", "crash"}, NEW bound, Fault(kind, bound)
  PROVE  ~Up'
<1>1. faults'[kind] = faults[kind] + 1 /\ faults[kind] \in Nat
  BY DEF Fault, TypeOK
<1>2. QED
  BY <1>1 DEF Up

\* Nothing takes a fault back.
LEMMA FaultsGrow ==
  ASSUME TypeOK, [Next]_vars, Up' PROVE Up
<1>1. \/ UNCHANGED faults
      \/ \E kind \in {"outage", "db", "crash"}, bound \in Nat : Fault(kind, bound)
  <2>1. ASSUME NEW d \in Dispatch, Worker(d) PROVE UNCHANGED faults
    BY <2>1 DEF Worker, MarkRunning, MarkCompleted, MarkFailedRetryable, CloseExecution,
                WorkerStep
  <2>2. ASSUME NEW p \in Dispatcher, NEW i \in batch[p], ItemStep(p, i) PROVE UNCHANGED faults
    BY <2>2 DEF ItemStep, ResolveFails, StartAccepted, StartAlreadyOpen, BeginRecord,
                RecordConflict, CommitRecord, RecordLosesRace
  <2>3. ASSUME NEW p \in Dispatcher, NEW i \in batch[p], ItemFault(p, i)
        PROVE  \E kind \in {"outage", "db"}, bound \in Nat : Fault(kind, bound)
    BY <2>3, DispatchAssumption DEF ItemFault, StartFails, RecordAborts, CommitUnacknowledged
  <2>4. ASSUME NEW p \in Dispatcher, ClaimRead(p) \/ ClaimCommit(p) PROVE UNCHANGED faults
    BY <2>4 DEF ClaimRead, ClaimCommit
  <2>5. ASSUME NEW p \in Dispatcher, Crash(p) PROVE Fault("crash", MaxCrashes)
    BY <2>5 DEF Crash
  <2>6. ASSUME NEW d \in Dispatch, Enqueue(d) PROVE UNCHANGED faults
    BY <2>6 DEF Enqueue
  <2>7. ASSUME NEW d \in Dispatch, WorkerLost(d) PROVE Fault("db", MaxDbFaults)
    BY <2>7 DEF WorkerLost
  <2>8. QED
    BY <2>1, <2>2, <2>3, <2>4, <2>5, <2>6, <2>7, DispatchAssumption
       DEF Next, DispatcherStep, vars
<1>2. ASSUME NEW kind \in {"outage", "db", "crash"}, NEW bound \in Nat, Fault(kind, bound)
      PROVE  \A f \in {"db", "crash"} : faults[f] <= faults'[f] /\ faults[f] \in Nat
  BY <1>2 DEF Fault, TypeOK
<1>3. QED
  BY <1>1, <1>2 DEF Up, TypeOK

\* A step that moves neither rows nor batches and lets go of nothing.
LEMMA Keeping_AllAttempted ==
  ASSUME AllAttempted, UNCHANGED <<row, batch>>, \A p \in Dispatcher : Held(p)' <=> Held(p)
  PROVE  AllAttempted'
BY DEF AllAttempted, Attempted, MayRecord

LEMMA Enqueue_AllAttempted ==
  ASSUME TypeOK, AllAttempted, NEW e \in Dispatch, Enqueue(e) PROVE AllAttempted'
<1>1. /\ row[e].state = "absent" /\ row'[e].state = "pending"
      /\ \A d \in Dispatch \ {e} : row'[d] = row[d]
      /\ UNCHANGED <<pc, batch>>
  BY DEF Enqueue, TypeOK, dispatcherVars
<1>2. ASSUME NEW p \in Dispatcher, Held(p)', NEW i \in batch'[p] PROVE MayRecord(i)'
  <2>1. MayRecord(i) /\ i.id \in Dispatch
    BY <1>1, <1>2, TypedItems DEF AllAttempted, Held
  <2>2. QED
    BY <1>1, <2>1 DEF MayRecord
<1>3. ASSUME NEW d \in Dispatch, row'[d].state = "starting" PROVE Attempted(d)'
  BY <1>1, <1>3 DEF AllAttempted, Attempted, Held
<1>4. QED
  BY <1>2, <1>3 DEF AllAttempted

LEMMA ClaimRead_AllAttempted ==
  ASSUME TypeOK, AllAttempted, NEW p \in Dispatcher, ClaimRead(p) PROVE AllAttempted'
<1>1. /\ pc[p] = "idle" /\ pc'[p] = "claiming" /\ UNCHANGED row
      /\ \A q \in Dispatcher \ {p} : pc'[q] = pc[q] /\ batch'[q] = batch[q]
  BY DEF ClaimRead, TypeOK, rowVars
<1>2. QED
  BY <1>1 DEF AllAttempted, Attempted, Held, MayRecord

\* What is won is starting and in the batch of the winner; nobody held it before.
LEMMA ClaimCommit_AllAttempted ==
  ASSUME TypeOK, AllAttempted, NEW p \in Dispatcher, ClaimCommit(p) PROVE AllAttempted'
<1> DEFINE won == {i.id : i \in {j \in batch[p] : Won(j)}}
<1>1. /\ pc[p] = "claiming"
      /\ row' = [d \in Dispatch |-> IF d \in won
                                    THEN [state |-> "starting", token |-> row[d].token + 1]
                                    ELSE row[d]]
      /\ batch' = [batch EXCEPT ![p] = {[id |-> d, token |-> row[d].token + 1] : d \in won}]
      /\ pc' = [pc EXCEPT ![p] = IF won = {} THEN "idle" ELSE "starting"]
  BY DEF ClaimCommit
<1>2. \A d \in won : d \in Dispatch /\ row[d].state \in Claimable
  BY DEF TypeOK, Item, Won
<1> HIDE DEF won
<1>3. /\ batch'[p] = {[id |-> d, token |-> row[d].token + 1] : d \in won}
      /\ pc'[p] = IF won = {} THEN "idle" ELSE "starting"
      /\ \A q \in Dispatcher \ {p} : pc'[q] = pc[q] /\ batch'[q] = batch[q]
  BY <1>1 DEF TypeOK
<1>4. \A d \in Dispatch : row'[d] = IF d \in won
                                    THEN [state |-> "starting", token |-> row[d].token + 1]
                                    ELSE row[d]
  BY <1>1
<1>5. ASSUME NEW q \in Dispatcher, Held(q)', NEW i \in batch'[q] PROVE MayRecord(i)'
  <2>1. CASE q = p
    <3>1. PICK d \in won : i = [id |-> d, token |-> row[d].token + 1]
      BY <1>3, <1>5, <2>1
    <3>2. row'[d] = [state |-> "starting", token |-> row[d].token + 1]
      BY <1>2, <1>4, <3>1
    <3>3. row'[d].token = i.token /\ row'[d].state = "starting" /\ i.id = d
      BY <3>1, <3>2
    <3>4. QED
      BY <3>3 DEF MayRecord
  <2>2. CASE q # p
    <3>1. i \in batch[q] /\ MayRecord(i) /\ i.id \in Dispatch
      BY <1>3, <1>5, <2>2, TypedItems DEF AllAttempted, Held
    <3>2. i.id \notin won
      BY <1>2, <3>1 DEF MayRecord, Claimable
    <3>3. QED
      BY <1>4, <3>1, <3>2 DEF MayRecord
  <2>3. QED
    BY <2>1, <2>2
<1>6. ASSUME NEW d \in Dispatch, row'[d].state = "starting" PROVE Attempted(d)'
  <2>1. CASE d \in won
    <3>1. pc'[p] = "starting" /\ [id |-> d, token |-> row[d].token + 1] \in batch'[p]
      BY <1>3, <2>1
    <3>2. QED
      BY <3>1 DEF Attempted, Held
  <2>2. CASE d \notin won
    <3>1. PICK q \in Dispatcher : Held(q) /\ \E i \in batch[q] : i.id = d
      BY <1>4, <1>6, <2>2 DEF AllAttempted, Attempted
    <3>2. q # p
      BY <1>1, <3>1 DEF Held
    <3>3. QED
      BY <1>3, <3>1, <3>2 DEF Attempted, Held
  <2>3. QED
    BY <2>1, <2>2
<1>7. QED
  BY <1>5, <1>6 DEF AllAttempted

\* The row that is recorded is no longer starting; every other row of the batch is still held,
\* and no other dispatcher held this one.
LEMMA CommitRecord_AllAttempted ==
  ASSUME TypeOK, ClaimInv, AllAttempted, NEW p \in Dispatcher, NEW i \in batch[p],
         CommitRecord(p, i)
  PROVE  AllAttempted'
<1>0. i.id \in Dispatch
  BY TypedItems
<1>1. RecordedRow(p, i)
  BY RecordEffect DEF CommitRecord
<1>2. /\ batch'[p] = batch[p] \ {i}
      /\ pc'[p] = IF batch[p] = {i} THEN "idle" ELSE "starting"
      /\ \A q \in Dispatcher \ {p} : pc'[q] = pc[q] /\ batch'[q] = batch[q]
  BY DEF CommitRecord, TypeOK
<1>3. Held(p) /\ MayRecord(i)
  BY <1>1 DEF RecordedRow, Held, AllAttempted
<1>4. ASSUME NEW q \in Dispatcher, Held(q)', NEW j \in batch'[q] PROVE MayRecord(j)'
  <2>1. j \in batch[q] /\ Held(q) /\ j.id \in Dispatch
    BY <1>2, <1>3, <1>4, TypedItems DEF Held
  <2>2. MayRecord(j)
    BY <2>1 DEF AllAttempted
  <2>3. j.id # i.id
    <3>1. CASE q = p
      BY <1>2, <1>4, <2>1, <3>1 DEF ClaimInv, ItemsKnown
    <3>2. CASE q # p
      BY <1>3, <2>1, <2>2, <3>2 DEF ClaimInv, TokensDiffer, MayRecord
    <3>3. QED
      BY <3>1, <3>2
  <2>4. QED
    BY <1>1, <2>1, <2>2, <2>3 DEF RecordedRow, MayRecord
<1>5. ASSUME NEW d \in Dispatch, row'[d].state = "starting" PROVE Attempted(d)'
  <2>1. d # i.id
    BY <1>1, <1>5 DEF RecordedRow, Target
  <2>2. PICK q \in Dispatcher : Held(q) /\ \E j \in batch[q] : j.id = d
    BY <1>1, <1>5, <2>1 DEF RecordedRow, AllAttempted, Attempted
  <2>3. PICK j \in batch[q] : j.id = d
    BY <2>2
  <2>4. CASE q = p
    <3>1. j \in batch'[p] /\ pc'[p] = "starting"
      BY <1>2, <2>1, <2>3, <2>4
    <3>2. QED
      BY <2>3, <3>1 DEF Attempted, Held
  <2>5. CASE q # p
    BY <1>2, <2>2, <2>3, <2>5 DEF Attempted, Held
  <2>6. QED
    BY <2>4, <2>5
<1>6. QED
  BY <1>4, <1>5 DEF AllAttempted

LEMMA ItemStep_AllAttempted ==
  ASSUME TypeOK, ClaimInv, AllAttempted, NEW p \in Dispatcher, NEW i \in batch[p],
         ItemStep(p, i) \/ StartFails(p, i)
  PROVE  AllAttempted'
<1>1. ASSUME NEW result, CallReturns(p, i, result) PROVE AllAttempted'
  <2>1. UNCHANGED <<row, batch>> /\ \A q \in Dispatcher : Held(q)' <=> Held(q)
    BY <1>1 DEF CallReturns, rowVars, TypeOK, Held
  <2>2. QED
    BY <2>1, Keeping_AllAttempted
<1>2. CASE BeginRecord(p, i)
  <2>1. UNCHANGED <<row, batch>> /\ \A q \in Dispatcher : Held(q)' <=> Held(q)
    BY <1>2 DEF BeginRecord, rowVars, TypeOK, Held
  <2>2. QED
    BY <2>1, Keeping_AllAttempted
<1>3. CASE RecordConflict(p, i)
  BY <1>3 DEF RecordConflict, AllAttempted, Held
<1>4. CASE CommitRecord(p, i)
  BY <1>4, CommitRecord_AllAttempted
<1>5. CASE RecordLosesRace(p, i)
  <2>1. pc[p] = "committing" /\ outcome[p] = "accepted" /\ Throw(p) /\ UNCHANGED row
    BY <1>5 DEF RecordLosesRace, InsertsExistingRun, rowVars
  <2>2. batch' = batch /\ pc' = [pc EXCEPT ![p] = "recording"]
    BY <2>1 DEF Throw, TypeOK
  <2>3. \A q \in Dispatcher : Held(q)' <=> Held(q)
    BY <2>1, <2>2 DEF TypeOK, Held
  <2>4. QED
    BY <2>1, <2>2, <2>3, Keeping_AllAttempted
<1>6. QED
  BY <1>1, <1>2, <1>3, <1>4, <1>5
     DEF ItemStep, ResolveFails, StartAccepted, StartAlreadyOpen, StartFails

\* Whatever the number of dispatchers, the batch size and the conflicts and races of their
\* records: a row is left in starting only after a dispatcher died or a transaction failed.
THEOREM StrandedByFault == Spec => []StrandedByFaultOnly
<1>1. Init => WhileUp
  BY DEF Init, WhileUp, AllAttempted, Held
<1>2. ASSUME TypeOK, ClaimInv, WhileUp, [Next]_vars PROVE WhileUp'
  <2> SUFFICES ASSUME Up' PROVE AllAttempted'
    BY DEF WhileUp
  <2>1. Up
    BY <1>2, FaultsGrow DEF Up
  <2>2. AllAttempted
    BY <1>2, <2>1 DEF WhileUp
  <2>3. ASSUME NEW d \in Dispatch, Enqueue(d) \/ Worker(d) \/ WorkerLost(d)
        PROVE  AllAttempted'
    <3>1. CASE Enqueue(d)
      BY <1>2, <2>2, <3>1, Enqueue_AllAttempted
    <3>2. CASE Worker(d)
      <4>1. UNCHANGED <<row, batch, pc>>
        BY <3>2 DEF Worker, MarkRunning, MarkCompleted, MarkFailedRetryable, CloseExecution,
                    WorkerStep, dispatcherVars
      <4>2. QED
        BY <2>2, <4>1, Keeping_AllAttempted DEF Held
    <3>3. CASE WorkerLost(d)
      BY <1>2, <3>3, FaultIsDown DEF WorkerLost
    <3>4. QED
      BY <2>3, <3>1, <3>2, <3>3
  <2>4. ASSUME NEW p \in Dispatcher, DispatcherStep(p) PROVE AllAttempted'
    BY <1>2, <2>2, <2>4, ClaimRead_AllAttempted, ClaimCommit_AllAttempted, ItemStep_AllAttempted
       DEF DispatcherStep
  <2>5. ASSUME NEW p \in Dispatcher, NEW i \in batch[p], ItemFault(p, i) PROVE AllAttempted'
    <3>1. CASE StartFails(p, i)
      BY <1>2, <2>2, <3>1, ItemStep_AllAttempted
    <3>2. CASE RecordAborts(p, i) \/ CommitUnacknowledged(p, i)
      BY <1>2, <3>2, FaultIsDown DEF RecordAborts, CommitUnacknowledged
    <3>3. QED
      BY <2>5, <3>1, <3>2 DEF ItemFault
  <2>6. ASSUME NEW p \in Dispatcher, Crash(p) PROVE AllAttempted'
    BY <1>2, <2>6, FaultIsDown DEF Crash
  <2>7. CASE UNCHANGED vars
    BY <2>2, <2>7, Keeping_AllAttempted DEF vars, Held
  <2>8. QED
    BY <1>2, <2>3, <2>4, <2>5, <2>6, <2>7 DEF Next
<1>3. WhileUp => StrandedByFaultOnly
  BY DEF WhileUp, AllAttempted, StrandedByFaultOnly
<1>4. QED
  BY <1>1, <1>2, <1>3, TypeCorrect, ClaimsInvariant, PTL DEF Spec

-------------------------------------------------------------------------------
\* Which steps write a row at all: an insert, a claim and a record.
RowsKept == UNCHANGED row

LEMMA RowsKeptBy ==
  /\ \A d \in Dispatch : Worker(d) \/ WorkerLost(d) => RowsKept
  /\ \A p \in Dispatcher : ClaimRead(p) \/ Crash(p) => RowsKept
  /\ \A p \in Dispatcher : \A i \in batch[p] :
       ItemStep(p, i) \/ ItemFault(p, i) => RowsKept \/ WriteRecord(p, i)
<1>1. ASSUME NEW d \in Dispatch, Worker(d) \/ WorkerLost(d) PROVE RowsKept
  BY <1>1 DEF Worker, MarkRunning, MarkCompleted, MarkFailedRetryable, CloseExecution,
              WorkerStep, WorkerLost, rowVars, RowsKept
<1>2. ASSUME NEW p \in Dispatcher, ClaimRead(p) \/ Crash(p) PROVE RowsKept
  BY <1>2 DEF ClaimRead, Crash, rowVars, RowsKept
<1>3. ASSUME NEW p \in Dispatcher, NEW i \in batch[p], ItemStep(p, i) \/ ItemFault(p, i)
      PROVE  RowsKept \/ WriteRecord(p, i)
  BY <1>3 DEF ItemStep, ItemFault, ResolveFails, StartAccepted, StartAlreadyOpen, StartFails,
              CallReturns, BeginRecord, RecordConflict, RecordLosesRace, RecordAborts,
              CommitRecord, CommitUnacknowledged, rowVars, RowsKept
<1>4. QED
  BY <1>1, <1>2, <1>3

LEMMA RowWriters ==
  ASSUME TypeOK, ClaimInv, [Next]_vars
  PROVE  \/ RowsKept
         \/ \E d \in Dispatch : Enqueue(d)
         \/ \E p \in Dispatcher : ClaimCommit(p)
         \/ \E p \in Dispatcher : \E i \in batch[p] :
              /\ i.id \in Dispatch /\ MayRecord(i) /\ pc[p] = "committing" /\ First(p, i)
              /\ WriteRecord(p, i)
<1>1. ASSUME NEW p \in Dispatcher, NEW i \in batch[p], WriteRecord(p, i)
      PROVE  i.id \in Dispatch /\ MayRecord(i) /\ pc[p] = "committing" /\ First(p, i)
  BY <1>1, TypedItems DEF WriteRecord, ClaimInv, HeldIsCurrent, Held, Outdated
<1>2. CASE UNCHANGED vars
  BY <1>2 DEF vars, RowsKept
<1>3. CASE Next
  BY <1>1, <1>3, RowsKeptBy DEF Next, DispatcherStep
<1>4. QED
  BY <1>2, <1>3

\* The lifecycle table of the documentation holds of every step of the store, the
\* token of the row growing by one with every move.
THEOREM TransitionsDocumented == Spec => TransitionsAsDocumented
<1>1. ASSUME TypeOK, ClaimInv, [Next]_vars PROVE MovesAllowed
  <2> SUFFICES ASSUME NEW d \in Dispatch, row'[d] # row[d]
               PROVE  /\ <<row[d].state, row'[d].state>> \in AllowedMoves
                      /\ row'[d].token = IF row[d].state = "absent" THEN 1 ELSE row[d].token + 1
    BY DEF MovesAllowed
  <2>1. CASE RowsKept
    BY <2>1 DEF RowsKept
  <2>2. ASSUME NEW e \in Dispatch, Enqueue(e) PROVE
          /\ row[d].state = "absent" /\ row'[d].state = "pending" /\ row'[d].token = 1
    BY <1>1, <2>2 DEF Enqueue, TypeOK, ClaimInv, ItemsKnown
  <2>3. ASSUME NEW p \in Dispatcher, ClaimCommit(p) PROVE
          /\ row[d].state \in Claimable /\ row'[d].state = "starting"
          /\ row'[d].token = row[d].token + 1
    BY <1>1, <2>3, ClaimEffect DEF ClaimedRows
  <2>4. ASSUME NEW p \in Dispatcher, NEW i \in batch[p], MayRecord(i), WriteRecord(p, i) PROVE
          /\ row[d].state = "starting" /\ row'[d].state = Target(outcome[p])
          /\ row'[d].token = row[d].token + 1
    BY <1>1, <2>4, RecordEffect, TypedItems DEF RecordedRow, MayRecord
  <2>5. QED
    BY <1>1, <2>1, <2>2, <2>3, <2>4, RowWriters DEF AllowedMoves, Claimable, Target
<1>2. QED
  BY <1>1, TypeCorrect, ClaimsInvariant, PTL DEF Spec, TransitionsAsDocumented

-------------------------------------------------------------------------------
\* The refinement mapping of Contract, spelled out.
MappedState == [d \in Dispatch |-> row[d].state]
MappedAccepted == {d \in Dispatch : executions[d] > 0}

LEMMA EngineAccepts_Contract ==
  ASSUME TypeOK, ClaimInv, NEW p \in Dispatcher, NEW i \in batch[p], NEW result,
         CallReturns(p, i, result), EngineAccepts(i.id), i.id \notin Unregistered
  PROVE  Contract!Accept(i.id) /\ i.id \in Dispatch
<1>1. i.id \in Dispatch /\ row[i.id].state = "starting" /\ UNCHANGED row
  BY TypedItems DEF CallReturns, rowVars, ClaimInv, HeldIsCurrent, Held, MayRecord, Outdated
<1>2. \A d \in Dispatch : executions'[d] > 0 <=> executions[d] > 0 \/ d = i.id
  BY <1>1, TypedItems DEF EngineAccepts, TypeOK
<1>3. MappedAccepted' = MappedAccepted \union {i.id}
  BY <1>1, <1>2 DEF MappedAccepted
<1>4. QED
  BY <1>1, <1>3 DEF Contract!Accept, MappedAccepted

LEMMA ItemStep_Contract ==
  ASSUME TypeOK, ClaimInv, NEW p \in Dispatcher, NEW i \in batch[p],
         ItemStep(p, i) \/ ItemFault(p, i)
  PROVE  \/ WriteRecord(p, i)
         \/ i.id \in Dispatch /\ Contract!Accept(i.id)
         \/ UNCHANGED <<row, executions>>
<1>1. CASE StartAccepted(p, i)
  BY <1>1, EngineAccepts_Contract DEF StartAccepted
<1>2. CASE StartFails(p, i)
  BY <1>2, EngineAccepts_Contract DEF StartFails, CallReturns, rowVars, engineVars
<1>3. CASE CommitRecord(p, i) \/ CommitUnacknowledged(p, i)
  BY <1>3 DEF CommitRecord, CommitUnacknowledged
<1>4. CASE ResolveFails(p, i) \/ StartAlreadyOpen(p, i) \/ BeginRecord(p, i)
             \/ RecordConflict(p, i) \/ RecordLosesRace(p, i) \/ RecordAborts(p, i)
  BY <1>4 DEF ResolveFails, StartAlreadyOpen, CallReturns, BeginRecord, RecordConflict,
              RecordLosesRace, RecordAborts, rowVars, engineVars
<1>5. QED
  BY <1>1, <1>2, <1>3, <1>4 DEF ItemStep, ItemFault

\* The store and its dispatchers implement the outbox contract: what a row says follows
\* the lifecycle table, and only claims, starts the engine accepted and guarded records
\* ever move it.
THEOREM DispatchImplementsContract == Spec => ImplementsContract
<1>1. Init => Contract!CInit
  BY DEF Init, Contract!CInit
<1>2. ASSUME TypeOK, ClaimInv, [Next]_vars PROVE [Contract!CNext]_(Contract!contractVars)
  <2>1. ASSUME NEW d \in Dispatch, Enqueue(d) PROVE Contract!Intend(d)
    <3>1. UNCHANGED executions /\ row[d].state = "absent"
      BY <2>1 DEF Enqueue, engineVars
    <3>2. \A e \in Dispatch : row'[e].state = IF e = d THEN "pending" ELSE row[e].state
      BY <1>2, <2>1 DEF Enqueue, TypeOK
    <3>3. MappedState' = [MappedState EXCEPT ![d] = "pending"]
      BY <3>2 DEF MappedState
    <3>4. QED
      BY <3>1, <3>3 DEF Contract!Intend, MappedState
  <2>2. ASSUME NEW p \in Dispatcher, ClaimCommit(p) PROVE \E S \in SUBSET Dispatch : Contract!Claim(S)
    <3>0. PICK S \in SUBSET Dispatch : \A d \in Dispatch : d \in S <=> row'[d] # row[d]
      <4>1. {d \in Dispatch : row'[d] # row[d]} \in SUBSET Dispatch
        OBVIOUS
      <4>2. QED
        BY <4>1
    <3>1. ClaimedRows(p)
      BY <1>2, <2>2, ClaimEffect
    <3>2. \A d \in S : row[d].state \in {"pending", "failed_retryable"}
      BY <3>0, <3>1 DEF ClaimedRows, Claimable
    <3>3. \A d \in Dispatch : row'[d].state = IF d \in S THEN "starting" ELSE row[d].state
      BY <3>0, <3>1 DEF ClaimedRows
    <3>4. UNCHANGED executions
      BY <3>1 DEF ClaimedRows
    <3>5. MappedState' = [d \in Dispatch |-> IF d \in S THEN "starting" ELSE MappedState[d]]
      BY <3>3 DEF MappedState
    <3>6. Contract!Claim(S)
      BY <3>2, <3>4, <3>5 DEF Contract!Claim, MappedState
    <3>7. QED
      BY <3>6
  <2>3. ASSUME NEW p \in Dispatcher, NEW i \in batch[p], WriteRecord(p, i)
        PROVE  i.id \in Dispatch /\ Contract!Settle(i.id)
    <3>1. RecordedRow(p, i) /\ i.id \in Dispatch
      BY <1>2, <2>3, RecordEffect, TypedItems
    <3>2. row[i.id].state = "starting"
      BY <1>2, <3>1 DEF RecordedRow, ClaimInv, HeldIsCurrent, Held, MayRecord, Outdated
    <3>3. /\ Target(outcome[p]) \in {"started", "duplicate"} => executions[i.id] > 0
          /\ Target(outcome[p]) = "failed_terminal" => i.id \in Unregistered
          /\ Target(outcome[p]) \in {"started", "duplicate", "failed_retryable", "failed_terminal"}
      BY <1>2, <3>1 DEF RecordedRow, ClaimInv, OutcomeTruthful, Target
    <3>4. \A e \in Dispatch : row'[e].state = IF e = i.id THEN Target(outcome[p]) ELSE row[e].state
      BY <3>1 DEF RecordedRow
    <3>5. MappedState' = [MappedState EXCEPT ![i.id] = Target(outcome[p])]
      BY <3>1, <3>4 DEF MappedState
    <3>6. UNCHANGED executions
      BY <3>1 DEF RecordedRow
    <3>7. QED
      BY <3>1, <3>2, <3>3, <3>5, <3>6 DEF Contract!Settle, MappedState
  <2>4. ASSUME UNCHANGED <<row, executions>> PROVE UNCHANGED Contract!contractVars
    BY <2>4 DEF Contract!contractVars
  <2>5. ASSUME NEW d \in Dispatch, Worker(d) \/ WorkerLost(d) PROVE UNCHANGED <<row, executions>>
    BY <2>5 DEF Worker, MarkRunning, MarkCompleted, MarkFailedRetryable, CloseExecution,
                WorkerStep, WorkerLost, rowVars
  <2>6. ASSUME NEW p \in Dispatcher, ClaimRead(p) \/ Crash(p) PROVE UNCHANGED <<row, executions>>
    BY <2>6 DEF ClaimRead, Crash, rowVars, engineVars
  <2>7. CASE UNCHANGED vars
    BY <2>4, <2>7 DEF vars
  <2>8. ASSUME NEW p \in Dispatcher, NEW i \in batch[p], ItemStep(p, i) \/ ItemFault(p, i)
        PROVE  [Contract!CNext]_(Contract!contractVars)
    BY <1>2, <2>3, <2>4, <2>8, ItemStep_Contract DEF Contract!CNext
  <2>9. CASE Next
    BY <2>1, <2>2, <2>4, <2>5, <2>6, <2>8, <2>9 DEF Next, DispatcherStep, Contract!CNext
  <2>10. QED
    BY <1>2, <2>7, <2>9
<1>3. QED
  BY <1>1, <1>2, TypeCorrect, ClaimsInvariant, PTL DEF Spec, ImplementsContract, Contract!CSpec

===============================================================================
