----------------------------- MODULE PipelineProofs -----------------------------
(***************************************************************************)
(* Proofs about Pipeline, for any versions, calls, dispatchers and faults: *)
(* it runs WorkflowDispatch and UploadSession, so the theorems of both     *)
(* hold over the tables they share; and from these, that told completions  *)
(* are on their way, that deliveries are grounded, and that the version    *)
(* contract is kept up to delivery.                                        *)
(***************************************************************************)
EXTENDS Pipeline, WorkflowDispatchProofs

\* The theorems about uploads, over the shared tables.
UP == INSTANCE UploadSessionProofs WITH
  dispatched <- HandedOver, pc <- call, faults <- apiFaults,
  MaxDbFaults <- MaxApiDbFaults, MaxCrashes <- MaxApiCrashes

-------------------------------------------------------------------------------
\* Every step of the pipeline is a step of the dispatch, or leaves it alone: its theorems
\* hold here.
THEOREM PipelineRunsDispatch == PipelineSpec => Spec
PROOF
<1>1. PipelineInit => Init
  BY DEF PipelineInit
<1>2. [PipelineNext]_pipelineVars => [Next]_vars
  <2> SUFFICES ASSUME [PipelineNext]_pipelineVars
               PROVE  [Next]_vars
    OBVIOUS
  <2>1. CASE UNCHANGED pipelineVars
    BY <2>1 DEF pipelineVars
  <2>2. CASE HandsOver
    BY <2>2 DEF HandsOver, Next
  <2>3. CASE Accepts
    BY <2>3 DEF Accepts
  <2>4. ASSUME NEW p \in Dispatcher, Dispatches(p) \/ DispatchFails(p)
        PROVE  Next
    BY <2>4 DEF Dispatches, DispatchFails, Next
  <2>5. ASSUME NEW d \in Dispatch, BeginsPublication(d) \/ Publishes(d)
        PROVE  UNCHANGED vars
    BY <2>5 DEF BeginsPublication, Publishes
  <2>6. ASSUME NEW d \in Dispatch, Completes(d) \/ Fails(d) \/ Runs(d)
        PROVE  Next
    BY <2>6 DEF Completes, Fails, Runs, Next, Worker
  <2> QED
    BY <2>1, <2>2, <2>3, <2>4, <2>5, <2>6 DEF PipelineNext
<1> QED
  BY <1>1, <1>2, PTL DEF PipelineSpec, Spec

-------------------------------------------------------------------------------
\* Both instances of UploadSession, by name and through its proofs, are one specification.
LEMMA SameUploads == Upload!Spec <=> UP!Spec
PROOF
<1>1. Upload!Init <=> UP!Init
  BY DEF Upload!Init, UP!Init, Upload!Session, UP!Session
<1>2. Upload!Next <=> UP!Next
  BY SMTT(60)
      DEF Upload!Next, UP!Next, Upload!CallBegins, UP!CallBegins, Upload!CallGoesOn,
          UP!CallGoesOn, Upload!CallFails, UP!CallFails, Upload!Session, UP!Session,
          Upload!Expire, UP!Expire, Upload!Workflow, UP!Workflow, Upload!IssueReplay,
          UP!IssueReplay, Upload!IssueRead, UP!IssueRead, Upload!Request, UP!Request,
          Upload!CompleteReplay, UP!CompleteReplay, Upload!CompleteStart, UP!CompleteStart,
          Upload!IssueCommit, UP!IssueCommit, Upload!IssueConflict, UP!IssueConflict,
          Upload!PhaseOneExpired, UP!PhaseOneExpired, Upload!PhaseOneReplay,
          UP!PhaseOneReplay, Upload!PhaseOneRead, UP!PhaseOneRead, Upload!PhaseOneAccepts,
          UP!PhaseOneAccepts, Upload!PhaseOneRejects, UP!PhaseOneRejects,
          Upload!Canonicalize, UP!Canonicalize, Upload!CanonicalizeFails,
          UP!CanonicalizeFails, Upload!PhaseTwoReplay, UP!PhaseTwoReplay,
          Upload!PhaseTwoRead, UP!PhaseTwoRead, Upload!PhaseTwoCommit, UP!PhaseTwoCommit,
          Upload!PhaseTwoConflict, UP!PhaseTwoConflict, Upload!Catch, UP!Catch,
          Upload!IssueFails, UP!IssueFails, Upload!PhaseOneFails, UP!PhaseOneFails,
          Upload!PhaseTwoFails, UP!PhaseTwoFails, Upload!CatchFails, UP!CatchFails,
          Upload!Crash, UP!Crash, Upload!Present, UP!Present, Upload!assetVars,
          UP!assetVars, Upload!recordVars, UP!recordVars, Upload!callVars, UP!callVars,
          Upload!BeginPublication, UP!BeginPublication, Upload!Publish, UP!Publish,
          Upload!PublicationFails, UP!PublicationFails, Upload!Answer, UP!Answer,
          Upload!Accept, UP!Accept, Upload!Recorded, UP!Recorded, Upload!SameRequest,
          UP!SameRequest, Upload!Replayable, UP!Replayable, Upload!Telling, UP!Telling,
          Upload!IssueRows, UP!IssueRows, Upload!Insertable, UP!Insertable, Upload!Replay,
          UP!Replay, Upload!Completable, UP!Completable, Upload!Goto, UP!Goto,
          Upload!AcceptUpload, UP!AcceptUpload, Upload!Fault, UP!Fault, Upload!PhaseTwoRows,
          UP!PhaseTwoRows, Upload!SourceIsNew, UP!SourceIsNew, Upload!Move, UP!Move,
          Upload!Recording, UP!Recording, Upload!ReplayRows, UP!ReplayRows,
          Upload!RejectUpload, UP!RejectUpload
<1>3. [Upload!Next]_(Upload!vars) <=> [UP!Next]_(UP!vars)
  BY <1>2 DEF Upload!vars, UP!vars
<1> QED
  BY <1>1, <1>3, PTL DEF Upload!Spec, UP!Spec

\* Dispatchers and workers create no row and remove none.
LEMMA HandedOverKept ==
  ASSUME TypeOK, ClaimInv,
         \/ \E p \in Dispatcher :
              DispatcherStep(p) \/ Crash(p) \/ \E i \in batch[p] : ItemFault(p, i)
         \/ \E d \in Dispatch : Worker(d) \/ WorkerLost(d)
  PROVE  HandedOver' = HandedOver
PROOF
<1>1. ASSUME NEW p \in Dispatcher, ClaimCommit(p)
      PROVE  HandedOver' = HandedOver
  BY <1>1, ClaimEffect DEF ClaimedRows, HandedOver, Claimable
<1>2. ASSUME NEW p \in Dispatcher, NEW i \in batch[p], WriteRecord(p, i)
      PROVE  HandedOver' = HandedOver
  <2>1. RecordedRow(p, i) /\ i.id \in Dispatch
    BY <1>2, RecordEffect, TypedItems
  <2>2. row[i.id].state # "absent"
    BY <2>1 DEF ClaimInv, ItemsKnown
  <2>3. Target(outcome[p]) # "absent"
    BY DEF Target
  <2> QED
    BY <2>1, <2>2, <2>3 DEF RecordedRow, HandedOver
<1>3. CASE RowsKept
  BY <1>3 DEF RowsKept, HandedOver
<1> QED
  BY <1>1, <1>2, <1>3, RowsKeptBy DEF DispatcherStep

\* Every step of the pipeline is a step of the uploads, or leaves them alone: a dispatch row
\* appears in the transaction that makes the version canonical, and in no other way.
THEOREM PipelineRunsUploads == PipelineSpec => Upload!Spec
PROOF
<1>0. Upload!Session = Dispatch
  BY PipelineAssumption DEF Upload!Session
<1>1. PipelineInit => Upload!Init
  BY DEF PipelineInit
<1>2. TypeOK /\ ClaimInv /\ [PipelineNext]_pipelineVars => [Upload!Next]_(Upload!vars)
  <2> SUFFICES ASSUME TypeOK, ClaimInv, [PipelineNext]_pipelineVars
               PROVE  [Upload!Next]_(Upload!vars)
    OBVIOUS
  <2>1. CASE UNCHANGED pipelineVars
    BY <2>1 DEF pipelineVars, vars, uploadVars, Upload!vars, HandedOver
  <2>2. ASSUME ApiStep
        PROVE  Upload!Next
    BY <1>0, <2>2 DEF ApiStep, Upload!Next
  <2>3. ASSUME UNCHANGED uploadVars, HandedOver' = HandedOver
        PROVE  UNCHANGED Upload!vars
    BY <2>3 DEF uploadVars, Upload!vars
  <2>4. ASSUME NEW p \in Dispatcher, Dispatches(p) \/ DispatchFails(p)
        PROVE  UNCHANGED Upload!vars
    BY <2>3, <2>4, HandedOverKept DEF Dispatches, DispatchFails
  <2>5. ASSUME NEW d \in Dispatch, Completes(d) \/ Runs(d)
        PROVE  UNCHANGED Upload!vars
    BY <2>3, <2>5, HandedOverKept DEF Completes, Runs, Worker
  <2>6. ASSUME NEW d \in Dispatch, BeginsPublication(d) \/ Publishes(d) \/ Fails(d)
        PROVE  Upload!Next
    BY <1>0, <2>6 DEF BeginsPublication, Publishes, Fails, Upload!Next, Upload!Workflow
  <2> QED
    BY <2>1, <2>2, <2>4, <2>5, <2>6 DEF PipelineNext, HandsOver, Accepts
<1> QED
  BY <1>1, <1>2, PipelineRunsDispatch, TypeCorrect, ClaimsInvariant, PTL
     DEF PipelineSpec, Upload!Spec

-------------------------------------------------------------------------------
\* What the theorems of the two parts say of the shared tables.
Parts ==
  /\ TypeOK
  /\ ClaimInv
  /\ StrandedByFaultOnly
  /\ Upload!TypeOK
  /\ Upload!DispatchIsPostCanonical
  /\ Upload!CompletionsReplay
  /\ HandedOver \subseteq Upload!Present

\* The assumption under which the theorems about uploads hold is met.
LEMMA UploadsAssumed ==
  /\ MaxVersions \in Nat
  /\ NoSource \notin Source
  /\ SnapshotOf \in [UP!Session -> SUBSET Source]
  /\ {MaxRepositoryFailures, MaxWorkflowFailures, MaxApiDbFaults, MaxApiCrashes} \subseteq Nat
BY PipelineAssumption DEF UP!Session

LEMMA UploadTheorems ==
  /\ UP!Spec => []UP!TypeOK
  /\ UP!Spec => []UP!DispatchIsPostCanonical
  /\ UP!Spec => []UP!CompletionsReplay
  /\ UP!Spec => [](HandedOver \subseteq UP!Present)
  /\ UP!Spec => [][UP!Forward]_(UP!vars)
PROOF
<1>1. UP!Spec => []UP!TypeOK
  BY UploadsAssumed, UP!TypeCorrect
<1>2. UP!Spec => []UP!DispatchIsPostCanonical
  BY UploadsAssumed, UP!DispatchesArePostCanonical
<1>3. UP!Spec => []UP!CompletionsReplay
  BY UploadsAssumed, UP!RecordedCompletionsReplay
<1>4. UP!Spec => [](HandedOver \subseteq UP!Present)
  BY UploadsAssumed, UP!DispatchedArePresent
<1>5. UP!Spec => [][UP!Forward]_(UP!vars)
  BY UploadsAssumed, UP!GoesForward
<1> QED
  BY <1>1, <1>2, <1>3, <1>4, <1>5

THEOREM PartsInvariant == PipelineSpec => []Parts
PROOF
<1>1. UP!TypeOK => Upload!TypeOK
  BY DEF UP!TypeOK, Upload!TypeOK, UP!Session, Upload!Session, UP!SessionState,
         Upload!SessionState, UP!VersionState, Upload!VersionState, UP!Request, Upload!Request,
         UP!Result, Upload!Result
<1>2. UP!DispatchIsPostCanonical => Upload!DispatchIsPostCanonical
  BY DEF UP!DispatchIsPostCanonical, Upload!DispatchIsPostCanonical, UP!Session, Upload!Session
<1>3. UP!CompletionsReplay => Upload!CompletionsReplay
  BY DEF UP!CompletionsReplay, Upload!CompletionsReplay, UP!Replayable, Upload!Replayable
<1>4. HandedOver \subseteq UP!Present => HandedOver \subseteq Upload!Present
  BY DEF UP!Present, Upload!Present, UP!Session, Upload!Session
<1>5. PipelineSpec => UP!Spec
  BY PipelineRunsUploads, SameUploads
<1>6. PipelineSpec => []Upload!TypeOK
  BY <1>1, <1>5, UploadTheorems, PTL
<1>7. PipelineSpec => []Upload!DispatchIsPostCanonical
  BY <1>2, <1>5, UploadTheorems, PTL
<1>8. PipelineSpec => []Upload!CompletionsReplay
  BY <1>3, <1>5, UploadTheorems, PTL
<1>9. PipelineSpec => [](HandedOver \subseteq Upload!Present)
  BY <1>4, <1>5, UploadTheorems, PTL
<1>10. PipelineSpec => [](TypeOK /\ ClaimInv /\ StrandedByFaultOnly)
  BY PipelineRunsDispatch, TypeCorrect, ClaimsInvariant, StrandedByFault, PTL
<1> QED
  BY <1>6, <1>7, <1>8, <1>9, <1>10, PTL
     DEF Parts

\* docs/idempotency-and-dispatch.md section 5: the completion a caller was told of is on its
\* way to its execution, through any calls and dispatchers, until one dies or a
\* transaction fails.
THEOREM ToldOnItsWay == PipelineSpec => []ToldIsOnItsWay
PROOF
<1>1. Parts => ToldIsOnItsWay
  <2> SUFFICES ASSUME Parts, Up, NEW t \in told
               PROVE  Reached(t.session)
    BY DEF ToldIsOnItsWay
  <2>1. t.session \in HandedOver
    BY DEF Parts, Upload!CompletionsReplay, Upload!Replayable
  <2>2. t.session \in Dispatch /\ row[t.session].state \in RowState \ {"absent"}
    BY <2>1 DEF HandedOver, Parts, TypeOK
  <2>3. row[t.session].state = "starting" => Attempted(t.session)
    BY <2>2 DEF Parts, StrandedByFaultOnly
  <2> QED
    BY <2>2, <2>3 DEF RowState, Claimable, Parts, ClaimInv, RecordedTruthfully, Reached
<1> QED
  BY <1>1, PartsInvariant, PTL

-------------------------------------------------------------------------------
(* Deliveries are grounded: DeliveryInv, step by step. *)

\* The calls of the API write a version's state, but neither processing nor published.
LEMMA ApiWrites ==
  ASSUME Upload!TypeOK, ApiStep, NEW d \in Dispatch, ver'[d] \in {"processing", "published"}
  PROVE  ver'[d] = ver[d]
PROOF
<1>1. ASSUME NEW s, NEW x \in {"session_created", "canonicalizing", "canonical",
                               "failed_validation", "failed_retryable"},
             ver' = [ver EXCEPT ![s] = x]
      PROVE  ver'[d] = ver[d]
  BY <1>1, PipelineAssumption DEF Upload!TypeOK, Upload!Session
<1>2. ASSUME NEW p \in Client, Upload!CallBegins(p)
      PROVE  UNCHANGED ver
  BY <1>2 DEF Upload!CallBegins, Upload!IssueReplay, Upload!IssueRead, Upload!CompleteReplay,
              Upload!CompleteStart, Upload!assetVars
<1>3. ASSUME NEW p \in Client, NEW r \in req[p], Upload!CallGoesOn(p, r) \/ Upload!CallFails(p, r)
      PROVE  \/ UNCHANGED ver
             \/ \E x \in {"session_created", "canonicalizing", "canonical",
                          "failed_validation", "failed_retryable"} :
                  ver' = [ver EXCEPT ![r.session] = x]
  BY <1>3
     DEF Upload!CallGoesOn, Upload!CallFails, Upload!IssueCommit, Upload!IssueConflict,
         Upload!PhaseOneExpired, Upload!PhaseOneReplay, Upload!PhaseOneRead,
         Upload!PhaseOneAccepts, Upload!PhaseOneRejects, Upload!Canonicalize,
         Upload!CanonicalizeFails, Upload!PhaseTwoReplay, Upload!PhaseTwoRead,
         Upload!PhaseTwoCommit, Upload!PhaseTwoConflict, Upload!Catch, Upload!IssueFails,
         Upload!PhaseOneFails, Upload!PhaseTwoFails, Upload!CatchFails, Upload!Crash,
         Upload!IssueRows, Upload!AcceptUpload, Upload!PhaseTwoRows, Upload!Replay,
         Upload!ReplayRows, Upload!RejectUpload, Upload!assetVars
<1>4. ASSUME NEW e \in Dispatch, Upload!Expire(e)
      PROVE  UNCHANGED ver
  BY <1>4 DEF Upload!Expire, Upload!assetVars
<1> QED
  BY <1>1, <1>2, <1>3, <1>4 DEF ApiStep

\* A dispatcher opens executions, and its records write completed only if it read that.
Dispatching ==
  /\ \A d \in Dispatch : executions[d] > 0 \/ exec'[d] # exec[d] => executions'[d] > 0
  /\ \A d \in Dispatch : run'[d] = "completed" =>
       \/ run[d] = "completed"
       \/ \E p \in Dispatcher : /\ pc[p] = "committing" /\ seen[p] = "completed"
                               /\ \E i \in batch[p] : First(p, i) /\ i.id = d
  /\ \A p \in Dispatcher : pc'[p] = "committing" =>
       \/ pc[p] = "committing" /\ UNCHANGED <<batch[p], seen[p]>>
       \/ \E i \in batch[p] : First(p, i) /\ batch'[p] = batch[p] /\ seen'[p] = run[i.id]

LEMMA ItemEffect ==
  ASSUME TypeOK, NEW p \in Dispatcher, NEW i \in batch[p], ItemStep(p, i) \/ ItemFault(p, i)
  PROVE  Dispatching
PROOF
<1>0. i.id \in Dispatch /\ \A d \in Dispatch : executions[d] \in Nat
  BY TypedItems
<1>1. ASSUME NEW result, CallReturns(p, i, result), EngineAccepts(i.id) \/ UNCHANGED engineVars
      PROVE  Dispatching
  <2>1. UNCHANGED <<run, batch, seen>>
    BY <1>1 DEF CallReturns, rowVars
  <2>2. pc'[p] = "recording" /\ \A q \in Dispatcher \ {p} : pc'[q] = pc[q]
    BY <1>1 DEF CallReturns, TypeOK
  <2>3. \A d \in Dispatch : executions[d] > 0 \/ exec'[d] # exec[d] => executions'[d] > 0
    BY <1>0, <1>1 DEF EngineAccepts, engineVars, TypeOK
  <2> QED
    BY <2>1, <2>2, <2>3 DEF Dispatching
<1>2. CASE BeginRecord(p, i)
  <2>1. UNCHANGED <<run, engineVars, batch>> /\ First(p, i)
    BY <1>2 DEF BeginRecord, rowVars
  <2>2. seen'[p] = run[i.id] /\ \A q \in Dispatcher \ {p} : pc'[q] = pc[q] /\ seen'[q] = seen[q]
    BY <1>2 DEF BeginRecord, TypeOK
  <2> QED
    BY <2>1, <2>2 DEF Dispatching, engineVars
<1>3. ASSUME Throw(p), UNCHANGED <<run, engineVars>>
      PROVE  Dispatching
  <2>1. pc'[p] # "committing"
    BY <1>3 DEF Throw, TypeOK
  <2>2. \A q \in Dispatcher \ {p} : pc'[q] = pc[q] /\ seen'[q] = seen[q] /\ batch'[q] = batch[q]
    BY <1>3 DEF Throw, TypeOK
  <2> QED
    BY <1>3, <2>1, <2>2 DEF Dispatching, engineVars
<1>4. CASE CommitRecord(p, i) \/ CommitUnacknowledged(p, i)
  <2>1. WriteRecord(p, i)
    BY <1>4 DEF CommitRecord, CommitUnacknowledged
  <2>2. pc'[p] # "committing"
    BY <1>4 DEF CommitRecord, CommitUnacknowledged, Throw, TypeOK
  <2>3. \A q \in Dispatcher \ {p} : pc'[q] = pc[q] /\ seen'[q] = seen[q] /\ batch'[q] = batch[q]
    BY <1>4 DEF CommitRecord, CommitUnacknowledged, Throw, TypeOK
  <2>4. pc[p] = "committing" /\ First(p, i) /\ UNCHANGED engineVars
    BY <2>1 DEF WriteRecord
  <2>5. \A d \in Dispatch : run'[d] = IF d = i.id THEN RunAfterRecord(p, d) ELSE run[d]
    BY <2>1 DEF WriteRecord, TypeOK
  <2>6. RunAfterRecord(p, i.id) = "completed" => seen[p] = "completed" \/ run[i.id] = "completed"
    BY DEF RunAfterRecord
  <2> QED
    BY <1>0, <2>2, <2>3, <2>4, <2>5, <2>6 DEF Dispatching, engineVars
<1> QED
  BY <1>1, <1>2, <1>3, <1>4
     DEF ItemStep, ItemFault, ResolveFails, StartAccepted, StartAlreadyOpen, StartFails,
         RecordConflict, RecordLosesRace, RecordAborts, rowVars

LEMMA DispatcherEffect ==
  ASSUME TypeOK, NEW p \in Dispatcher, Dispatches(p) \/ DispatchFails(p)
  PROVE  Dispatching
PROOF
<1>1. CASE ClaimRead(p) \/ ClaimCommit(p) \/ Crash(p)
  <2>1. UNCHANGED <<run, engineVars>>
    BY <1>1 DEF ClaimRead, ClaimCommit, Crash, rowVars
  <2>2. /\ pc'[p] # "committing"
        /\ \A q \in Dispatcher \ {p} : pc'[q] = pc[q] /\ seen'[q] = seen[q] /\ batch'[q] = batch[q]
    BY <1>1 DEF ClaimRead, ClaimCommit, Crash, TypeOK
  <2> QED
    BY <2>1, <2>2 DEF Dispatching, engineVars
<1> QED
  BY <1>1, ItemEffect DEF Dispatches, DispatchFails, DispatcherStep

\* The source of what was handed over is durable, so the rest of DeliveryInv is enough.
LEMMA GroundedByParts ==
  ASSUME Upload!DispatchIsPostCanonical', delivered' \subseteq HandedOver',
         \A d \in Dispatch : d \in delivered' \/ ver'[d] = "processing" => executions'[d] > 0,
         \A d \in Dispatch : ver'[d] = "published" \/ run'[d] = "completed" => d \in delivered'
  PROVE  DeliveryIsGrounded'
<1>1. Upload!Session = Dispatch
  BY PipelineAssumption DEF Upload!Session
<1> QED
  BY <1>1 DEF DeliveryIsGrounded, Upload!DispatchIsPostCanonical

LEMMA Grounded_Api ==
  ASSUME Parts, Parts', DeliveryInv, HandsOver \/ Accepts
  PROVE  DeliveryInv'
<1>1. UNCHANGED <<run, exec, executions, pc, batch, seen, delivered>> /\ ApiStep
  BY DEF HandsOver, Accepts, Enqueue, engineVars, dispatcherVars, vars
<1>2. HandedOver \subseteq HandedOver'
  BY DEF Parts, TypeOK, HandsOver, Accepts, Enqueue, vars, HandedOver
<1>3. \A d \in Dispatch : ver'[d] \in {"processing", "published"} => ver'[d] = ver[d]
  BY <1>1, ApiWrites DEF Parts
<1>4. DeliveryIsGrounded'
  BY <1>1, <1>2, <1>3, GroundedByParts DEF DeliveryInv, DeliveryIsGrounded, Parts
<1> QED
  BY <1>1, <1>2, <1>4 DEF DeliveryInv, First

LEMMA Grounded_Dispatcher ==
  ASSUME Parts, Parts', DeliveryInv, NEW p \in Dispatcher, Dispatches(p) \/ DispatchFails(p)
  PROVE  DeliveryInv'
<1>1. HandedOver' = HandedOver
  BY HandedOverKept DEF Parts, Dispatches, DispatchFails
<1>2. UNCHANGED <<ver, source, delivered>>
  BY DEF Dispatches, DispatchFails, uploadVars
<1>3. Dispatching
  BY DispatcherEffect DEF Parts
<1>4. \A d \in Dispatch : run'[d] = "completed" => d \in delivered
  BY <1>3 DEF Dispatching, DeliveryInv, DeliveryIsGrounded
<1>5. DeliveryIsGrounded'
  BY <1>1, <1>2, <1>3, <1>4, GroundedByParts DEF DeliveryInv, DeliveryIsGrounded, Parts, Dispatching
<1>6. \A d \in Dispatch : exec'[d] # "none" => executions'[d] > 0
  BY <1>3 DEF Dispatching, DeliveryInv
<1>7. ASSUME NEW q \in Dispatcher, pc'[q] = "committing", seen'[q] = "completed",
             NEW j \in batch'[q], First(q, j)'
      PROVE  j.id \in delivered
  <2>1. CASE pc[q] = "committing" /\ UNCHANGED <<batch[q], seen[q]>>
    BY <1>7, <2>1 DEF DeliveryInv, First
  <2>2. ASSUME NEW i \in batch[q], First(q, i), batch'[q] = batch[q], seen'[q] = run[i.id]
        PROVE  j.id \in delivered
    <3>1. First(q, j)
      BY <1>7, <2>2 DEF First
    <3>2. i = j
      BY <1>7, <2>2, <3>1, FirstIsUnique DEF Parts, ClaimInv
    <3>3. j.id \in Dispatch
      BY <1>7, <2>2, TypedItems DEF Parts
    <3> QED
      BY <1>7, <2>2, <3>2, <3>3 DEF DeliveryInv, DeliveryIsGrounded
  <2> QED
    BY <1>3, <1>7, <2>1, <2>2 DEF Dispatching
<1> QED
  BY <1>1, <1>2, <1>5, <1>6, <1>7 DEF DeliveryInv

LEMMA Grounded_Worker ==
  ASSUME Parts, Parts', DeliveryInv, NEW d \in Dispatch,
         \/ BeginsPublication(d) \/ Publishes(d)
         \/ Completes(d) \/ Fails(d) \/ Runs(d)
  PROVE  DeliveryInv'
<1> USE DEF Parts
<1>1. UNCHANGED <<executions, pc, batch, seen>> /\ HandedOver' = HandedOver
  <2>1. CASE BeginsPublication(d) \/ Publishes(d)
    BY <2>1 DEF BeginsPublication, Publishes, vars, HandedOver
  <2>2. CASE Completes(d) \/ Fails(d) \/ Runs(d)
    BY <2>2, HandedOverKept
       DEF Completes, Fails, Runs, Worker, MarkRunning, MarkCompleted, MarkFailedRetryable,
           CloseExecution, WorkerStep, WorkerLost, dispatcherVars
  <2> QED
    BY <2>1, <2>2
<1>2. \A e \in Dispatch : exec'[e] # "none" => executions[e] > 0
  BY DEF DeliveryInv, TypeOK, BeginsPublication, Publishes, vars, Completes, Fails, Runs,
         MarkRunning, MarkCompleted, MarkFailedRetryable, CloseExecution, WorkerStep, WorkerLost
<1>3. Begun(d) => executions[d] > 0
  BY DEF Begun, DeliveryInv, TypeOK
<1>4. /\ delivered \subseteq delivered'
      /\ delivered' \subseteq HandedOver
      /\ \A e \in delivered' : executions[e] > 0
  BY <1>3 DEF DeliveryInv, DeliveryIsGrounded, BeginsPublication, Publishes, Completes, Fails, Runs,
              Upload!Publish, Upload!Move, HandedOver
<1>5. \A e \in Dispatch :
        /\ ver'[e] = "processing" => executions[e] > 0
        /\ ver'[e] = "published" => e \in delivered'
  <2>1. CASE UNCHANGED ver
    BY <1>4, <2>1 DEF DeliveryInv, DeliveryIsGrounded
  <2>2. CASE Begun(d) /\ ver' = [ver EXCEPT ![d] = "processing"]
    BY <1>3, <1>4, <2>2, PipelineAssumption
       DEF DeliveryInv, DeliveryIsGrounded, Upload!TypeOK, Upload!Session
  <2>3. CASE d \in delivered' /\ ver' = [ver EXCEPT ![d] = "published"]
    BY <1>4, <2>3, PipelineAssumption
       DEF DeliveryInv, DeliveryIsGrounded, Upload!TypeOK, Upload!Session
  <2>4. CASE ver' = [ver EXCEPT ![d] = "failed_retryable"]
    BY <1>4, <2>4, PipelineAssumption
       DEF DeliveryInv, DeliveryIsGrounded, Upload!TypeOK, Upload!Session
  <2> QED
    BY <2>1, <2>2, <2>3, <2>4
       DEF BeginsPublication, Publishes, Completes, Fails, Runs, uploadVars, Upload!Publish,
           Upload!BeginPublication, Upload!PublicationFails, Upload!Move
<1>6. \A e \in Dispatch : run'[e] = "completed" => e \in delivered'
  BY <1>4
     DEF DeliveryInv, DeliveryIsGrounded, TypeOK, BeginsPublication, Publishes, vars, Completes,
         Fails, Runs, MarkRunning, MarkCompleted, MarkFailedRetryable, CloseExecution,
         WorkerStep, WorkerLost, rowVars
<1>7. DeliveryIsGrounded'
  BY <1>1, <1>4, <1>5, <1>6, GroundedByParts
<1> QED
  BY <1>1, <1>2, <1>4, <1>7 DEF DeliveryInv, First

\* DeliveryInv holds in every reachable state.
THEOREM DeliveryInvariant == PipelineSpec => []DeliveryInv
PROOF
<1>1. PipelineInit => DeliveryInv
  BY PipelineAssumption
     DEF PipelineInit, Init, Upload!Init, Upload!Session, DeliveryInv, DeliveryIsGrounded
<1>2. Parts /\ Parts' /\ DeliveryInv /\ [PipelineNext]_pipelineVars => DeliveryInv'
  <2> SUFFICES ASSUME Parts, Parts', DeliveryInv, [PipelineNext]_pipelineVars
               PROVE  DeliveryInv'
    OBVIOUS
  <2>1. CASE UNCHANGED pipelineVars
    BY <2>1 DEF pipelineVars, vars, uploadVars, DeliveryInv, DeliveryIsGrounded, HandedOver, First
  <2>2. CASE PipelineNext
    BY <2>2, Grounded_Api, Grounded_Dispatcher, Grounded_Worker DEF PipelineNext
  <2> QED
    BY <2>1, <2>2
<1> QED
  BY <1>1, <1>2, PartsInvariant, PTL DEF PipelineSpec

\* docs/idempotency-and-dispatch.md section 5, across the tables: what is processed or
\* delivered has a durable source and an execution that the engine accepted, and a run is
\* only completed when its version was delivered.
THEOREM DeliveriesGrounded == PipelineSpec => []DeliveryIsGrounded
PROOF
<1>1. DeliveryInv => DeliveryIsGrounded
  BY DEF DeliveryInv
<1> QED
  BY <1>1, DeliveryInvariant, PTL

-------------------------------------------------------------------------------
(* The refinement of VersionContract, with delivery as its last stage. *)

\* The stages of the uploads only go forward, one at a time, with what callers were told.
StagesForward ==
  /\ Upload!Present \subseteq Upload!Present'
  /\ HandedOver \subseteq HandedOver'
  /\ HandedOver' \subseteq HandedOver \union Upload!Present
  /\ told \subseteq told'

\* Only a version that was handed over before is delivered, and for good.
DeliversHandedOver ==
  delivered \subseteq delivered' /\ delivered' \subseteq delivered \union HandedOver

LEMMA PublishingDelivers == [PipelineNext]_pipelineVars => DeliversHandedOver
BY DEF PipelineNext, pipelineVars, HandsOver, Accepts, Dispatches, DispatchFails, BeginsPublication,
       Publishes, Upload!Publish, Upload!Move, Completes, Fails, Runs, DeliversHandedOver

LEMMA StagesKept ==
  ASSUME Parts, Parts', DeliveryInv, DeliveryInv', StagesForward, DeliversHandedOver
  PROVE  Version!Keep
PROOF
<1> SUFFICES ASSUME NEW d \in Dispatch
             PROVE  Version!Advance(d) /\ Version!Tell(d)
  BY DEF Version!Keep
<1>1. Version!Advance(d)
  BY DEF Version!Advance, Version!Delivered, Stage, Upload!Stage, StagesForward,
         DeliversHandedOver, DeliveryInv, Parts
<1>2. \A t \in told' : t.session = d => d \in HandedOver'
  BY DEF Parts, Upload!CompletionsReplay, Upload!Replayable
<1>3. Upload!StagesTold(d) \subseteq Upload!StagesTold(d)' /\ Upload!StagesTold(d)' \subseteq {2}
  BY DEF Upload!StagesTold, StagesForward
<1>4. Upload!StagesTold(d)' # {} => Stage(d)' \in {2, 3}
  BY <1>2 DEF Upload!StagesTold, Stage, Upload!Stage
<1>5. Version!Tell(d)
  BY <1>3, <1>4 DEF Version!Tell, Version!Issued
<1> QED
  BY <1>1, <1>5

\* VersionContract over all the tables: through any calls, dispatchers, executions and
\* faults a version advances from its session over its dispatch to its delivery, one stage
\* at a time and never back, and callers are told of no more than there is.
THEOREM PipelineImplementsContract == PipelineSpec => ImplementsVersionContract
PROOF
<1>1. PipelineInit => Version!CInit
  BY PipelineAssumption
     DEF PipelineInit, Init, Upload!Init, Upload!Session, Version!CInit, Version!None, Stage,
         Upload!Stage, Upload!StagesTold, Upload!Present, HandedOver
<1>2. [UP!Forward]_(UP!vars) => StagesForward
  BY DEF UP!Forward, UP!vars, UP!Present, Upload!Present, UP!Session, Upload!Session, StagesForward
<1>3. PipelineSpec => [][UP!Forward]_(UP!vars)
  BY PipelineRunsUploads, SameUploads, UploadTheorems
<1>4. Parts /\ Parts' /\ DeliveryInv /\ DeliveryInv' /\ StagesForward
        /\ [PipelineNext]_pipelineVars
        => [Version!CNext]_(Version!contractVars)
  BY StagesKept, PublishingDelivers DEF Version!CNext
<1> QED
  BY <1>1, <1>2, <1>3, <1>4, PartsInvariant, DeliveryInvariant, PTL
     DEF PipelineSpec, ImplementsVersionContract, Version!CSpec

===============================================================================
