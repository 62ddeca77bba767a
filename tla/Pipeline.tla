-------------------------------- MODULE Pipeline --------------------------------
(***************************************************************************)
(* From an upload to its delivery: WorkflowDispatch together with          *)
(* UploadSession over the tables they share.                               *)
(*                                                                         *)
(* The second transaction of a completed upload inserts the row that the   *)
(* dispatchers claim; a worker runs what the engine opened for that row,   *)
(* moves the version, and reports a failure to the version and to the run  *)
(* in one transaction.  The environment of either module is the other one  *)
(* here.  Every version has one dispatch row, since its workflowKey is     *)
(* made of its ids and its template; the row has the version's number.     *)
(***************************************************************************)
EXTENDS WorkflowDispatch

CONSTANTS
  MaxVersions, Client, Key, Hash, Source, NoSource, SnapshotOf,
  MaxRepositoryFailures, MaxWorkflowFailures,
  MaxApiDbFaults,  \* bound: transactions of the API that fail or lose their answer
  MaxApiCrashes    \* bound: API processes that die during a call

VARIABLES
  sess, ver, source, current, late, issued, completed, told,  \* tables of the uploads
  call, req, taken, answer, apiFaults,                         \* calls of the API
  delivered    \* versions whose derivative and manifest rows are published

uploadVars == <<sess, ver, source, current, late, issued, completed, told,
                call, req, taken, answer, apiFaults>>
pipelineVars == <<vars, uploadVars, delivered>>

\* The versions with a row are those that were handed over.
HandedOver == {d \in Dispatch : row[d].state # "absent"}

Upload == INSTANCE UploadSession WITH
  dispatched <- HandedOver, pc <- call, faults <- apiFaults,
  MaxDbFaults <- MaxApiDbFaults, MaxCrashes <- MaxApiCrashes

ASSUME PipelineAssumption ==
  /\ MaxVersions \in Nat
  /\ Dispatch = 1..MaxVersions
  /\ NoSource \notin Source
  /\ SnapshotOf \in [Dispatch -> SUBSET Source]
  /\ {MaxRepositoryFailures, MaxWorkflowFailures, MaxApiDbFaults, MaxApiCrashes} \subseteq Nat

PipelineInit == Init /\ Upload!Init /\ delivered = {}

-------------------------------------------------------------------------------
ApiStep ==
  \/ \E p \in Client :
       \/ Upload!CallBegins(p)
       \/ \E r \in req[p] : Upload!CallGoesOn(p, r) \/ Upload!CallFails(p, r)
  \/ \E d \in Dispatch : Upload!Expire(d)

\* The second transaction finds no WorkflowDispatch row of its workflowKey and creates it.
HandsOver == (\E d \in Dispatch : Enqueue(d)) /\ ApiStep /\ UNCHANGED delivered

Accepts == UNCHANGED vars /\ ApiStep /\ UNCHANGED delivered

\* dispatchPending, with what it calls.
Dispatches(p) ==
  /\ DispatcherStep(p)
  /\ UNCHANGED <<uploadVars, delivered>>

DispatchFails(p) ==
  /\ (\E i \in batch[p] : ItemFault(p, i)) \/ Crash(p)
  /\ UNCHANGED <<uploadVars, delivered>>

\* A worker has begun an execution.  One that the engine gave up on may go on writing.
Begun_HandedOver(d) == row[d].state # "absent"

Begun(d) == executions[d] > 1 \/ exec[d] \notin {"none", "scheduled"}

BeginsPublication(d) ==
  /\ Begun(d)
  /\ UNCHANGED <<vars, delivered>>
  /\ Upload!BeginPublication(d)

\* publishXVersion: the rows and published in one transaction (see Publication).
Publishes(d) ==
  /\ Begun(d)
  /\ UNCHANGED vars
  /\ Upload!Publish(d)
  /\ delivered' = delivered \union {d}

\* executeWorkflow reports completed when every target has been published.
Completes(d) ==
  /\ d \in delivered
  /\ MarkCompleted(d)
  /\ UNCHANGED <<uploadVars, delivered>>

\* markFailedRetryable writes the version and the run in one transaction.
Fails(d) ==
  /\ MarkFailedRetryable(d)
  /\ Upload!PublicationFails(d)
  /\ UNCHANGED delivered

Runs(d) ==
  /\ MarkRunning(d) \/ CloseExecution(d) \/ WorkerLost(d)
  /\ UNCHANGED <<uploadVars, delivered>>

PipelineNext ==
  \/ HandsOver
  \/ Accepts
  \/ \E p \in Dispatcher : Dispatches(p) \/ DispatchFails(p)
  \/ \E d \in Dispatch :
       BeginsPublication(d) \/ Publishes(d) \/ Completes(d) \/ Fails(d) \/ Runs(d)

PipelineSpec == PipelineInit /\ [][PipelineNext]_pipelineVars

\* Pollers keep calling dispatchPending, and a call that is under way goes on.
PipelineFairSpec ==
  PipelineSpec /\ \A p \in Dispatcher : WF_pipelineVars(Dispatches(p))

-------------------------------------------------------------------------------
\* docs/idempotency-and-dispatch.md section 5, across the tables: a version is only taken
\* into processing or delivered with its source durable and its workflow accepted by the
\* engine; published and a completed run mean delivered, though the run that a record
\* writes may be an old one.
DeliveryIsGrounded ==
  \A d \in Dispatch :
    /\ d \in delivered \/ ver[d] = "processing" => source[d] # NoSource /\ executions[d] > 0
    /\ ver[d] = "published" \/ run[d] = "completed" => d \in delivered

\* The same section, "not best effort": a completion that a caller was told of has a
\* dispatch row which can be claimed, is attempted, or has its true outcome, whatever
\* calls overlap, retry or die, until a dispatcher dies or one of its transactions fails.
Reached(d) ==
  \/ row[d].state \in Claimable
  \/ Attempted(d)
  \/ row[d].state = "failed_terminal" /\ d \in Unregistered
  \/ row[d].state \in {"started", "duplicate"} /\ executions[d] > 0

ToldIsOnItsWay == Up => \A t \in told : Reached(t.session)

\* And its workflow is executed, whatever calls to the engine fail.
ToldIsExecuted ==
  \A d \in Dispatch \ Unregistered :
    (\E t \in told : t.session = d) ~> executions[d] > 0 \/ ~Up

\* The whole promise of VersionContract, with delivery as its last stage.
Stage(d) == IF d \in delivered THEN 3 ELSE Upload!Stage(d)

Version == INSTANCE VersionContract WITH
  Version <- Dispatch,
  stage <- [d \in Dispatch |-> Stage(d)],
  told <- [d \in Dispatch |-> Upload!StagesTold(d)],
  intact <- TRUE

ImplementsVersionContract == Version!CSpec

-------------------------------------------------------------------------------
\* The inductive invariant behind DeliveryIsGrounded: what was delivered or is processed was
\* handed over and opened, also by an execution that is over, and completed is only
\* recorded of what was delivered, also by a dispatcher that read it before.
DeliveryInv ==
  /\ DeliveryIsGrounded
  /\ delivered \subseteq HandedOver
  /\ \A d \in Dispatch : exec[d] # "none" => executions[d] > 0
  /\ \A p \in Dispatcher : pc[p] = "committing" /\ seen[p] = "completed" =>
       \A i \in batch[p] : First(p, i) => i.id \in delivered

===============================================================================
