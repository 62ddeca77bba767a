--------------------------- MODULE WorkflowDispatch ---------------------------
(***************************************************************************)
(* The hand-off from the registry to the workflow engine: the outbox rows  *)
(* of WorkflowDispatch, the dispatchers that drain them                    *)
(* (packages/workflows/src/dispatch-runtime.ts over                        *)
(* packages/registry/src/prisma-workflow-dispatch-store.ts), the engine    *)
(* (Temporal, external) and the WorkflowRun projection that dispatchers    *)
(* and publication workers both write.                                     *)
(*                                                                         *)
(* Every store call is one SQL transaction at READ COMMITTED.  A           *)
(* transaction that reads and then writes is two steps here (the read,     *)
(* then the write and commit), because other transactions commit between   *)
(* the two.  A transaction that throws has no effect.                      *)
(***************************************************************************)
EXTENDS Naturals, FiniteSets

CONSTANTS Dispatch,      \* outbox rows that may be created, numbered in creation order
          Unregistered,  \* rows whose workflowTemplateId the registry cannot resolve
          Dispatcher,    \* processes that call dispatchPending
          BatchSize,     \* the limit of one claim
          MaxToken,      \* bound: a row at this token is not claimed again
          MaxOutages,    \* bound: failed or unanswered calls to the engine
          MaxDbFaults,   \* bound: transactions that fail or whose answer is lost
          MaxCrashes     \* bound: dispatcher processes that die

ASSUME DispatchAssumption ==
  /\ Dispatch \subseteq Nat
  /\ Unregistered \subseteq Dispatch
  /\ {BatchSize, MaxToken, MaxOutages, MaxDbFaults, MaxCrashes} \subseteq Nat

VARIABLES
  row,         \* WorkflowDispatch rows: dispatchState and versionToken
  run,         \* WorkflowRun.state by workflowId; one workflowKey per dispatch row
  exec,        \* the engine's execution of the workflow id, and how far its worker is
  executions,  \* how many executions the engine ever opened for the workflow id
  pc,          \* where each dispatcher is in dispatchPending
  batch,       \* its candidates or claimed rows still to do, with the token it knows
  outcome,     \* what the call to the engine for the first item came to
  seen,        \* WorkflowRun.state as its open transaction read it
  faults       \* how much of each fault bound is used up

vars == <<row, run, exec, executions, pc, batch, outcome, seen, faults>>
rowVars == <<row, run>>
engineVars == <<exec, executions>>
dispatcherVars == <<pc, batch, outcome, seen>>

RowState == {"absent", "pending", "starting", "started", "duplicate",
             "failed_retryable", "failed_terminal"}
RunState == {"none", "queued", "running", "failed", "completed"}
Outcome == {"none", "accepted", "already_started", "retryable", "unknown_template"}
Item == [id : Dispatch, token : Nat]

Claimable_PendingOnly == {"pending"}

Claimable == {"pending", "failed_retryable"}
OpenExecution == {"scheduled", "publishing", "reported"}

TypeOK ==
  /\ row \in [Dispatch -> [state : RowState, token : Nat]]
  /\ run \in [Dispatch -> RunState]
  /\ exec \in [Dispatch -> OpenExecution \union {"none", "closed"}]
  /\ executions \in [Dispatch -> Nat]
  /\ pc \in [Dispatcher -> {"idle", "claiming", "starting", "recording", "committing"}]
  /\ batch \in [Dispatcher -> SUBSET Item]
  /\ outcome \in [Dispatcher -> Outcome]
  /\ seen \in [Dispatcher -> RunState]
  /\ faults \in [{"outage", "db", "crash"} -> Nat]

Init ==
  /\ row = [d \in Dispatch |-> [state |-> "absent", token |-> 1]]
  /\ run = [d \in Dispatch |-> "none"]
  /\ exec = [d \in Dispatch |-> "none"]
  /\ executions = [d \in Dispatch |-> 0]
  /\ pc = [p \in Dispatcher |-> "idle"]
  /\ batch = [p \in Dispatcher |-> {}]
  /\ outcome = [p \in Dispatcher |-> "none"]
  /\ seen = [p \in Dispatcher |-> "none"]
  /\ faults = [f \in {"outage", "db", "crash"} |-> 0]

Fault(kind, bound) ==
  /\ faults[kind] < bound
  /\ faults' = [faults EXCEPT ![kind] = @ + 1]

-------------------------------------------------------------------------------
\* The second transaction of a completed upload inserts the row (see UploadSession).
Enqueue(d) ==
  /\ row[d].state = "absent"
  /\ row' = [row EXCEPT ![d].state = "pending"]
  /\ UNCHANGED <<run, engineVars, dispatcherVars, faults>>

\* findMany: the oldest claimable rows, at most BatchSize of them.
Candidates ==
  LET open == {d \in Dispatch : row[d].state \in Claimable /\ row[d].token < MaxToken}
  IN  {d \in open : Cardinality({e \in open : e <= d}) <= BatchSize}

ClaimRead(p) ==
  /\ pc[p] = "idle"
  /\ Candidates # {}
  /\ pc' = [pc EXCEPT ![p] = "claiming"]
  /\ batch' = [batch EXCEPT ![p] = {[id |-> d, token |-> row[d].token] : d \in Candidates}]
  /\ UNCHANGED <<rowVars, engineVars, outcome, seen, faults>>

\* The compare-and-set on state and versionToken decides what is won.
Won_UpdateById(i) == row[i.id].state # "absent"

Won(i) == row[i.id].state \in Claimable /\ row[i.id].token = i.token

\* updateMany per candidate, committed together.  The updates lock their rows until
\* the commit, and versionToken only grows, so comparing at the commit decides the
\* same rows as comparing at each update.  An empty claim ends dispatchPending.
ClaimCommit(p) ==
  /\ pc[p] = "claiming"
  /\ LET won == {i.id : i \in {j \in batch[p] : Won(j)}} IN
       /\ row' = [d \in Dispatch |->
                    IF d \in won
                    THEN [state |-> "starting", token |-> row[d].token + 1]
                    ELSE row[d]]
       /\ batch' = [batch EXCEPT ![p] = {[id |-> d, token |-> row[d].token + 1] : d \in won}]
       /\ pc' = [pc EXCEPT ![p] = IF won = {} THEN "idle" ELSE "starting"]
  /\ UNCHANGED <<run, engineVars, outcome, seen, faults>>

-------------------------------------------------------------------------------
\* dispatchPending works through what it claimed in creation order.
First(p, i) == i \in batch[p] /\ \A j \in batch[p] : i.id <= j.id

CallReturns(p, i, result) ==
  /\ pc[p] = "starting"
  /\ First(p, i)
  /\ pc' = [pc EXCEPT ![p] = "recording"]
  /\ outcome' = [outcome EXCEPT ![p] = result]
  /\ UNCHANGED <<rowVars, batch, seen>>

ResolveFails(p, i) ==
  /\ i.id \in Unregistered
  /\ CallReturns(p, i, "unknown_template")
  /\ UNCHANGED <<engineVars, faults>>

\* Temporal refuses a workflow id that has an open execution, and by its default
\* reuse policy accepts one whose executions are all closed.
EngineAccepts(d) ==
  /\ exec[d] \notin OpenExecution
  /\ exec' = [exec EXCEPT ![d] = "scheduled"]
  /\ executions' = [executions EXCEPT ![d] = @ + 1]

StartAccepted(p, i) ==
  /\ i.id \notin Unregistered
  /\ EngineAccepts(i.id)
  /\ CallReturns(p, i, "accepted")
  /\ UNCHANGED faults

StartAlreadyOpen(p, i) ==
  /\ i.id \notin Unregistered
  /\ exec[i.id] \in OpenExecution
  /\ CallReturns(p, i, "already_started")
  /\ UNCHANGED <<engineVars, faults>>

\* The call throws: nothing reached the engine, or its answer was lost.
StartFails(p, i) ==
  /\ i.id \notin Unregistered
  /\ Fault("outage", MaxOutages)
  /\ EngineAccepts(i.id) \/ UNCHANGED engineVars
  /\ CallReturns(p, i, "retryable")

-------------------------------------------------------------------------------
\* transitionDispatch checks the token and the state it read.
MayRecord_Unchecked(i) == row[i.id].state # "absent"

MayRecord(i) == row[i.id].token = i.token /\ row[i.id].state = "starting"

BeginRecord_Unchecked(p, i) ==
  /\ pc[p] = "recording"
  /\ First(p, i)
  /\ pc' = [pc EXCEPT ![p] = "committing"]
  /\ seen' = [seen EXCEPT ![p] = run[i.id]]
  /\ UNCHANGED <<rowVars, engineVars, batch, outcome, faults>>

BeginRecord(p, i) ==
  /\ pc[p] = "recording"
  /\ First(p, i)
  /\ MayRecord(i)
  /\ pc' = [pc EXCEPT ![p] = "committing"]
  /\ seen' = [seen EXCEPT ![p] = run[i.id]]
  /\ UNCHANGED <<rowVars, engineVars, batch, outcome, faults>>

\* recordX throws.  recordStarted is inside the try: its error is classified and
\* recorded as a retryable failure.  An error of the catch block leaves the loop, and
\* the rest of the batch with it.
Throw_Uncaught(p) ==
  /\ outcome' = [outcome EXCEPT ![p] = "none"]
  /\ pc' = [pc EXCEPT ![p] = "idle"]
  /\ batch' = [batch EXCEPT ![p] = {}]
  /\ seen' = [seen EXCEPT ![p] = "none"]

Throw(p) ==
  /\ outcome' = [outcome EXCEPT ![p] = IF @ = "accepted" THEN "retryable" ELSE "none"]
  /\ pc' = [pc EXCEPT ![p] = IF outcome[p] = "accepted" THEN "recording" ELSE "idle"]
  /\ batch' = [batch EXCEPT ![p] = IF outcome[p] = "accepted" THEN @ ELSE {}]
  /\ seen' = [seen EXCEPT ![p] = "none"]

RecordConflict(p, i) ==
  /\ pc[p] = "recording"
  /\ First(p, i)
  /\ ~MayRecord(i)
  /\ Throw(p)
  /\ UNCHANGED <<rowVars, engineVars, faults>>

Target_ErrorsIgnored(result) ==
  CASE result = "unknown_template" -> "failed_terminal"
    [] result = "already_started" -> "duplicate"
    [] OTHER -> "started"

Target(result) ==
  CASE result = "accepted" -> "started"
    [] result = "already_started" -> "duplicate"
    [] result = "unknown_template" -> "failed_terminal"
    [] OTHER -> "failed_retryable"

\* recordStarted keeps the projected state it read unless that was queued;
\* recordDuplicate writes running whatever the row says.
RunAfterRecord_PhaseAsState(p, d) ==
  CASE outcome[p] = "accepted" -> "accepted"
    [] outcome[p] = "already_started" -> "running"
    [] OTHER -> run[d]

RunAfterRecord(p, d) ==
  CASE outcome[p] = "accepted" -> IF seen[p] = "none" THEN "queued" ELSE seen[p]
    [] outcome[p] = "already_started" -> "running"
    [] OTHER -> run[d]

\* recordStarted read no run and a worker has created it since: the insert breaks
\* the unique workflowId and the transaction is rolled back.
InsertsExistingRun(p, i) ==
  outcome[p] = "accepted" /\ seen[p] = "none" /\ run[i.id] # "none"

\* The update names the row by id alone.
WriteRecord_TokenKept(p, i) ==
  /\ pc[p] = "committing"
  /\ First(p, i)
  /\ ~InsertsExistingRun(p, i)
  /\ row' = [row EXCEPT ![i.id].state = Target(outcome[p])]
  /\ run' = [run EXCEPT ![i.id] = RunAfterRecord(p, i.id)]
  /\ UNCHANGED engineVars

WriteRecord(p, i) ==
  /\ pc[p] = "committing"
  /\ First(p, i)
  /\ ~InsertsExistingRun(p, i)
  /\ row' = [row EXCEPT ![i.id] = [state |-> Target(outcome[p]), token |-> @.token + 1]]
  /\ run' = [run EXCEPT ![i.id] = RunAfterRecord(p, i.id)]
  /\ UNCHANGED engineVars

CommitRecord(p, i) ==
  /\ WriteRecord(p, i)
  /\ batch' = [batch EXCEPT ![p] = @ \ {i}]
  /\ pc' = [pc EXCEPT ![p] = IF batch[p] = {i} THEN "idle" ELSE "starting"]
  /\ outcome' = [outcome EXCEPT ![p] = "none"]
  /\ seen' = [seen EXCEPT ![p] = "none"]
  /\ UNCHANGED faults

RecordLosesRace(p, i) ==
  /\ pc[p] = "committing"
  /\ First(p, i)
  /\ InsertsExistingRun(p, i)
  /\ Throw(p)
  /\ UNCHANGED <<rowVars, engineVars, faults>>

\* The database fails the transaction, or commits it and the answer is lost.
RecordAborts(p, i) ==
  /\ pc[p] \in {"recording", "committing"}
  /\ First(p, i)
  /\ Fault("db", MaxDbFaults)
  /\ Throw(p)
  /\ UNCHANGED <<rowVars, engineVars>>

CommitUnacknowledged(p, i) ==
  /\ WriteRecord(p, i)
  /\ Fault("db", MaxDbFaults)
  /\ Throw(p)

\* Nothing reclaims what a dead dispatcher had claimed.
Crash(p) ==
  /\ pc[p] # "idle"
  /\ Fault("crash", MaxCrashes)
  /\ pc' = [pc EXCEPT ![p] = "idle"]
  /\ batch' = [batch EXCEPT ![p] = {}]
  /\ outcome' = [outcome EXCEPT ![p] = "none"]
  /\ seen' = [seen EXCEPT ![p] = "none"]
  /\ UNCHANGED <<rowVars, engineVars>>

-------------------------------------------------------------------------------
\* The execution the engine opened: WorkerPublicationRuntime.executeWorkflow projects
\* its progress on the same WorkflowRun row.
WorkerStep(d, from, to, projected) ==
  /\ exec[d] = from
  /\ exec' = [exec EXCEPT ![d] = to]
  /\ run' = [run EXCEPT ![d] = projected]
  /\ UNCHANGED <<row, executions, dispatcherVars, faults>>

MarkRunning(d) == WorkerStep(d, "scheduled", "publishing", "running")

MarkCompleted(d) == WorkerStep(d, "publishing", "reported", "completed")

MarkFailedRetryable(d) == WorkerStep(d, "publishing", "reported", "failed")

\* The engine closes the execution some time after its worker reported.
CloseExecution(d) == WorkerStep(d, "reported", "closed", run[d])

\* A worker whose own registry write fails ends without reporting.
WorkerLost(d) ==
  /\ exec[d] \in {"scheduled", "publishing"}
  /\ Fault("db", MaxDbFaults)
  /\ exec' = [exec EXCEPT ![d] = "closed"]
  /\ UNCHANGED <<rowVars, executions, dispatcherVars>>

-------------------------------------------------------------------------------
ItemStep(p, i) ==
  \/ ResolveFails(p, i)
  \/ StartAccepted(p, i)
  \/ StartAlreadyOpen(p, i)
  \/ BeginRecord(p, i)
  \/ RecordConflict(p, i)
  \/ CommitRecord(p, i)
  \/ RecordLosesRace(p, i)

ItemFault(p, i) ==
  \/ StartFails(p, i)
  \/ RecordAborts(p, i)
  \/ CommitUnacknowledged(p, i)

DispatcherStep(p) ==
  \/ ClaimRead(p)
  \/ ClaimCommit(p)
  \/ \E i \in batch[p] : ItemStep(p, i)

Worker(d) ==
  \/ MarkRunning(d)
  \/ MarkCompleted(d)
  \/ MarkFailedRetryable(d)
  \/ CloseExecution(d)

Next ==
  \/ \E d \in Dispatch : Enqueue(d) \/ Worker(d) \/ WorkerLost(d)
  \/ \E p \in Dispatcher :
       \/ DispatcherStep(p)
       \/ \E i \in batch[p] : ItemFault(p, i)
       \/ Crash(p)

Spec == Init /\ [][Next]_vars

\* Pollers keep calling dispatchPending and a call that is under way goes on; the
\* engine keeps running what it accepted.
FairSpec ==
  /\ Spec
  /\ \A p \in Dispatcher : WF_vars(DispatcherStep(p))
  /\ \A d \in Dispatch : WF_vars(Worker(d))

-------------------------------------------------------------------------------
Held(p) == pc[p] \notin {"idle", "claiming"}

\* The item whose record went through unanswered; its dispatcher does not know yet.
Outdated(p, i) == pc[p] = "recording" /\ i.token < row[i.id].token

\* A row is worked on by one dispatcher at a time: updateMany's compare-and-set gives
\* each claim to one caller, and a second dispatcher gets the row only after the first
\* one's record was committed (claimPendingDispatches, transitionDispatch).
ExclusiveClaim ==
  \A p, q \in Dispatcher :
    p # q /\ Held(p) /\ Held(q) =>
      \A i \in batch[p], j \in batch[q] :
        i.id = j.id => Outdated(p, i) \/ Outdated(q, j)

\* transitionDispatch checks token and state in one statement and updates by id alone
\* in a later one; nobody moves the row in between.
CommitUnderClaim ==
  \A p \in Dispatcher :
    pc[p] = "committing" => \A i \in batch[p] : First(p, i) => MayRecord(i)

\* What the row finally says is what happened: started and duplicate mean the engine
\* accepted the workflow id, failed_terminal means it was never asked.
RecordedTruthfully ==
  \A d \in Dispatch :
    /\ row[d].state \in {"started", "duplicate"} => executions[d] > 0
    /\ row[d].state = "failed_terminal" => d \in Unregistered /\ executions[d] = 0

\* Each claim opens at most one execution: a second execution of a workflow id takes
\* a recorded failure and a new claim (a claim and its record move the token by two).
OneExecutionPerClaim == \A d \in Dispatch : 2 * executions[d] <= row[d].token

\* The table of docs/state-machines.md section 4, with the token of every move: a
\* stale or repeated record never moves a row that was settled or claimed again.
AllowedMoves ==
  {<<"absent", "pending">>}
    \union ({"pending", "failed_retryable"} \X {"starting"})
    \union ({"starting"} \X {"started", "duplicate", "failed_retryable", "failed_terminal"})

MovesAllowed ==
  \A d \in Dispatch :
    row'[d] # row[d] =>
      /\ <<row[d].state, row'[d].state>> \in AllowedMoves
      /\ row'[d].token = IF row[d].state = "absent" THEN 1 ELSE row[d].token + 1

TransitionsAsDocumented == [][MovesAllowed]_vars

\* The outbox contract, for the lifecycle of the rows and what the engine accepted.
Contract == INSTANCE DispatchContract WITH
  state <- [d \in Dispatch |-> row[d].state],
  accepted <- {d \in Dispatch : executions[d] > 0}

ImplementsContract == Contract!CSpec

\* A dispatch intent is eventually settled while dispatchers and database stay up,
\* whatever calls to the engine fail or lose their answer (dispatchPending retries).
Settled(d) == row[d].state \in {"started", "duplicate", "failed_terminal"}

Up == faults["db"] = 0 /\ faults["crash"] = 0

IntentSettlesWhileUp == \A d \in Dispatch : row[d].state = "pending" ~> Settled(d) \/ ~Up

\* docs/idempotency-and-dispatch.md section 5 promises it whoever dies.
IntentSettles == \A d \in Dispatch : row[d].state = "pending" ~> Settled(d)

\* docs/state-machines.md section 4: a starting row is one a dispatcher is attempting,
\* through every conflict and race of recordX, until a dispatcher dies or a transaction
\* fails (nothing claims it again: MCDispatchCrash).
Attempted(d) == \E p \in Dispatcher : Held(p) /\ \E i \in batch[p] : i.id = d

StrandedByFaultOnly ==
  (\E d \in Dispatch : row[d].state = "starting" /\ ~Attempted(d)) => ~Up

\* docs/state-machines.md:17, transitions are monotonic: once an execution has reported
\* its completion, its run stays completed until another execution begins.  A record of a
\* dispatcher that read the run before writes it back to running (recordStarted,
\* recordDuplicate: MCDispatchProjection).
CompletedRunStays ==
  [][\A d \in Dispatch :
       run[d] = "completed" /\ exec[d] \in {"reported", "closed"} => run'[d] = "completed"]_vars

-------------------------------------------------------------------------------
\* The inductive invariant behind ExclusiveClaim, CommitUnderClaim, RecordedTruthfully,
\* OneExecutionPerClaim and the two step properties, part by part.

\* A dispatcher only knows rows that exist, by a token they have reached, each once.
ItemsKnown ==
  /\ \A d \in Dispatch : row[d].state = "absent" => row[d].token = 1
  /\ \A p \in Dispatcher : \A i \in batch[p] :
       row[i.id].state # "absent" /\ i.token <= row[i.id].token
  /\ \A p \in Dispatcher : \A i, j \in batch[p] : i.id = j.id => i = j

\* What it holds it may record, but for an item whose unanswered record went through.
HeldIsCurrent ==
  \A p \in Dispatcher : Held(p) => \A i \in batch[p] :
    MayRecord(i) \/ (Outdated(p, i) /\ First(p, i) /\ outcome[p] = "retryable")

TokensDiffer ==
  \A p, q \in Dispatcher : p # q /\ Held(p) /\ Held(q) =>
    \A i \in batch[p], j \in batch[q] : i.id = j.id => i.token # j.token

\* What a dispatcher is about to record is true of the engine.
OutcomeTruthful ==
  /\ \A d \in Unregistered : executions[d] = 0
  /\ \A d \in Dispatch : exec[d] \in OpenExecution => executions[d] > 0
  /\ \A p \in Dispatcher : pc[p] \in {"recording", "committing"} =>
       \A i \in batch[p] : First(p, i) =>
         /\ outcome[p] \in {"accepted", "already_started"} => executions[i.id] > 0
         /\ outcome[p] = "unknown_template" => i.id \in Unregistered

\* A claim that has not reached the engine leaves room for one more execution.
ExecutionsBudgeted ==
  /\ \A d \in Dispatch : row[d].state # "starting" => 2 * executions[d] < row[d].token
  /\ \A p \in Dispatcher : Held(p) => \A i \in batch[p] :
       MayRecord(i) /\ (pc[p] = "starting" \/ ~First(p, i))
         => 2 * executions[i.id] + 2 <= row[i.id].token

ClaimInv ==
  /\ ItemsKnown
  /\ HeldIsCurrent
  /\ TokensDiffer
  /\ OutcomeTruthful
  /\ RecordedTruthfully
  /\ OneExecutionPerClaim
  /\ ExecutionsBudgeted

===============================================================================
