---------------------------- MODULE OperatorControl ----------------------------
(***************************************************************************)
(* Operator control over asset versions: reprocess, quarantine, release    *)
(* and purge, each checked against the lifecycle state, applied to it and  *)
(* to the workflow summary, and written to the audit trail of the version  *)
(* (apps/api/src/operator/operator-service.ts).                            *)
(*                                                                         *)
(* Every method runs to its end without an await, but for reprocess: where *)
(* a source repository is configured and the version has evidence, it      *)
(* checks the state, awaits the restoring of the source, and then writes.  *)
(***************************************************************************)
EXTENDS Naturals, Sequences, FiniteSets

CONSTANTS Version,     \* the versions the store was seeded with
          Call,        \* reprocess calls that may be restoring a source at one time
          Restorable,  \* versions whose source is restored before they are reprocessed
          MaxEvents    \* bound: audit events of one version

ASSUME OperatorAssumption == Restorable \subseteq Version /\ MaxEvents \in Nat

VARIABLES
  life,       \* record.lifecycleState
  workflow,   \* record.workflow: its state, and the event that named it (0: the seed)
  restored,   \* versions with record.sourceRestore
  audit,      \* auditEvents, the oldest first
  restoring   \* what each call restores, and how many events there were when it was admitted

vars == <<life, workflow, restored, audit, restoring>>

Life == {"canonical", "processing", "published", "quarantined", "purged", "failed_retryable"}
Action == {"reprocess", "quarantine", "release", "purge"}
WorkflowState == {"seeded", "queued", "waiting", "cancelled"}
Admission == [version : Restorable, since : Nat]

\* An audit event; since, of a reprocess, is how many there were when it was admitted.
Event == [action : Action, since : Nat]

TypeOK ==
  /\ life \in [Version -> Life]
  /\ workflow \in [Version -> [state : WorkflowState, named : Nat]]
  /\ restored \subseteq Restorable
  /\ audit \in [Version -> Seq(Event)]
  /\ restoring \in [Call -> SUBSET Admission]

\* The store is seeded with versions in any state.
Init ==
  /\ life \in [Version -> Life]
  /\ workflow = [v \in Version |-> [state |-> "seeded", named |-> 0]]
  /\ restored = {}
  /\ audit = [v \in Version |-> <<>>]
  /\ restoring = [c \in Call |-> {}]

-------------------------------------------------------------------------------
\* recordAudit.
RecordAudit(v, action, since) ==
  /\ Len(audit[v]) < MaxEvents
  /\ audit' = [audit EXCEPT ![v] = Append(@, [action |-> action, since |-> since])]

\* A reprocess or a release queues a workflow whose id holds the operation.
Queue(v) ==
  /\ life' = [life EXCEPT ![v] = "processing"]
  /\ workflow' = [workflow EXCEPT ![v] = [state |-> "queued", named |-> Len(audit[v]) + 1]]

Stop_SummaryOnly(v, state, summary) ==
  /\ workflow' = [workflow EXCEPT ![v].state = summary]
  /\ UNCHANGED life

\* A quarantine or a purge keeps the id of the workflow it stops.
Stop(v, state, summary) ==
  /\ life' = [life EXCEPT ![v] = state]
  /\ workflow' = [workflow EXCEPT ![v].state = summary]

Reprocessable_ButPurged(v) == life[v] # "purged"

Reprocessable(v) == life[v] \in {"canonical", "published", "failed_retryable"}

ReprocessNow(v) ==
  /\ v \notin Restorable
  /\ Reprocessable(v)
  /\ Queue(v)
  /\ RecordAudit(v, "reprocess", Len(audit[v]))
  /\ UNCHANGED <<restored, restoring>>

ReprocessAdmitted(c, v) ==
  /\ restoring[c] = {}
  /\ v \in Restorable
  /\ Reprocessable(v)
  /\ restoring' = [restoring EXCEPT ![c] = {[version |-> v, since |-> Len(audit[v])]}]
  /\ UNCHANGED <<life, workflow, restored, audit>>

\* The source is there: whatever became of the version meanwhile, it is reprocessed.
ReprocessRestored(c) ==
  \E r \in restoring[c] :
    /\ restored' = restored \union {r.version}
    /\ Queue(r.version)
    /\ RecordAudit(r.version, "reprocess", r.since)
    /\ restoring' = [restoring EXCEPT ![c] = {}]

\* mkdir or restoreToPath throws, and so does the call.
RestoreFails(c) ==
  /\ restoring[c] # {}
  /\ restoring' = [restoring EXCEPT ![c] = {}]
  /\ UNCHANGED <<life, workflow, restored, audit>>

Quarantine(v) ==
  /\ life[v] \notin {"quarantined", "purged"}
  /\ Stop(v, "quarantined", "waiting")
  /\ RecordAudit(v, "quarantine", 0)
  /\ UNCHANGED <<restored, restoring>>

Release(v) ==
  /\ life[v] = "quarantined"
  /\ Queue(v)
  /\ RecordAudit(v, "release", 0)
  /\ UNCHANGED <<restored, restoring>>

Purge(v) ==
  /\ life[v] # "purged"
  /\ Stop(v, "purged", "cancelled")
  /\ RecordAudit(v, "purge", 0)
  /\ UNCHANGED <<restored, restoring>>

Operate(v) == ReprocessNow(v) \/ Quarantine(v) \/ Release(v) \/ Purge(v)

Next ==
  \/ \E v \in Version : Operate(v)
  \/ \E c \in Call, v \in Version : ReprocessAdmitted(c, v)
  \/ \E c \in Call : ReprocessRestored(c) \/ RestoreFails(c)

Spec == Init /\ [][Next]_vars

-------------------------------------------------------------------------------
\* What an event makes of a version.
Effect(action) ==
  CASE action = "quarantine" -> [life |-> "quarantined", state |-> "waiting"]
    [] action = "purge" -> [life |-> "purged", state |-> "cancelled"]
    [] OTHER -> [life |-> "processing", state |-> "queued"]

LastEvent(v) == audit[v][Len(audit[v])]

Queues(e) == e.action \in {"reprocess", "release"}

\* docs/runbooks/quarantine-and-release.md, "treat quarantine as only a log annotation": the
\* state and the workflow summary of a version are what its last audit event says, and the
\* workflow is the one that the last event that queued one named, however calls overlap.
StateIsAudited ==
  \A v \in Version :
    /\ audit[v] # <<>> =>
         /\ life[v] = Effect(LastEvent(v).action).life
         /\ workflow[v].state = Effect(LastEvent(v).action).state
    /\ workflow[v].named \in {0} \union {i \in 1..Len(audit[v]) : Queues(audit[v][i])}
    /\ \A i \in 1..Len(audit[v]) : Queues(audit[v][i]) => i <= workflow[v].named

\* The event before the i-th, at the time the operation of the i-th was admitted.
SeenBy(v, i) ==
  LET e == audit[v][i]
  IN IF e.action = "reprocess" THEN e.since ELSE i - 1

Stopping(e) == e.action \in {"quarantine", "purge"}

\* docs/runbooks/quarantine-and-release.md:23, "silently clear quarantine state": what undoes
\* a quarantine is an audited release, and what undoes a purge is nothing, unless it is a
\* reprocess admitted before: each event that queues a workflow was admitted when the last
\* event was not a stop, or is the release of the quarantine before it.
TakedownsAreLifted ==
  \A v \in Version : \A i \in 1..Len(audit[v]) :
    Queues(audit[v][i]) /\ SeenBy(v, i) > 0 /\ Stopping(audit[v][SeenBy(v, i)])
      => audit[v][i].action = "release" /\ audit[v][i - 1].action = "quarantine"

\* docs/runbooks/replay-operations.md:27, "bypass quarantine or policy checks": a version
\* leaves quarantine by a release or a purge only.  A reprocess admitted before it does
\* not know of it (reprocessVersion: MCOperatorOverlap).
QuarantineHolds ==
  [][\A v \in Version :
       life[v] = "quarantined" => life'[v] = "quarantined" \/ Release(v) \/ Purge(v)]_vars

===============================================================================
