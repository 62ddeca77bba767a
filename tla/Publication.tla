------------------------------ MODULE Publication ------------------------------
(***************************************************************************)
(* The executions of publication workflows on one asset version: the       *)
(* worker runtime (apps/workers/src/publication-worker-runtime.ts), the    *)
(* generic, image and presentation publication workflows                   *)
(* (packages/workflows/src), their Prisma stores and the derived object    *)
(* store.                                                                  *)
(*                                                                         *)
(* The three workflows differ in what they derive and have one control:    *)
(* begin, put every derivative and then the manifest in the object store,  *)
(* then publish the rows, for one delivery scope after another.            *)
(* Executions overlap: a version may have several workflow ids, and an     *)
(* execution the engine gave up on may still be running.                   *)
(***************************************************************************)
EXTENDS Naturals, FiniteSets

CONSTANTS Execution,   \* executions of publication workflows for the version
          Scope,       \* delivery scopes, in the order of listPublicationTargets
          Variant,     \* the derivatives the workflow's recipes make
          Nothing,
          MaxOverlap,            \* bound: executions that run at the same time
          MaxProcessorFailures,  \* bound: processor or object store calls that fail
          MaxDbFaults,           \* bound: transactions that fail or lose their answer
          MaxCrashes             \* bound: workers that die

ASSUME PublicationAssumption ==
  /\ Scope \subseteq Nat
  /\ Nothing \notin Execution \X Scope
  /\ {MaxOverlap, MaxProcessorFailures, MaxDbFaults, MaxCrashes} \subseteq Nat

VARIABLES
  targets,     \* the delivery scopes of the version's namespace and tenant
  ver,         \* AssetVersion.lifecycleState
  derivative,  \* Derivative rows: the scopes that have the variant
  manifest,    \* AssetManifest rows: whose manifest body the scope's checksum is of
  object,      \* derivatives in the derived object store, by deterministic key
  body,        \* whose manifest body is in the object store, by its key
  pc,          \* where each execution is
  todo,        \* the scopes it has left to publish
  written,     \* the derivatives it has put for the scope it is at
  faults       \* how much of each fault bound is used up

vars == <<targets, ver, derivative, manifest, object, body, pc, todo, written, faults>>
rowVars == <<ver, derivative, manifest>>
objectVars == <<object, body>>
progressVars == <<todo, written>>

Body == Execution \X Scope

VersionState == {"canonicalizing", "canonical", "processing", "published",
                 "failed_validation", "failed_retryable"}

TypeOK ==
  /\ targets \subseteq Scope
  /\ ver \in VersionState
  /\ derivative \in [Variant -> SUBSET Scope]
  /\ manifest \in [Scope -> Body \union {Nothing}]
  /\ object \subseteq Variant
  /\ body \in Body \union {Nothing}
  /\ pc \in [Execution -> {"idle", "listing", "begin", "begin_write", "writing", "publish",
                           "publish_write", "completing", "failing", "completed", "failed"}]
  /\ todo \in [Execution -> SUBSET Scope]
  /\ written \in [Execution -> SUBSET Variant]
  /\ faults \in [{"processor", "db", "crash"} -> Nat]

Init ==
  /\ targets \in SUBSET Scope
  /\ ver = "canonical"
  /\ derivative = [v \in Variant |-> {}]
  /\ manifest = [s \in Scope |-> Nothing]
  /\ object = {}
  /\ body = Nothing
  /\ pc = [e \in Execution |-> "idle"]
  /\ todo = [e \in Execution |-> {}]
  /\ written = [e \in Execution |-> {}]
  /\ faults = [f \in {"processor", "db", "crash"} |-> 0]

Fault(kind, bound) ==
  /\ faults[kind] < bound
  /\ faults' = [faults EXCEPT ![kind] = @ + 1]

Goto(e, from, to) ==
  /\ pc[e] = from
  /\ pc' = [pc EXCEPT ![e] = to]

\* The targets are worked through in order.
Current(e, s) == s \in todo[e] /\ \A t \in todo[e] : s <= t

-------------------------------------------------------------------------------
Running == {e \in Execution : pc[e] \notin {"idle", "completed", "failed"}}

\* executeWorkflow: markRunning projects the run and leaves the version alone.
Execute(e) ==
  /\ Cardinality(Running) < MaxOverlap
  /\ Goto(e, "idle", "listing")
  /\ UNCHANGED <<rowVars, objectVars, progressVars, faults>>

\* Without a publication target the execution fails.
ListTargets(e) ==
  /\ Goto(e, "listing", IF targets = {} THEN "failing" ELSE "begin")
  /\ todo' = [todo EXCEPT ![e] = targets]
  /\ UNCHANGED <<rowVars, objectVars, written, faults>>

\* beginXPublication: a read, and an update unless it read processing.
Beginnable == {"canonical", "processing", "published"}

BeginRead(e) ==
  /\ Goto(e, "begin", CASE ver = "processing" -> "writing"
                        [] ver \in Beginnable \ {"processing"} -> "begin_write"
                        [] OTHER -> "failing")
  /\ written' = [written EXCEPT ![e] = {}]
  /\ UNCHANGED <<rowVars, objectVars, todo, faults>>

BeginWrite(e) ==
  /\ Goto(e, "begin_write", "writing")
  /\ ver' = "processing"
  /\ UNCHANGED <<derivative, manifest, objectVars, progressVars, faults>>

\* publishObject, for a derivative as the processor returns it and for the manifest
\* when all are there.  The object keys name the version and the variant or manifest
\* type, not the scope; a manifest body carries the time it was generated.
PutDerivative(e, v) ==
  /\ pc[e] = "writing"
  /\ v \notin written[e]
  /\ object' = object \union {v}
  /\ written' = [written EXCEPT ![e] = @ \union {v}]
  /\ UNCHANGED <<rowVars, body, pc, todo, faults>>

PutManifest_AnyTime(e, s) ==
  /\ Current(e, s)
  /\ Goto(e, "writing", "publish")
  /\ body' = <<e, s>>
  /\ UNCHANGED <<rowVars, object, progressVars, faults>>

PutManifest(e, s) ==
  /\ Current(e, s)
  /\ written[e] = Variant
  /\ Goto(e, "writing", "publish")
  /\ body' = <<e, s>>
  /\ UNCHANGED <<rowVars, object, progressVars, faults>>

PublishRead(e) ==
  /\ Goto(e, "publish", IF ver \in {"processing", "published"} THEN "publish_write" ELSE "failing")
  /\ UNCHANGED <<rowVars, objectVars, progressVars, faults>>

\* The unique index on Derivative.deterministicKey: the upsert by scope inserts, and
\* another scope has the key.
KeysFree(s) == \A v \in Variant : derivative[v] \subseteq {s}

PublishRows_ManifestOnly(e, s) ==
  /\ pc[e] = "publish_write" /\ Current(e, s)
  /\ KeysFree(s)
  /\ manifest' = [manifest EXCEPT ![s] = <<e, s>>]
  /\ ver' = "published"
  /\ UNCHANGED <<derivative, objectVars>>

PublishRows(e, s) ==
  /\ pc[e] = "publish_write" /\ Current(e, s)
  /\ KeysFree(s)
  /\ derivative' = [v \in Variant |-> derivative[v] \union {s}]
  /\ manifest' = [manifest EXCEPT ![s] = <<e, s>>]
  /\ ver' = "published"
  /\ UNCHANGED objectVars

PublishCommit(e, s) ==
  /\ PublishRows(e, s)
  /\ todo' = [todo EXCEPT ![e] = @ \ {s}]
  /\ pc' = [pc EXCEPT ![e] = IF todo[e] = {s} THEN "completing" ELSE "begin"]
  /\ UNCHANGED <<written, faults>>

PublishConflict(e, s) ==
  /\ Current(e, s)
  /\ ~KeysFree(s)
  /\ Goto(e, "publish_write", "failing")
  /\ UNCHANGED <<rowVars, objectVars, progressVars, faults>>

\* markCompleted projects the run; markFailedRetryable also moves the version,
\* whatever its state.
MarkCompleted(e) ==
  /\ Goto(e, "completing", "completed")
  /\ UNCHANGED <<rowVars, objectVars, progressVars, faults>>

MarkFailedRetryable_RunOnly(e) ==
  /\ Goto(e, "failing", "failed")
  /\ UNCHANGED <<rowVars, objectVars, progressVars, faults>>

MarkFailedRetryable(e) ==
  /\ Goto(e, "failing", "failed")
  /\ ver' = "failed_retryable"
  /\ UNCHANGED <<derivative, manifest, objectVars, progressVars, faults>>

-------------------------------------------------------------------------------
ProcessorFails(e) ==
  /\ Goto(e, "writing", "failing")
  /\ Fault("processor", MaxProcessorFailures)
  /\ UNCHANGED <<rowVars, objectVars, progressVars>>

\* A transaction fails, or it commits and the answer is lost.
DbFails(e) ==
  /\ Fault("db", MaxDbFaults)
  /\ \/ /\ \E from \in {"listing", "begin", "begin_write", "publish", "publish_write",
                        "completing"} : Goto(e, from, "failing")
        /\ UNCHANGED <<rowVars, objectVars>>
     \/ /\ Goto(e, "begin_write", "failing")
        /\ ver' = "processing"
        /\ UNCHANGED <<derivative, manifest, objectVars>>
     \/ /\ Goto(e, "publish_write", "failing")
        /\ \E s \in Scope : PublishRows(e, s)
     \/ /\ Goto(e, "idle", "failed") \/ Goto(e, "failing", "failed")
        /\ UNCHANGED <<rowVars, objectVars>>
  /\ UNCHANGED progressVars

Crash(e) ==
  /\ e \in Running
  /\ Fault("crash", MaxCrashes)
  /\ pc' = [pc EXCEPT ![e] = "failed"]
  /\ UNCHANGED <<rowVars, objectVars, progressVars>>

-------------------------------------------------------------------------------
\* A completion that overlapped the one that handed the version over writes its state by
\* id, whatever publication has made of it since (see UploadSession).
CompletionWrites ==
  /\ ver' \in VersionState \ {"processing", "published"}
  /\ UNCHANGED <<targets, derivative, manifest, objectVars, pc, progressVars, faults>>

-------------------------------------------------------------------------------
Step(e) ==
  /\ UNCHANGED targets
  /\ \/ Execute(e)
     \/ ListTargets(e)
     \/ BeginRead(e)
     \/ BeginWrite(e)
     \/ \E v \in Variant : PutDerivative(e, v)
     \/ \E s \in Scope : PutManifest(e, s) \/ PublishCommit(e, s) \/ PublishConflict(e, s)
     \/ PublishRead(e)
     \/ MarkCompleted(e)
     \/ MarkFailedRetryable(e)

Fails(e) == UNCHANGED targets /\ (ProcessorFails(e) \/ DbFails(e) \/ Crash(e))

Next == CompletionWrites \/ \E e \in Execution : Step(e) \/ Fails(e)

Spec == Init /\ [][Next]_vars

\* The engine runs every execution and keeps running it until it ends.
FairSpec == Spec /\ \A e \in Execution : WF_vars(Step(e))

-------------------------------------------------------------------------------
\* docs/state-machines.md section 7: a version does not become published before the
\* manifest and the whole derivative set of a scope are there, as rows and as objects,
\* whatever executions overlap, fail or die.
Durable(s) ==
  /\ manifest[s] # Nothing
  /\ body # Nothing
  /\ \A v \in Variant : s \in derivative[v] /\ v \in object

PublishedIsDurable == ver = "published" => \E s \in Scope : Durable(s)

\* Rows never run ahead of the objects they name, and a scope's rows are published
\* together (the objects are put first; publishXVersion is one transaction).
RowsFollowObjects ==
  \A s \in Scope :
    \/ Durable(s)
    \/ manifest[s] = Nothing /\ \A v \in Variant : s \notin derivative[v]

\* What is behind it: an execution that comes to publish has put everything.
ObjectsPut ==
  \A e \in Execution :
    /\ written[e] \subseteq object
    /\ pc[e] \in {"publish", "publish_write"} => written[e] = Variant /\ body # Nothing

PublicationInv == PublishedIsDurable /\ RowsFollowObjects /\ ObjectsPut

\* A version a worker took into processing is left published or failed_retryable, while
\* its workers and its database stay up.
Up == faults["db"] = 0 /\ faults["crash"] = 0

ProcessingEnds == ver = "processing" ~> ver # "processing" \/ ~Up

\* Why it is left, whoever overlaps: no execution ends, fails or publishes in a way that
\* leaves a version in processing to nobody (beginXPublication, publishXVersion,
\* markFailedRetryable).
Attends(e) == pc[e] \in {"writing", "publish", "publish_write", "failing"}

ProcessingIsAttended == ver = "processing" /\ Up => \E e \in Execution : Attends(e)

\* docs/persistence-model.md:149, a manifest per delivery scope: an execution that comes
\* to write the rows of a scope writes them.  Of a second scope it cannot (KeysFree:
\* MCPublicationScopes).
EveryScopePublished ==
  \A e \in Execution, s \in Scope :
    pc[e] = "publish_write" /\ Current(e, s) ~> manifest[s] # Nothing \/ ~Up

\* docs/conformance.md:35, manifest integrity: of a published version the checksum a
\* manifest row holds is that of the manifest object it names.  It is so when executions
\* of a version run one after another, and not when they overlap.
ManifestMatchesObject ==
  ver = "published" => \A s \in Scope : manifest[s] \in {Nothing, body}

===============================================================================
