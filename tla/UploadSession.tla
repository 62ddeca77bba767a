----------------------------- MODULE UploadSession -----------------------------
(***************************************************************************)
(* Upload sessions of one asset: issuing a session with its version, and   *)
(* completing it, which canonicalizes the staged bytes and leaves a        *)
(* workflow dispatch behind                                                *)
(* (packages/registry/src/prisma-upload-session-store.ts, called by        *)
(* apps/api/src/public/upload-session-routes.ts).                          *)
(*                                                                         *)
(* completeUploadSession is a lookup, a first transaction, a snapshot by   *)
(* the source repository outside any transaction, a second transaction and *)
(* a catch block.  A transaction is one step, or a read step and a write   *)
(* step where others may commit in between.                                *)
(***************************************************************************)
EXTENDS Naturals, FiniteSets

CONSTANTS MaxVersions,   \* bound: versions, each with its session, that the asset gets
          Client,        \* concurrent calls of the API
          Key,           \* idempotency keys
          Hash,          \* normalized request hashes
          Source,        \* canonicalSourceIds
          NoSource,
          SnapshotOf,    \* the ids the repository may give the bytes of a version
          MaxRepositoryFailures,  \* bound: snapshots that fail
          MaxWorkflowFailures,    \* bound: publication workflows that fail
          MaxDbFaults,            \* bound: transactions that fail or lose their answer
          MaxCrashes              \* bound: API processes that die during a call

Session == 1..MaxVersions

ASSUME UploadAssumption ==
  /\ MaxVersions \in Nat
  /\ NoSource \notin Source
  /\ SnapshotOf \in [Session -> SUBSET Source]
  /\ {MaxRepositoryFailures, MaxWorkflowFailures, MaxDbFaults, MaxCrashes} \subseteq Nat

VARIABLES
  sess,        \* UploadSession.state, by the number of its version
  ver,         \* AssetVersion.lifecycleState
  source,      \* AssetVersion.canonicalSourceId
  current,     \* Asset.currentCanonicalVersionId
  dispatched,  \* versions with a WorkflowDispatch row
  late,        \* sessions whose expiresAt has passed
  issued,      \* IdempotencyRecord rows of session creation
  completed,   \* IdempotencyRecord rows of completion
  told,        \* the successful completions callers have been told of
  pc,          \* where each call is
  req,         \* the request it is working on
  taken,       \* the canonicalSourceId its snapshot came back with
  answer,      \* how the last call ended
  faults       \* how much of each fault bound is used up

vars == <<sess, ver, source, current, dispatched, late, issued, completed, told,
          pc, req, taken, answer, faults>>
assetVars == <<sess, ver, source, current, dispatched>>
recordVars == <<issued, completed, told>>
callVars == <<pc, req, taken, answer>>

SessionState == {"absent", "session_created", "uploaded", "failed_validation"}
VersionState == {"absent", "session_created", "canonicalizing", "canonical", "processing",
                 "published", "failed_validation", "failed_retryable"}
Request == [session : Session, key : Key, hash : Hash, valid : BOOLEAN]
Result == {"issued", "completed", "duplicate", "conflict", "expired", "invalid_state",
           "validation_failed", "canonicalization_failed", "error"}

TypeOK ==
  /\ sess \in [Session -> SessionState]
  /\ ver \in [Session -> VersionState]
  /\ source \in [Session -> Source \union {NoSource}]
  /\ current \in Session \union {0}
  /\ dispatched \subseteq Session
  /\ late \subseteq Session
  /\ issued \subseteq [session : Session, key : Key, hash : Hash]
  /\ completed \subseteq [session : Session, key : Key, hash : Hash]
  /\ told \subseteq [session : Session, key : Key, hash : Hash,
               source : Source \union {NoSource}]
  /\ pc \in [Client -> {"idle", "issuing", "phase_one", "phase_one_write",
                        "canonicalizing", "phase_two", "phase_two_write", "catching"}]
  /\ req \in [Client -> SUBSET Request]
  /\ taken \in [Client -> Source \union {NoSource}]
  /\ answer \in [Client -> SUBSET [session : Session, result : Result]]
  /\ faults \in [{"repository", "workflow", "db", "crash"} -> Nat]

Init ==
  /\ sess = [s \in Session |-> "absent"]
  /\ ver = [s \in Session |-> "absent"]
  /\ source = [s \in Session |-> NoSource]
  /\ current = 0
  /\ dispatched = {}
  /\ late = {}
  /\ issued = {}
  /\ completed = {}
  /\ told = {}
  /\ pc = [p \in Client |-> "idle"]
  /\ req = [p \in Client |-> {}]
  /\ taken = [p \in Client |-> NoSource]
  /\ answer = [p \in Client |-> {}]
  /\ faults = [f \in {"repository", "workflow", "db", "crash"} |-> 0]

Fault(kind, bound) ==
  /\ faults[kind] < bound
  /\ faults' = [faults EXCEPT ![kind] = @ + 1]

Goto(p, label) ==
  /\ pc' = [pc EXCEPT ![p] = label]
  /\ UNCHANGED <<req, answer>>

Answer(p, s, result) ==
  /\ pc' = [pc EXCEPT ![p] = "idle"]
  /\ req' = [req EXCEPT ![p] = {}]
  /\ taken' = [taken EXCEPT ![p] = NoSource]
  /\ answer' = [answer EXCEPT ![p] = {[session |-> s, result |-> result]}]

Accept(p, r, label) ==
  /\ pc' = [pc EXCEPT ![p] = label]
  /\ req' = [req EXCEPT ![p] = {r}]
  /\ answer' = [answer EXCEPT ![p] = {}]
  /\ UNCHANGED taken

-------------------------------------------------------------------------------
\* issueUploadSession.  The keyed lookup and the read of the latest version number are
\* one step: what commits between them is met again by the unique indexes.
Present == {s \in Session : ver[s] # "absent"}

IssueReplay(p, k, h) ==
  /\ pc[p] = "idle"
  /\ \E i \in issued :
       /\ i.key = k
       /\ Answer(p, i.session, IF i.hash = h THEN "issued" ELSE "conflict")
  /\ UNCHANGED <<assetVars, late, recordVars, faults>>

IssueRead(p, k, h) ==
  /\ pc[p] = "idle"
  /\ \A i \in issued : i.key # k
  /\ \E n \in Session :
       /\ n = 1 \/ n - 1 \in Present
       /\ \A m \in Present : m < n
       /\ Accept(p, [session |-> n, key |-> k, hash |-> h, valid |-> TRUE], "issuing")
  /\ UNCHANGED <<assetVars, late, recordVars, faults>>

\* The unique indexes on the version number and on the idempotency key.
Insertable_KeyOnly(r) == \A i \in issued : i.key # r.key

Insertable(r) == r.session \notin Present /\ \A i \in issued : i.key # r.key

IssueRows(r) ==
  /\ Insertable(r)
  /\ sess' = [sess EXCEPT ![r.session] = "session_created"]
  /\ ver' = [ver EXCEPT ![r.session] = "session_created"]
  /\ issued' = issued \union {[session |-> r.session, key |-> r.key, hash |-> r.hash]}
  /\ UNCHANGED <<source, current, dispatched, late, completed, told>>

IssueCommit(p, r) ==
  /\ pc[p] = "issuing"
  /\ IssueRows(r)
  /\ Answer(p, r.session, "issued")
  /\ UNCHANGED faults

\* P2002: replay what the key's winner created, or rethrow if another key won.
IssueConflict(p, r) ==
  /\ pc[p] = "issuing"
  /\ ~Insertable(r)
  /\ \/ \E i \in issued : i.key = r.key
          /\ Answer(p, i.session, IF i.hash = r.hash THEN "issued" ELSE "conflict")
     \/ (\A i \in issued : i.key # r.key) /\ Answer(p, r.session, "error")
  /\ UNCHANGED <<assetVars, late, recordVars, faults>>

-------------------------------------------------------------------------------
\* completeUploadSession.  tryBuildCompletionReplay asks for the dispatch row and for
\* the canonical source; the state of the version does not matter to it.
Replayable_ByState(s) ==
  s \in dispatched /\ ver[s] \in {"canonical", "processing", "published"}

Replayable(s) == s \in dispatched /\ source[s] # NoSource

Telling(r, x) == told \union {[session |-> r.session, key |-> r.key, hash |-> r.hash, source |-> x]}

Recorded(r) == {c \in completed : c.session = r.session /\ c.key = r.key}

\* The lookup that starts a call: it compares the request hash and replays, or goes on.
SameRequest_KeyOnly(r, c) == c.key = r.key

SameRequest(r, c) == c.hash = r.hash

CompleteReplay(p, r) ==
  /\ pc[p] = "idle"
  /\ \E c \in Recorded(r) :
       IF ~SameRequest(r, c)
       THEN Answer(p, r.session, "conflict") /\ UNCHANGED told
       ELSE IF Replayable(r.session)
       THEN Answer(p, r.session, "duplicate") /\ told' = Telling(r, source[r.session])
       ELSE Answer(p, r.session, "error") /\ UNCHANGED told
  /\ UNCHANGED <<assetVars, late, issued, completed, faults>>

CompleteStart(p, r) ==
  /\ pc[p] = "idle"
  /\ r.session \in Present
  /\ Recorded(r) = {}
  /\ Accept(p, r, "phase_one")
  /\ UNCHANGED <<assetVars, late, recordVars, faults>>

\* persistCompletionIdempotencyRecord upserts, whatever hash the record had.
Recording(r) ==
  (completed \ Recorded(r)) \union {[session |-> r.session, key |-> r.key, hash |-> r.hash]}

ReplayRows(r) ==
  /\ Replayable(r.session)
  /\ completed' = Recording(r)
  /\ UNCHANGED <<assetVars, late, issued>>

Replay(p, r) ==
  /\ ReplayRows(r)
  /\ told' = Telling(r, source[r.session])
  /\ Answer(p, r.session, "duplicate")
  /\ UNCHANGED faults

\* The first transaction reads: an expired session is refused before anything else
\* (its update to expired is rolled back by the throw), then a replay, then the states.
PhaseOneExpired(p, r) ==
  /\ pc[p] = "phase_one"
  /\ r.session \in late
  /\ Answer(p, r.session, "expired")
  /\ UNCHANGED <<assetVars, late, recordVars, faults>>

PhaseOneReplay(p, r) ==
  /\ pc[p] = "phase_one"
  /\ r.session \notin late
  /\ Replay(p, r)

Completable(s) ==
  /\ sess[s] # "failed_validation"
  /\ ver[s] \in {"session_created", "failed_retryable"}

PhaseOneRead(p, r) ==
  /\ pc[p] = "phase_one"
  /\ r.session \notin late
  /\ ~Replayable(r.session)
  /\ IF Completable(r.session)
     THEN Goto(p, "phase_one_write") /\ UNCHANGED taken
     ELSE Answer(p, r.session, "invalid_state")
  /\ UNCHANGED <<assetVars, late, recordVars, faults>>

\* ... and writes, by id: what it read may be stale by now.
AcceptUpload_RecordsEarly(r) ==
  /\ r.valid
  /\ sess' = [sess EXCEPT ![r.session] = "uploaded"]
  /\ ver' = [ver EXCEPT ![r.session] = "canonicalizing"]
  /\ completed' = Recording(r)
  /\ UNCHANGED <<source, current, dispatched, late, issued, told>>

AcceptUpload_SessionOnly(r) ==
  /\ r.valid
  /\ sess' = [sess EXCEPT ![r.session] = "uploaded"]
  /\ UNCHANGED <<ver, source, current, dispatched, late, recordVars>>

AcceptUpload_StateOnSession(r) ==
  /\ r.valid
  /\ sess' = [sess EXCEPT ![r.session] = "canonicalizing"]
  /\ ver' = [ver EXCEPT ![r.session] = "canonicalizing"]
  /\ UNCHANGED <<source, current, dispatched, late, recordVars>>

AcceptUpload(r) ==
  /\ r.valid
  /\ sess' = [sess EXCEPT ![r.session] = "uploaded"]
  /\ ver' = [ver EXCEPT ![r.session] = "canonicalizing"]
  /\ UNCHANGED <<source, current, dispatched, late, recordVars>>

PhaseOneAccepts(p, r) ==
  /\ pc[p] = "phase_one_write"
  /\ AcceptUpload(r)
  /\ Goto(p, "canonicalizing")
  /\ UNCHANGED <<taken, faults>>

\* recordValidationFailure: object key, length or checksum is not what was declared.
RejectUpload(r) ==
  /\ ~r.valid
  /\ sess' = [sess EXCEPT ![r.session] = "failed_validation"]
  /\ ver' = [ver EXCEPT ![r.session] = "failed_validation"]
  /\ UNCHANGED <<source, current, dispatched, late, recordVars>>

PhaseOneRejects(p, r) ==
  /\ pc[p] = "phase_one_write"
  /\ RejectUpload(r)
  /\ Answer(p, r.session, "validation_failed")
  /\ UNCHANGED faults

\* The source repository takes its snapshot outside any transaction.
Canonicalize(p, r) ==
  /\ pc[p] = "canonicalizing"
  /\ \E x \in SnapshotOf[r.session] : taken' = [taken EXCEPT ![p] = x]
  /\ Goto(p, "phase_two")
  /\ UNCHANGED <<assetVars, late, recordVars, faults>>

CanonicalizeFails(p, r) ==
  /\ pc[p] = "canonicalizing"
  /\ Fault("repository", MaxRepositoryFailures)
  /\ Goto(p, "catching")
  /\ UNCHANGED <<assetVars, late, recordVars, taken>>

PhaseTwoReplay(p, r) == pc[p] = "phase_two" /\ Replay(p, r)

PhaseTwoRead(p, r) ==
  /\ pc[p] = "phase_two"
  /\ ~Replayable(r.session)
  /\ Goto(p, IF ver[r.session] = "canonicalizing" THEN "phase_two_write" ELSE "catching")
  /\ UNCHANGED <<assetVars, late, recordVars, taken, faults>>

\* The unique index on canonicalSourceId.
SourceIsNew(p, s) == \A t \in Session \ {s} : source[t] # taken[p]

PhaseTwoRows_DispatchLater(p, r) ==
  /\ SourceIsNew(p, r.session)
  /\ ver' = [ver EXCEPT ![r.session] = "canonical"]
  /\ source' = [source EXCEPT ![r.session] = taken[p]]
  /\ current' = r.session
  /\ completed' = Recording(r)
  /\ UNCHANGED <<sess, dispatched, late, issued>>

PhaseTwoRows(p, r) ==
  /\ SourceIsNew(p, r.session)
  /\ ver' = [ver EXCEPT ![r.session] = "canonical"]
  /\ source' = [source EXCEPT ![r.session] = taken[p]]
  /\ current' = r.session
  /\ dispatched' = dispatched \union {r.session}
  /\ completed' = Recording(r)
  /\ UNCHANGED <<sess, late, issued>>

PhaseTwoCommit(p, r) ==
  /\ pc[p] = "phase_two_write"
  /\ PhaseTwoRows(p, r)
  /\ told' = Telling(r, taken[p])
  /\ Answer(p, r.session, "completed")
  /\ UNCHANGED faults

PhaseTwoConflict(p, r) ==
  /\ pc[p] = "phase_two_write"
  /\ ~SourceIsNew(p, r.session)
  /\ Goto(p, "catching")
  /\ UNCHANGED <<assetVars, late, recordVars, taken, faults>>

\* The catch block marks the version whatever has become of it.
Catch_Unmarked(p, r) ==
  /\ pc[p] = "catching"
  /\ Answer(p, r.session, "canonicalization_failed")
  /\ UNCHANGED <<sess, ver, source, current, dispatched, late, recordVars, faults>>

Catch(p, r) ==
  /\ pc[p] = "catching"
  /\ ver' = [ver EXCEPT ![r.session] = "failed_retryable"]
  /\ Answer(p, r.session, "canonicalization_failed")
  /\ UNCHANGED <<sess, source, current, dispatched, late, recordVars, faults>>

-------------------------------------------------------------------------------
\* The database fails a transaction, or commits it and the answer is lost.
IssueFails(p, r) ==
  /\ pc[p] = "issuing"
  /\ Fault("db", MaxDbFaults)
  /\ IssueRows(r) \/ UNCHANGED <<assetVars, late, recordVars>>
  /\ Answer(p, r.session, "error")

PhaseOneFails(p, r) ==
  /\ pc[p] \in {"phase_one", "phase_one_write"}
  /\ Fault("db", MaxDbFaults)
  /\ \/ pc[p] = "phase_one" /\ r.session \notin late /\ ReplayRows(r) /\ UNCHANGED told
     \/ pc[p] = "phase_one_write" /\ (AcceptUpload(r) \/ RejectUpload(r))
     \/ UNCHANGED <<assetVars, late, recordVars>>
  /\ Answer(p, r.session, "error")

PhaseTwoFails(p, r) ==
  /\ pc[p] \in {"phase_two", "phase_two_write"}
  /\ Fault("db", MaxDbFaults)
  /\ \/ pc[p] = "phase_two" /\ ReplayRows(r)
     \/ pc[p] = "phase_two_write" /\ PhaseTwoRows(p, r)
     \/ UNCHANGED <<assetVars, late, issued, completed>>
  /\ Goto(p, "catching")
  /\ UNCHANGED <<taken, told>>

CatchFails(p, r) ==
  /\ pc[p] = "catching"
  /\ Fault("db", MaxDbFaults)
  /\ Answer(p, r.session, "error")
  /\ UNCHANGED <<assetVars, late, recordVars>>

Crash(p, r) ==
  /\ Fault("crash", MaxCrashes)
  /\ Answer(p, r.session, "error")
  /\ UNCHANGED <<assetVars, late, recordVars>>

\* Time passes expiresAt.
Expire(s) ==
  /\ s \in Present \ late
  /\ late' = late \union {s}
  /\ UNCHANGED <<assetVars, recordVars, callVars, faults>>

-------------------------------------------------------------------------------
\* The publication workflow that the dispatch row leads to moves the same version.  Its
\* transactions check the state and then write by id, and executions overlap, so the
\* state may have become any other in between (see Publication).
Move(s, to) ==
  /\ s \in dispatched
  /\ ver[s] # "absent"
  /\ ver' = [ver EXCEPT ![s] = to]
  /\ UNCHANGED <<sess, source, current, dispatched, late, recordVars, callVars>>

BeginPublication(s) == Move(s, "processing") /\ UNCHANGED faults

Publish(s) == Move(s, "published") /\ UNCHANGED faults

PublicationFails(s) ==
  Move(s, "failed_retryable") /\ Fault("workflow", MaxWorkflowFailures)

Workflow(s) == BeginPublication(s) \/ Publish(s) \/ PublicationFails(s)

-------------------------------------------------------------------------------
CallBegins(p) ==
  \/ \E k \in Key, h \in Hash : IssueReplay(p, k, h) \/ IssueRead(p, k, h)
  \/ \E r \in Request : CompleteReplay(p, r) \/ CompleteStart(p, r)

CallGoesOn(p, r) ==
  \/ IssueCommit(p, r)
  \/ IssueConflict(p, r)
  \/ PhaseOneExpired(p, r)
  \/ PhaseOneReplay(p, r)
  \/ PhaseOneRead(p, r)
  \/ PhaseOneAccepts(p, r)
  \/ PhaseOneRejects(p, r)
  \/ Canonicalize(p, r)
  \/ CanonicalizeFails(p, r)
  \/ PhaseTwoReplay(p, r)
  \/ PhaseTwoRead(p, r)
  \/ PhaseTwoCommit(p, r)
  \/ PhaseTwoConflict(p, r)
  \/ Catch(p, r)

CallFails(p, r) ==
  \/ IssueFails(p, r)
  \/ PhaseOneFails(p, r)
  \/ PhaseTwoFails(p, r)
  \/ CatchFails(p, r)
  \/ Crash(p, r)

Next ==
  \/ \E p \in Client :
       \/ CallBegins(p)
       \/ \E r \in req[p] : CallGoesOn(p, r) \/ CallFails(p, r)
  \/ \E s \in Session : Expire(s) \/ Workflow(s)

Spec == Init /\ [][Next]_vars

\* A call under way goes on: the process runs it and the repository and the database
\* answer, with a failure or without.  Nobody has to call at all.
FairSpec ==
  Spec /\ \A p \in Client : WF_vars(\E r \in req[p] : CallGoesOn(p, r))

-------------------------------------------------------------------------------
\* docs/idempotency-and-dispatch.md section 5, under any interleaving, fault or crash:
\* the second transaction makes the source durable, points the asset at it and leaves
\* the dispatch row together, and only it does; no version is published, processed or
\* current without both.
DispatchIsPostCanonical ==
  /\ \A s \in Session : s \in dispatched <=> source[s] # NoSource
  /\ \A s \in Session : ver[s] \in {"canonical", "processing", "published"} => s \in dispatched
  /\ current # 0 => current \in dispatched

\* A retry is answered: a caller that was told, and a key that was recorded, refer to
\* a version that loadCompletionReplay finds replayable for ever after.
CompletionsReplay ==
  \A c \in completed \union told : Replayable(c.session)

\* Retries and races of creation make one session per key, numbered without a gap
\* (the two unique indexes and the relookup after P2002).
IssuedOncePerKey ==
  /\ Present = {i.session : i \in issued}
  /\ \A i, j \in issued : i.key = j.key \/ i.session = j.session => i = j
  /\ \A s \in Present : \A n \in Session : n < s => n \in Present

\* The promise of VersionContract, kept by the tables: a version advances from its session
\* to its dispatch and never goes back, whatever lifecycle state retries and failures
\* give it, and a caller who was told of a completion can rely on it.
Stage(s) == IF s \in dispatched THEN 2 ELSE IF s \in Present THEN 1 ELSE 0

StagesTold(s) == {2 : t \in {x \in told : x.session = s}}

Contract == INSTANCE VersionContract WITH
  Version <- Session,
  stage <- [s \in Session |-> Stage(s)],
  told <- [s \in Session |-> StagesTold(s)],
  intact <- TRUE

ImplementsContract == Contract!CSpec

\* What a call works on: one request for a version that exists, and from the second
\* transaction on a source the repository gave for it.
Grounded(p) ==
  /\ \A r, q \in req[p] : r = q
  /\ pc[p] \notin {"idle", "issuing"} => \A r \in req[p] : r.session \in Present
  /\ pc[p] \in {"phase_two", "phase_two_write"} =>
       \A r \in req[p] : taken[p] \in SnapshotOf[r.session]
  /\ pc[p] = "issuing" =>
       \A r \in req[p] : \A n \in Session : n < r.session => n \in Present

CallsGrounded == \A p \in Client : Grounded(p)

UploadInv ==
  DispatchIsPostCanonical /\ CompletionsReplay /\ IssuedOncePerKey /\ CallsGrounded

\* docs/state-machines.md section 3.2: once canonical, the source identity never
\* changes.  Two calls can both reach the second transaction's write.
CanonicalIdentityFixed ==
  [][\A s \in Session : source[s] # NoSource => source'[s] = source[s]]_vars

\* docs/idempotency-and-dispatch.md section 4.3: a duplicate completion converges on
\* the dispatch there is; after it only the workflow moves the version.
CompletionLeavesDispatchedAlone ==
  [][\A s \in dispatched : ver'[s] # ver[s] => Workflow(s)]_vars

\* docs/idempotency-and-dispatch.md section 4.2: one key, one request.
KeyBindsOneRequest ==
  \A a, b \in told : a.session = b.session /\ a.key = b.key => a.hash = b.hash

\* docs/state-machines.md section 3.1: failed_retryable is for infrastructure or
\* transient dependency failures.  There is one other way to it: a repository that gives
\* equal bytes equal ids runs into the unique canonicalSourceId of another version.
SourceTaken(s) == \E t \in Session \ {s} : source[t] \in SnapshotOf[s]

RetryableIsExplained ==
  \A s \in Session :
    ver[s] = "failed_retryable" => (\E f \in DOMAIN faults : faults[f] > 0) \/ SourceTaken(s)

\* docs/state-machines.md section 3.1: canonicalizing is a version being committed to
\* the source repository; while processes and database stay up every call ends it, one
\* way or the other.
Up == faults["db"] = 0 /\ faults["crash"] = 0

CanonicalizingEnds ==
  \A s \in Session : ver[s] = "canonicalizing" ~> ver[s] # "canonicalizing" \/ ~Up

\* Why it ends: the version is the work of a call that will write it again, in its second
\* transaction or in its catch block.  It is so for calls one after another; of two that
\* overlap, one can write canonicalizing and return.
Attends(p, s) ==
  /\ pc[p] \in {"canonicalizing", "phase_two", "phase_two_write", "catching"}
  /\ \E r \in req[p] : r.session = s

CanonicalizingIsAttended ==
  \A s \in Session :
    ver[s] = "canonicalizing" /\ Up => \E p \in Client : Attends(p, s)

===============================================================================
