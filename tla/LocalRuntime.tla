----------------------------- MODULE LocalRuntime -----------------------------
(***************************************************************************)
(* The local public runtime: one process that keeps its upload sessions,   *)
(* versions, idempotency records and published rows in memory, saves all   *)
(* of them to one JSON file, publishes a version inside the call that      *)
(* completes it, and replays unfinished publications when it is started    *)
(* again (apps/demo/scripts/public-runtime-app.mjs over                    *)
(* apps/api/src/upload-session-service.ts).  Its callers are clients of    *)
(* packages/sdk/src/public-client.ts, which create a session, put the      *)
(* bytes and complete, and may retry any of it.                            *)
(*                                                                         *)
(* JavaScript runs one call at a time between two awaits, so a step is     *)
(* what lies between them.  A save writes whatever is in memory, the work  *)
(* other calls have half done included.                                    *)
(***************************************************************************)
EXTENDS Naturals, FiniteSets

CONSTANTS MaxVersions,   \* bound: versions, each with its session, that are ever made
          Client,        \* concurrent callers
          Boot,          \* the replay that runs when the process is started
          IssueKey,      \* idempotency keys of creations
          CompleteKey,   \* and of completions, which are records of their own
          Hash,          \* normalized creation requests; the SDK makes an object key per attempt
          Generic,       \* versions whose workflow template is asset-derivation-v1
          MaxFaults      \* bound: deaths of the process and publications that throw

Version == 1..MaxVersions
Actor == Client \union {Boot}

ASSUME LocalAssumption ==
  /\ MaxVersions \in Nat
  /\ Boot \notin Client
  /\ Generic \subseteq Version
  /\ MaxFaults \in Nat

VARIABLES
  store,      \* what is in memory
  file,       \* upload-session-store.json
  staged,     \* versions whose upload object is in the staging store
  derived,    \* versions whose derivative object is in the staging store
  manifests,  \* versions whose manifest object is
  minted,     \* how many versions were ever made, the forgotten ones included
  late,       \* sessions whose expiresAt has passed
  pc,         \* where each actor is
  at,         \* the version it is working on
  req,        \* the request it is answering
  todo,       \* what the replay has left to publish
  replay,     \* publicationReplay, which every read awaits
  told,       \* the successes callers have been told of
  read,       \* versions a reader has seen published
  faults      \* deaths that left the files whole, deaths that did not, publications that threw

vars == <<store, file, staged, derived, manifests, minted, late, pc, at, req, todo,
          replay, told, read, faults>>
objectVars == <<staged, derived, manifests>>
callVars == <<pc, at, req>>
replayVars == <<todo, replay>>
observers == <<told, read>>

Life == {"absent", "session_created", "canonicalizing", "canonical", "processing",
         "published", "failed_validation"}
State == [life : [Version -> Life],
          dispatch : [Version -> {"none", "pending", "completed"}],
          rows : SUBSET Version,
          created : SUBSET [key : IssueKey, hash : Hash, version : Version],
          completed : [CompleteKey -> Version \union {0}]]
Key == IssueKey \union CompleteKey
Request == [key : Key, valid : BOOLEAN, sound : BOOLEAN]
Publishing == {"begin", "derive", "manifest", "publish"}

Empty == [life |-> [v \in Version |-> "absent"],
          dispatch |-> [v \in Version |-> "none"],
          rows |-> {}, created |-> {}, completed |-> [k \in CompleteKey |-> 0]]

TypeOK ==
  /\ store \in State
  /\ file \in State
  /\ staged \subseteq Version
  /\ derived \subseteq Version
  /\ manifests \subseteq Version
  /\ minted \in 0..MaxVersions
  /\ late \subseteq Version
  /\ pc \in [Actor -> Publishing \union {"idle", "saving", "completing", "canonicalizing",
                                         "finish"}]
  /\ at \in [Actor -> Version \union {0}]
  /\ req \in [Actor -> SUBSET Request]
  /\ todo \subseteq Generic
  /\ replay \in {"running", "done", "failed"}
  /\ told \subseteq [what : {"issued", "completed"}, key : Key, version : Version]
  /\ read \subseteq Version
  /\ faults \in [{"restart", "torn", "publication"} -> Nat]

Init ==
  /\ store = Empty
  /\ file = Empty
  /\ staged = {}
  /\ derived = {}
  /\ manifests = {}
  /\ minted = 0
  /\ late = {}
  /\ pc = [a \in Actor |-> "idle"]
  /\ at = [a \in Actor |-> 0]
  /\ req = [a \in Actor |-> {}]
  /\ todo = {}
  /\ replay = "running"
  /\ told = {}
  /\ read = {}
  /\ faults = [f \in {"restart", "torn", "publication"} |-> 0]

Fault(kind) ==
  /\ faults["restart"] + faults["torn"] + faults["publication"] < MaxFaults
  /\ faults' = [faults EXCEPT ![kind] = @ + 1]

Goto(a, from, to) ==
  /\ pc[a] = from
  /\ pc' = [pc EXCEPT ![a] = to]

Accept(c, v, r, label) ==
  /\ Goto(c, "idle", label)
  /\ at' = [at EXCEPT ![c] = v]
  /\ req' = [req EXCEPT ![c] = {r}]

Leave(a) ==
  /\ pc' = [pc EXCEPT ![a] = "idle"]
  /\ at' = [at EXCEPT ![a] = 0]
  /\ req' = [req EXCEPT ![a] = {}]

Tell(what, r, v) == told \union {[what |-> what, key |-> r.key, version |-> v]}

\* save: all of memory, to the one file.
Save(memory) == store' = memory /\ file' = memory

-------------------------------------------------------------------------------
\* issueUploadSession: the keyed lookup and the maps that follow are one step, the save
\* another.  Another request under the key is refused before anything changes.
Issued(k) == {i \in store.created : i.key = k}

Creation(k) == [key |-> k, valid |-> TRUE, sound |-> TRUE]

IssueReplay(c, k, h) ==
  /\ \E i \in Issued(k) :
       /\ i.hash = h
       /\ Accept(c, i.version, Creation(k), "saving")
  /\ UNCHANGED <<store, file, objectVars, minted, late, replayVars, observers, faults>>

IssueNew(c, k, h) ==
  /\ Issued(k) = {}
  /\ minted < MaxVersions
  /\ LET v == minted + 1 IN
       /\ store' = [store EXCEPT !.life[v] = "session_created",
                                 !.created = @ \union {[key |-> k, hash |-> h, version |-> v]}]
       /\ Accept(c, v, Creation(k), "saving")
  /\ minted' = minted + 1
  /\ UNCHANGED <<file, objectVars, late, replayVars, observers, faults>>

IssueSaves_NotYet(c, r) ==
  /\ pc[c] = "saving"
  /\ told' = Tell("issued", r, at[c])
  /\ Leave(c)
  /\ UNCHANGED <<store, file, objectVars, minted, late, replayVars, read, faults>>

IssueSaves(c, r) ==
  /\ pc[c] = "saving"
  /\ Save(store)
  /\ told' = Tell("issued", r, at[c])
  /\ Leave(c)
  /\ UNCHANGED <<objectVars, minted, late, replayVars, read, faults>>

\* PATCH /uploads: whole bytes at once, the declared ones or others, at any time, whatever
\* became of the session.
Known(v) == \E t \in told : t.version = v

Put(v) ==
  /\ Known(v)
  /\ staged' = staged \union {v}
  /\ UNCHANGED <<store, file, derived, manifests, minted, late, callVars, replayVars,
                 observers, faults>>

-------------------------------------------------------------------------------
\* The complete route looks the session up and heads the staged object, whose bytes are the
\* declared ones (sound) or not ...
CompleteStart(c, v, r) ==
  /\ r.key \in CompleteKey
  /\ Known(v) /\ store.life[v] # "absent"
  /\ v \in staged
  /\ Accept(c, v, r, "completing")
  /\ UNCHANGED <<store, file, objectVars, minted, late, replayVars, observers, faults>>

\* ... and completeUploadSession answers a duplicate, refuses, or starts to canonicalize.
\* The record of a key is looked up here and set, over whatever is there, when done.
Recorded(r) == store.completed[r.key]

Duplicate(r, v) ==
  /\ r.valid
  /\ \/ Recorded(r) = v
     \/ Recorded(r) = 0 /\ v \notin late /\ store.dispatch[v] # "none"

Completable(r, v) ==
  /\ Recorded(r) = 0 /\ v \notin late
  /\ store.life[v] = "session_created"

Acceptable(r) == r.valid /\ r.sound

\* afterCompleteUploadSession publishes what the result, not the version, says is pending.
AfterCompletion(v) == IF v \in Generic THEN "begin" ELSE "finish"

CompleteDuplicate(c, r) ==
  /\ Goto(c, "completing", AfterCompletion(at[c]))
  /\ Duplicate(r, at[c])
  /\ store' = [store EXCEPT !.completed[r.key] = at[c]]
  /\ UNCHANGED <<file, objectVars, minted, late, at, req, replayVars, observers, faults>>

CompleteAccepted_Uploaded(c, r) ==
  /\ Goto(c, "completing", "canonicalizing")
  /\ Completable(r, at[c]) /\ Acceptable(r)
  /\ store' = [store EXCEPT !.life[at[c]] = "uploaded"]
  /\ UNCHANGED <<file, objectVars, minted, late, at, req, replayVars, observers, faults>>

CompleteAccepted(c, r) ==
  /\ Goto(c, "completing", "canonicalizing")
  /\ Completable(r, at[c]) /\ Acceptable(r)
  /\ store' = [store EXCEPT !.life[at[c]] = "canonicalizing"]
  /\ UNCHANGED <<file, objectVars, minted, late, at, req, replayVars, observers, faults>>

\* Every error leaves through a save.
CompleteRefused(c, r) ==
  /\ pc[c] = "completing"
  /\ ~Duplicate(r, at[c])
  /\ ~(Completable(r, at[c]) /\ Acceptable(r))
  /\ Save(IF Completable(r, at[c])
          THEN [store EXCEPT !.life[at[c]] = "failed_validation"]
          ELSE store)
  /\ Leave(c)
  /\ UNCHANGED <<objectVars, minted, late, replayVars, observers, faults>>

\* LocalRuntimeSourceRepository makes its ids from the version and never fails.
Canonicalized(c, r) ==
  /\ Goto(c, "canonicalizing", AfterCompletion(at[c]))
  /\ store' = [store EXCEPT !.life[at[c]] = "canonical",
                            !.dispatch[at[c]] = "pending",
                            !.completed[r.key] = at[c]]
  /\ UNCHANGED <<file, objectVars, minted, late, at, req, replayVars, observers, faults>>

CompleteFinish(c, r) ==
  /\ pc[c] = "finish"
  /\ Save(store)
  /\ told' = Tell("completed", r, at[c])
  /\ Leave(c)
  /\ UNCHANGED <<objectVars, minted, late, replayVars, read, faults>>

-------------------------------------------------------------------------------
\* runGenericAssetPublicationWorkflow, for a call or for the replay.
Begin(a) ==
  /\ Goto(a, "begin", "derive")
  /\ store.life[at[a]] \in {"canonical", "processing", "published"}
  /\ Save([store EXCEPT !.life[at[a]] = "processing"])
  /\ UNCHANGED <<objectVars, minted, late, at, req, replayVars, observers, faults>>

\* processAssetDerivative reads the staged object, publishObject writes it back.
PutDerivative(a) ==
  /\ Goto(a, "derive", "manifest")
  /\ at[a] \in staged
  /\ derived' = derived \union {at[a]}
  /\ UNCHANGED <<store, file, staged, manifests, minted, late, at, req, replayVars,
                 observers, faults>>

PutManifest(a) ==
  /\ Goto(a, "manifest", "publish")
  /\ manifests' = manifests \union {at[a]}
  /\ UNCHANGED <<store, file, staged, derived, minted, late, at, req, replayVars,
                 observers, faults>>

\* The last step of a call's publication leads to its answer; the replay goes on.
Published(a) ==
  IF a = Boot THEN Goto(a, "publish", "idle") ELSE Goto(a, "publish", "finish")

PublishRows_StateFirst(v) ==
  Save([store EXCEPT !.life[v] = "published",
                     !.dispatch[v] = "completed"])

PublishRows(v) ==
  Save([store EXCEPT !.life[v] = "published",
                     !.dispatch[v] = "completed",
                     !.rows = @ \union {v}])

Publish(a) ==
  /\ Published(a)
  /\ store.life[at[a]] \in {"processing", "published"}
  /\ PublishRows(at[a])
  /\ at' = IF a = Boot THEN [at EXCEPT ![a] = 0] ELSE at
  /\ UNCHANGED <<objectVars, minted, late, req, replayVars, observers, faults>>

\* A publication throws: the call is answered with the error, the replay rejects.
PublicationThrows(a) ==
  /\ pc[a] \in Publishing
  /\ Fault("publication")
  /\ Leave(a)
  /\ IF a = Boot
     THEN replay' = "failed" /\ todo' = {} /\ UNCHANGED <<store, file>>
     ELSE UNCHANGED replayVars /\ Save(store)
  /\ UNCHANGED <<objectVars, minted, late, observers>>

-------------------------------------------------------------------------------
\* publishPendingUploads: what listPendingGenericAssetPublicationDispatches lists and
\* publishWorkflowDispatch does not return from at once, one after the other.
Pending_CanonicalOnly(s) ==
  {v \in Generic : s.life[v] = "canonical" /\ s.dispatch[v] = "pending"}

Pending(s) ==
  {v \in Generic : s.life[v] \in {"canonical", "processing"} /\ s.dispatch[v] = "pending"}

ReplayNext ==
  /\ \E v \in todo :
       /\ \A w \in todo : v <= w
       /\ Goto(Boot, "idle", "begin")
       /\ at' = [at EXCEPT ![Boot] = v]
       /\ todo' = todo \ {v}
  /\ UNCHANGED <<store, file, objectVars, minted, late, req, replay, observers, faults>>

ReplayEnds ==
  /\ replay = "running"
  /\ pc[Boot] = "idle" /\ todo = {}
  /\ replay' = "done"
  /\ UNCHANGED <<store, file, objectVars, minted, late, callVars, todo, observers, faults>>

\* The process dies and is started again: it knows what the files say.  Nothing else
\* touches them meanwhile, so this is one step.
Started_KeysForgotten(s) ==
  /\ store' = [s EXCEPT !.created = {}] /\ file' = s
  /\ todo' = Pending(s)
  /\ replay' = "running"
  /\ pc' = [a \in Actor |-> "idle"]
  /\ at' = [a \in Actor |-> 0]
  /\ req' = [a \in Actor |-> {}]
  /\ UNCHANGED <<minted, late, observers>>

Started(s) ==
  /\ Save(s)
  /\ todo' = Pending(s)
  /\ replay' = "running"
  /\ pc' = [a \in Actor |-> "idle"]
  /\ at' = [a \in Actor |-> 0]
  /\ req' = [a \in Actor |-> {}]
  /\ UNCHANGED <<minted, late, observers>>

Restart ==
  /\ Fault("restart")
  /\ Started(file)
  /\ UNCHANGED objectVars

\* writeJsonFile removes the file before it writes it again; load() takes a file that is
\* not there for a first start.  The staging store saves its manifest the same way.
RestartAfterTornSave ==
  /\ Fault("torn")
  /\ \/ Started(Empty) /\ UNCHANGED objectVars
     \/ /\ Started(file)
        /\ staged' = {} /\ derived' = {} /\ manifests' = {}

\* A public read (authorizeDelivery, getManifest, listDerivatives).
Read(v) ==
  /\ replay = "done"
  /\ Known(v) /\ store.life[v] = "published" /\ v \in store.rows
  /\ read' = read \union {v}
  /\ UNCHANGED <<store, file, objectVars, minted, late, callVars, replayVars, told, faults>>

Expire(v) ==
  /\ store.life[v] # "absent" /\ v \notin late
  /\ late' = late \union {v}
  /\ UNCHANGED <<store, file, objectVars, minted, callVars, replayVars, observers, faults>>

-------------------------------------------------------------------------------
CallBegins(c) ==
  \/ \E k \in IssueKey, h \in Hash : IssueReplay(c, k, h) \/ IssueNew(c, k, h)
  \/ \E v \in Version, r \in Request : CompleteStart(c, v, r)

CallGoesOn(c, r) ==
  \/ IssueSaves(c, r)
  \/ CompleteDuplicate(c, r)
  \/ CompleteAccepted(c, r)
  \/ CompleteRefused(c, r)
  \/ Canonicalized(c, r)
  \/ CompleteFinish(c, r)

Publication(a) == Begin(a) \/ PutDerivative(a) \/ PutManifest(a) \/ Publish(a)

Replay == ReplayNext \/ ReplayEnds

Next ==
  \/ \E c \in Client :
       \/ CallBegins(c)
       \/ \E r \in req[c] : CallGoesOn(c, r)
  \/ \E a \in Actor : Publication(a) \/ PublicationThrows(a)
  \/ Replay
  \/ \E v \in Version :
       \/ Put(v)
       \/ Read(v)
       \/ Expire(v)
  \/ Restart
  \/ RestartAfterTornSave

Spec == Init /\ [][Next]_vars

\* A process that runs works off what it has started; clients need not call.
FairSpec ==
  /\ Spec
  /\ \A c \in Client : WF_vars(\E r \in req[c] : CallGoesOn(c, r))
  /\ \A a \in Actor : WF_vars(Publication(a))
  /\ WF_vars(Replay)

-------------------------------------------------------------------------------
Intact == faults["torn"] = 0

\* The promise of VersionContract, kept by the file: what a caller or a reader was told
\* survives every restart, and no restart, retry or half-done save of another call takes
\* a version back.  apps/demo/README.md:42.
Stage(v) ==
  IF v \in file.rows THEN 3
  ELSE IF file.dispatch[v] # "none" THEN 2
  ELSE IF file.life[v] # "absent" THEN 1 ELSE 0

StagesTold(v) ==
  {1 : t \in {x \in told : x.what = "issued" /\ x.version = v}}
    \union {2 : t \in {x \in told : x.what = "completed" /\ x.version = v}}
    \union {3 : w \in read \intersect {v}}

Contract == INSTANCE VersionContract WITH
  stage <- [v \in Version |-> Stage(v)],
  told <- [v \in Version |-> StagesTold(v)],
  intact <- Intact

ImplementsContract == Contract!CSpec

\* docs/idempotency-and-dispatch.md section 4.1, across restarts and half-done saves: one key
\* creates one session.
RetriesConverge ==
  Intact => \A s, t \in told :
    s.what = "issued" /\ t.what = "issued" /\ s.key = t.key => s.version = t.version

\* What a reader is sent to is there: a published version has its rows, and its
\* derivative and manifest objects, in memory and on disk (rows come after objects).
Servable(s, v) ==
  s.life[v] = "published" => v \in s.rows /\ v \in derived /\ v \in manifests

PublishedIsServable == Intact => \A v \in Version : Servable(store, v) /\ Servable(file, v)

\* A dispatch that was saved as pending is published, however often the process is
\* restarted, unless a publication throws (demo-api-app.test.mjs:803, replays persisted
\* pending generic dispatches after restart).
PendingIsDelivered ==
  \A v \in Generic :
    file.dispatch[v] = "pending" ~>
      file.dispatch[v] = "completed" \/ ~Intact \/ faults["publication"] > 0

\* Why it is: in memory or on disk, pending is never left to nobody, whatever is restarted
\* in the middle of what (Pending lists exactly what no call will publish any more).
Attended(v) == v \in todo \/ \E a \in Actor : pc[a] \in Publishing /\ at[a] = v

PendingIsAttended ==
  faults["publication"] = 0 =>
    \A v \in Generic : "pending" \in {store.dispatch[v], file.dispatch[v]} => Attended(v)

\* demo-api-app.test.mjs:712: persisted published versions are delivery-ready after a
\* restart, that is, once the replay is done and no call is at work, though nothing failed.
DeliveryReadyAfterRestart ==
  (/\ Intact /\ faults["publication"] = 0
   /\ replay = "done" /\ \A a \in Actor : pc[a] = "idle")
    => \A v \in Version : v \in file.rows => store.life[v] = "published"

===============================================================================
