-------------------------- MODULE UploadSessionProofs --------------------------
(***************************************************************************)
(* Proofs about UploadSession, for any number of versions, concurrent      *)
(* calls, keys, sources and faults: type correctness and the inductive     *)
(* invariant UploadInv.                                                    *)
(***************************************************************************)
EXTENDS UploadSession, TLAPS

\* TypeOK in the groups that actions touch together.
AssetsTyped ==
  /\ sess \in [Session -> SessionState]
  /\ ver \in [Session -> VersionState]
  /\ source \in [Session -> Source \union {NoSource}]
  /\ current \in Session \union {0}
  /\ dispatched \subseteq Session
  /\ late \subseteq Session

RecordsTyped ==
  /\ issued \subseteq [session : Session, key : Key, hash : Hash]
  /\ completed \subseteq [session : Session, key : Key, hash : Hash]
  /\ told \subseteq [session : Session, key : Key, hash : Hash,
               source : Source \union {NoSource}]

CallsTyped ==
  /\ pc \in [Client -> {"idle", "issuing", "phase_one", "phase_one_write",
                        "canonicalizing", "phase_two", "phase_two_write", "catching"}]
  /\ req \in [Client -> SUBSET Request]
  /\ taken \in [Client -> Source \union {NoSource}]
  /\ answer \in [Client -> SUBSET [session : Session, result : Result]]

FaultsTyped == faults \in [{"repository", "workflow", "db", "crash"} -> Nat]

LEMMA TypeGroups == TypeOK <=> AssetsTyped /\ RecordsTyped /\ CallsTyped /\ FaultsTyped
  BY DEF TypeOK, AssetsTyped, RecordsTyped, CallsTyped, FaultsTyped

LEMMA TypeGroupsNext ==
  AssetsTyped' /\ RecordsTyped' /\ CallsTyped' /\ FaultsTyped' => TypeOK'
  BY DEF TypeOK, AssetsTyped, RecordsTyped, CallsTyped, FaultsTyped

-------------------------------------------------------------------------------
(* The effects of which the actions are made. *)

LEMMA FaultTyped ==
  ASSUME FaultsTyped, NEW kind \in {"repository", "workflow", "db", "crash"},
         NEW bound \in Nat, Fault(kind, bound)
  PROVE  FaultsTyped'
  BY DEF FaultsTyped, Fault

LEMMA FaultsKept == FaultsTyped /\ UNCHANGED faults => FaultsTyped'
  BY DEF FaultsTyped

LEMMA AssetsKept == AssetsTyped /\ UNCHANGED <<assetVars, late>> => AssetsTyped'
  BY DEF AssetsTyped, assetVars

LEMMA RecordsKept == RecordsTyped /\ UNCHANGED recordVars => RecordsTyped'
  BY DEF RecordsTyped, recordVars

LEMMA CallsKept == CallsTyped /\ UNCHANGED callVars => CallsTyped'
  BY DEF CallsTyped, callVars

LEMMA AnswerTyped ==
  ASSUME CallsTyped, NEW p \in Client, NEW s \in Session, NEW result \in Result,
         Answer(p, s, result)
  PROVE  CallsTyped'
  BY DEF CallsTyped, Answer

LEMMA AcceptTyped ==
  ASSUME CallsTyped, NEW p \in Client, NEW r \in Request,
         NEW label \in {"issuing", "phase_one"}, Accept(p, r, label)
  PROVE  CallsTyped'
  BY DEF CallsTyped, Accept

LEMMA GotoTyped ==
  ASSUME CallsTyped, NEW p \in Client,
         NEW label \in {"phase_one_write", "canonicalizing", "phase_two",
                        "phase_two_write", "catching"},
         Goto(p, label), taken' \in [Client -> Source \union {NoSource}]
  PROVE  CallsTyped'
  BY DEF CallsTyped, Goto

LEMMA ReplayRowsTyped ==
  ASSUME AssetsTyped, RecordsTyped, NEW r \in Request, ReplayRows(r), told' = told
  PROVE  AssetsTyped' /\ RecordsTyped'
PROOF
<1>1. r.session \in Session /\ r.key \in Key /\ r.hash \in Hash
  BY DEF Request
<1>2. RecordsTyped'
  BY <1>1 DEF ReplayRows, Recording, Recorded, RecordsTyped
<1> QED
  BY <1>2, AssetsKept DEF ReplayRows

LEMMA RejectUploadTyped ==
  ASSUME AssetsTyped, RecordsTyped, NEW r \in Request, RejectUpload(r)
  PROVE  AssetsTyped' /\ RecordsTyped'
PROOF
<1>1. AssetsTyped'
  BY DEF RejectUpload, Request, AssetsTyped, SessionState, VersionState
<1> QED
  BY <1>1, RecordsKept DEF RejectUpload

LEMMA ReplayTyped ==
  ASSUME AssetsTyped, RecordsTyped, CallsTyped, FaultsTyped,
         NEW p \in Client, NEW r \in Request, Replay(p, r)
  PROVE  AssetsTyped' /\ RecordsTyped' /\ CallsTyped' /\ FaultsTyped'
PROOF
<1>1. r.session \in Session /\ r.key \in Key /\ r.hash \in Hash
  BY DEF Request
<1>2. source[r.session] \in Source \union {NoSource}
  BY <1>1 DEF AssetsTyped
<1>3. RecordsTyped'
  BY <1>1, <1>2 DEF Replay, ReplayRows, Recording, Recorded, Telling, RecordsTyped
<1>4. CallsTyped'
  BY <1>1, AnswerTyped DEF Replay, Result
<1> QED
  BY <1>3, <1>4, AssetsKept, FaultsKept DEF Replay, ReplayRows

LEMMA IssueRowsTyped ==
  ASSUME AssetsTyped, RecordsTyped, NEW r \in Request, IssueRows(r)
  PROVE  AssetsTyped' /\ RecordsTyped'
PROOF
<1>1. r.session \in Session /\ r.key \in Key /\ r.hash \in Hash
  BY DEF Request
<1>2. AssetsTyped'
  BY <1>1 DEF IssueRows, AssetsTyped, SessionState, VersionState
<1> QED
  BY <1>1, <1>2 DEF IssueRows, RecordsTyped

LEMMA AcceptUploadTyped ==
  ASSUME AssetsTyped, RecordsTyped, NEW r \in Request, AcceptUpload(r)
  PROVE  AssetsTyped' /\ RecordsTyped'
PROOF
<1>1. AssetsTyped'
  BY DEF AcceptUpload, AssetsTyped, SessionState, VersionState
<1> QED
  BY <1>1, RecordsKept DEF AcceptUpload

LEMMA PhaseTwoRowsTyped ==
  ASSUME AssetsTyped, NEW p \in Client, NEW r \in Request, PhaseTwoRows(p, r),
         taken[p] \in Source \union {NoSource}
  PROVE  AssetsTyped'
PROOF
<1>1. r.session \in Session
  BY DEF Request
<1> QED
  BY <1>1 DEF PhaseTwoRows, AssetsTyped, VersionState

LEMMA RecordingTyped ==
  ASSUME RecordsTyped, NEW r \in Request
  PROVE  Recording(r) \subseteq [session : Session, key : Key, hash : Hash]
  BY DEF RecordsTyped, Recording, Recorded, Request

LEMMA TellingTyped ==
  ASSUME RecordsTyped, NEW r \in Request, NEW x \in Source \union {NoSource}
  PROVE  Telling(r, x) \subseteq [session : Session, key : Key, hash : Hash,
                                 source : Source \union {NoSource}]
  BY DEF RecordsTyped, Telling, Request

LEMMA MoveTyped ==
  ASSUME AssetsTyped, RecordsTyped, CallsTyped, NEW s \in Session,
         NEW to \in VersionState, Move(s, to)
  PROVE  AssetsTyped' /\ RecordsTyped' /\ CallsTyped'
PROOF
<1>1. AssetsTyped'
  BY DEF Move, AssetsTyped
<1> QED
  BY <1>1, RecordsKept, CallsKept DEF Move

-------------------------------------------------------------------------------
(* Type correctness, action by action. *)

LEMMA BeginsTyped ==
  ASSUME TypeOK, NEW p \in Client, CallBegins(p)
  PROVE  TypeOK'
PROOF
<1> AssetsTyped /\ RecordsTyped /\ CallsTyped /\ FaultsTyped
  BY TypeGroups
<1>1. ASSUME NEW k \in Key, NEW h \in Hash, IssueReplay(p, k, h)
      PROVE  TypeOK'
  <2>1. CallsTyped'
    BY <1>1, AnswerTyped DEF IssueReplay, RecordsTyped, Result
  <2> QED
    BY <1>1, <2>1, AssetsKept, RecordsKept, FaultsKept, TypeGroupsNext DEF IssueReplay
<1>2. ASSUME NEW k \in Key, NEW h \in Hash, IssueRead(p, k, h)
      PROVE  TypeOK'
  <2>1. CallsTyped'
    BY <1>2, AcceptTyped DEF IssueRead, Request
  <2> QED
    BY <1>2, <2>1, AssetsKept, RecordsKept, FaultsKept, TypeGroupsNext DEF IssueRead
<1>3. ASSUME NEW r \in Request, CompleteReplay(p, r)
      PROVE  TypeOK'
  <2>1. r.session \in Session
    BY DEF Request
  <2>2. source[r.session] \in Source \union {NoSource}
    BY <2>1 DEF AssetsTyped
  <2>3. RecordsTyped'
    BY <1>3, <2>2, TellingTyped DEF CompleteReplay, RecordsTyped
  <2>4. CallsTyped'
    BY <1>3, <2>1, AnswerTyped DEF CompleteReplay, Result
  <2> QED
    BY <1>3, <2>3, <2>4, AssetsKept, FaultsKept, TypeGroupsNext DEF CompleteReplay
<1>4. ASSUME NEW r \in Request, CompleteStart(p, r)
      PROVE  TypeOK'
  <2>1. CallsTyped'
    BY <1>4, AcceptTyped DEF CompleteStart
  <2> QED
    BY <1>4, <2>1, AssetsKept, RecordsKept, FaultsKept, TypeGroupsNext DEF CompleteStart
<1> QED
  BY <1>1, <1>2, <1>3, <1>4 DEF CallBegins

LEMMA GoesOnTyped ==
  ASSUME TypeOK, NEW p \in Client, NEW r \in req[p], CallGoesOn(p, r)
  PROVE  TypeOK'
PROOF
<1> AssetsTyped /\ RecordsTyped /\ CallsTyped /\ FaultsTyped
  BY TypeGroups
<1> r \in Request /\ r.session \in Session
  BY DEF CallsTyped, Request
<1> taken \in [Client -> Source \union {NoSource}] /\ taken[p] \in Source \union {NoSource}
  BY DEF CallsTyped
<1>1. CASE IssueCommit(p, r)
  <2>1. CallsTyped'
    BY <1>1, AnswerTyped DEF IssueCommit, Result
  <2> QED
    BY <1>1, <2>1, IssueRowsTyped, FaultsKept, TypeGroupsNext DEF IssueCommit
<1>2. CASE IssueConflict(p, r)
  <2>1. CallsTyped'
    BY <1>2, AnswerTyped DEF IssueConflict, RecordsTyped, Result
  <2> QED
    BY <1>2, <2>1, AssetsKept, RecordsKept, FaultsKept, TypeGroupsNext DEF IssueConflict
<1>3. CASE PhaseOneExpired(p, r)
  <2>1. CallsTyped'
    BY <1>3, AnswerTyped DEF PhaseOneExpired, Result
  <2> QED
    BY <1>3, <2>1, AssetsKept, RecordsKept, FaultsKept, TypeGroupsNext DEF PhaseOneExpired
<1>4. CASE PhaseOneReplay(p, r)
  BY <1>4, ReplayTyped, TypeGroupsNext DEF PhaseOneReplay
<1>5. CASE PhaseOneRead(p, r)
  <2>1. CallsTyped'
    BY <1>5, AnswerTyped, GotoTyped DEF PhaseOneRead, Result
  <2> QED
    BY <1>5, <2>1, AssetsKept, RecordsKept, FaultsKept, TypeGroupsNext DEF PhaseOneRead
<1>6. CASE PhaseOneAccepts(p, r)
  <2>1. CallsTyped'
    BY <1>6, GotoTyped DEF PhaseOneAccepts
  <2> QED
    BY <1>6, <2>1, AcceptUploadTyped, FaultsKept, TypeGroupsNext DEF PhaseOneAccepts
<1>7. CASE PhaseOneRejects(p, r)
  <2>1. CallsTyped'
    BY <1>7, AnswerTyped DEF PhaseOneRejects, Result
  <2> QED
    BY <1>7, <2>1, RejectUploadTyped, FaultsKept, TypeGroupsNext DEF PhaseOneRejects
<1>8. CASE Canonicalize(p, r)
  <2>1. PICK x \in SnapshotOf[r.session] : taken' = [taken EXCEPT ![p] = x]
    BY <1>8 DEF Canonicalize
  <2>2. x \in Source
    BY UploadAssumption
  <2>3. taken' \in [Client -> Source \union {NoSource}]
    BY <2>1, <2>2
  <2>4. CallsTyped'
    BY <1>8, <2>3, GotoTyped DEF Canonicalize
  <2> QED
    BY <1>8, <2>4, AssetsKept, RecordsKept, FaultsKept, TypeGroupsNext DEF Canonicalize
<1>9. CASE CanonicalizeFails(p, r)
  <2>1. CallsTyped'
    BY <1>9, GotoTyped DEF CanonicalizeFails
  <2>2. FaultsTyped'
    BY <1>9, FaultTyped, UploadAssumption DEF CanonicalizeFails
  <2> QED
    BY <1>9, <2>1, <2>2, AssetsKept, RecordsKept, TypeGroupsNext DEF CanonicalizeFails
<1>10. CASE PhaseTwoReplay(p, r)
  BY <1>10, ReplayTyped, TypeGroupsNext DEF PhaseTwoReplay
<1>11. CASE PhaseTwoRead(p, r)
  <2>1. CallsTyped'
    BY <1>11, GotoTyped DEF PhaseTwoRead
  <2> QED
    BY <1>11, <2>1, AssetsKept, RecordsKept, FaultsKept, TypeGroupsNext DEF PhaseTwoRead
<1>12. CASE PhaseTwoCommit(p, r)
  <2>1. CallsTyped'
    BY <1>12, AnswerTyped DEF PhaseTwoCommit, Result
  <2>2. AssetsTyped'
    BY <1>12, PhaseTwoRowsTyped DEF PhaseTwoCommit
  <2>3. RecordsTyped'
    BY <1>12, RecordingTyped, TellingTyped DEF PhaseTwoCommit, PhaseTwoRows, RecordsTyped
  <2> QED
    BY <1>12, <2>1, <2>2, <2>3, FaultsKept, TypeGroupsNext DEF PhaseTwoCommit
<1>13. CASE PhaseTwoConflict(p, r)
  <2>1. CallsTyped'
    BY <1>13, GotoTyped DEF PhaseTwoConflict
  <2> QED
    BY <1>13, <2>1, AssetsKept, RecordsKept, FaultsKept, TypeGroupsNext DEF PhaseTwoConflict
<1>14. CASE Catch(p, r)
  <2>1. CallsTyped'
    BY <1>14, AnswerTyped DEF Catch, Result
  <2>2. AssetsTyped'
    BY <1>14 DEF Catch, AssetsTyped, VersionState
  <2> QED
    BY <1>14, <2>1, <2>2, RecordsKept, FaultsKept, TypeGroupsNext DEF Catch
<1> QED
  BY <1>1, <1>2, <1>3, <1>4, <1>5, <1>6, <1>7, <1>8, <1>9, <1>10, <1>11, <1>12, <1>13,
     <1>14 DEF CallGoesOn

LEMMA FailsTyped ==
  ASSUME TypeOK, NEW p \in Client, NEW r \in req[p], CallFails(p, r)
  PROVE  TypeOK'
PROOF
<1> AssetsTyped /\ RecordsTyped /\ CallsTyped /\ FaultsTyped
  BY TypeGroups
<1> r \in Request /\ r.session \in Session
  BY DEF CallsTyped, Request
<1> taken \in [Client -> Source \union {NoSource}] /\ taken[p] \in Source \union {NoSource}
  BY DEF CallsTyped
<1>0. FaultsTyped'
  BY FaultTyped, UploadAssumption
     DEF CallFails, IssueFails, PhaseOneFails, PhaseTwoFails, CatchFails, Crash
<1>1. CASE Answer(p, r.session, "error")
  <2>1. CallsTyped'
    BY <1>1, AnswerTyped DEF Result
  <2>2. CASE UNCHANGED <<assetVars, late, recordVars>>
    BY <1>0, <2>1, <2>2, AssetsKept, RecordsKept, TypeGroupsNext
  <2>3. CASE IssueRows(r)
    BY <1>0, <2>1, <2>3, IssueRowsTyped, TypeGroupsNext
  <2>4. CASE AcceptUpload(r)
    BY <1>0, <2>1, <2>4, AcceptUploadTyped, TypeGroupsNext
  <2>5. CASE RejectUpload(r)
    BY <1>0, <2>1, <2>5, RejectUploadTyped, TypeGroupsNext
  <2>6. CASE ReplayRows(r) /\ UNCHANGED told
    BY <1>0, <2>1, <2>6, ReplayRowsTyped, TypeGroupsNext
  <2>7. CASE PhaseTwoFails(p, r)
    <3>1. pc'[p] = "catching" /\ pc'[p] = "idle"
      BY <1>1, <2>7 DEF PhaseTwoFails, Goto, Answer, CallsTyped
    <3> QED
      BY <3>1
  <2> QED
    BY <2>2, <2>3, <2>4, <2>5, <2>6, <2>7
       DEF CallFails, IssueFails, PhaseOneFails, CatchFails, Crash
<1>2. CASE PhaseTwoFails(p, r)
  <2>1. CallsTyped'
    BY <1>2, GotoTyped DEF PhaseTwoFails
  <2>2. CASE ReplayRows(r)
    <3>1. AssetsTyped' /\ RecordsTyped'
      BY <1>2, <2>2, ReplayRowsTyped DEF PhaseTwoFails
    <3> QED
      BY <1>0, <2>1, <3>1, TypeGroupsNext
  <2>3. CASE PhaseTwoRows(p, r) \/ UNCHANGED <<assetVars, late, issued, completed>>
    <3>1. AssetsTyped'
      BY <2>3, PhaseTwoRowsTyped, AssetsKept
    <3>2. RecordsTyped'
      BY <1>2, <2>3, RecordingTyped DEF PhaseTwoFails, PhaseTwoRows, RecordsTyped
    <3> QED
      BY <1>0, <2>1, <3>1, <3>2, TypeGroupsNext
  <2> QED
    BY <1>2, <2>2, <2>3 DEF PhaseTwoFails
<1> QED
  BY <1>1, <1>2 DEF CallFails, IssueFails, PhaseOneFails, CatchFails, Crash

LEMMA OthersTyped ==
  ASSUME TypeOK, NEW s \in Session, Expire(s) \/ Workflow(s)
  PROVE  TypeOK'
PROOF
<1> AssetsTyped /\ RecordsTyped /\ CallsTyped /\ FaultsTyped
  BY TypeGroups
<1>1. CASE Expire(s)
  <2>1. AssetsTyped'
    BY <1>1 DEF Expire, AssetsTyped, assetVars, Present
  <2> QED
    BY <1>1, <2>1, RecordsKept, CallsKept, FaultsKept, TypeGroupsNext DEF Expire
<1>2. CASE Workflow(s)
  <2>1. FaultsTyped'
    BY <1>2, FaultsKept, FaultTyped, UploadAssumption
       DEF Workflow, BeginPublication, Publish, PublicationFails
  <2>2. AssetsTyped' /\ RecordsTyped' /\ CallsTyped'
    BY <1>2, MoveTyped
       DEF Workflow, BeginPublication, Publish, PublicationFails, VersionState
  <2> QED
    BY <2>1, <2>2, TypeGroupsNext
<1> QED
  BY <1>1, <1>2

\* Every row, call and record is well formed in every reachable state of
\* issueUploadSession and completeUploadSession.
THEOREM TypeCorrect == Spec => []TypeOK
PROOF
<1>1. Init => TypeOK
  BY DEF Init, TypeOK, SessionState, VersionState
<1>2. TypeOK /\ [Next]_vars => TypeOK'
  <2> SUFFICES ASSUME TypeOK, [Next]_vars
               PROVE  TypeOK'
    OBVIOUS
  <2>1. CASE UNCHANGED vars
    BY <2>1, TypeGroups, TypeGroupsNext, AssetsKept, RecordsKept, CallsKept, FaultsKept
       DEF vars, assetVars, recordVars, callVars
  <2>2. CASE Next
    BY <2>2, BeginsTyped, GoesOnTyped, FailsTyped, OthersTyped DEF Next
  <2> QED
    BY <2>1, <2>2
<1> QED
  BY <1>1, <1>2, PTL DEF Spec

-------------------------------------------------------------------------------
(* The inductive invariant.  What a step does to the rows is one of six effects; *)
(* the first three parts of UploadInv follow from the effect alone.              *)

RowParts == DispatchIsPostCanonical /\ CompletionsReplay /\ IssuedOncePerKey

\* No effect but that a replay may be recorded and told.
Replaying ==
  /\ UNCHANGED <<assetVars, issued>>
  /\ \A c \in completed' \union told' : c \in completed \union told \/ Replayable(c.session)

\* The version goes to a state that says nothing of its source, or has one.
Moving(s) ==
  /\ s \in Present
  /\ \E x \in VersionState \ {"absent"} :
       /\ ver' = [ver EXCEPT ![s] = x]
       /\ x \in {"canonical", "processing", "published"} => s \in dispatched
  /\ UNCHANGED <<source, current, dispatched, recordVars>>

LEMMA ReplayingKeeps ==
  ASSUME TypeOK, RowParts, Replaying
  PROVE  RowParts' /\ Present' = Present
PROOF
<1>1. Present' = Present
  BY DEF Replaying, assetVars, Present
<1>2. DispatchIsPostCanonical'
  BY DEF Replaying, assetVars, RowParts, DispatchIsPostCanonical
<1>3. CompletionsReplay'
  BY DEF Replaying, assetVars, RowParts, CompletionsReplay, Replayable
<1>4. IssuedOncePerKey'
  BY <1>1 DEF Replaying, assetVars, RowParts, IssuedOncePerKey
<1> QED
  BY <1>1, <1>2, <1>3, <1>4 DEF RowParts

LEMMA MovingKeeps ==
  ASSUME TypeOK, RowParts, NEW s \in Session, Moving(s)
  PROVE  RowParts' /\ Present' = Present
PROOF
<1>1. Present' = Present
  BY DEF Moving, Present, TypeOK
<1>2. DispatchIsPostCanonical'
  BY DEF Moving, RowParts, DispatchIsPostCanonical, TypeOK
<1>3. CompletionsReplay'
  BY DEF Moving, RowParts, CompletionsReplay, Replayable, recordVars
<1>4. IssuedOncePerKey'
  BY <1>1 DEF Moving, RowParts, IssuedOncePerKey, recordVars
<1> QED
  BY <1>1, <1>2, <1>3, <1>4 DEF RowParts

LEMMA IssuingKeeps ==
  ASSUME TypeOK, RowParts, NEW r \in Request, IssueRows(r),
         \A n \in Session : n < r.session => n \in Present
  PROVE  RowParts' /\ Present \subseteq Present'
PROOF
<1>1. r.session \in Session /\ r.session \notin Present
  BY DEF Request, IssueRows, Insertable
<1>2. Present' = Present \union {r.session}
  BY <1>1 DEF IssueRows, Present, TypeOK
<1>3. DispatchIsPostCanonical'
  BY <1>1 DEF IssueRows, RowParts, DispatchIsPostCanonical, TypeOK
<1>4. CompletionsReplay'
  BY DEF IssueRows, RowParts, CompletionsReplay, Replayable
<1>5. IssuedOncePerKey'
  <2> DEFINE new == [session |-> r.session, key |-> r.key, hash |-> r.hash]
  <2>1. issued' = issued \union {new}
    BY DEF IssueRows
  <2>0. new.session = r.session
    OBVIOUS
  <2> HIDE DEF new
  <2>2. Present' = {i.session : i \in issued'}
    <3>1. Present = {i.session : i \in issued}
      BY DEF RowParts, IssuedOncePerKey
    <3> QED
      BY <1>2, <2>0, <2>1, <3>1, Zenon
  <2>3. \A i \in issued : i.key # new.key /\ i.session # new.session
    BY <1>1, <2>0 DEF IssueRows, Insertable, RowParts, IssuedOncePerKey, new
  <2>4. \A i, j \in issued' : i.key = j.key \/ i.session = j.session => i = j
    BY <2>1, <2>3 DEF RowParts, IssuedOncePerKey
  <2>5. \A s \in Present' : \A n \in Session : n < s => n \in Present'
    BY <1>2 DEF RowParts, IssuedOncePerKey
  <2> QED
    BY <2>2, <2>4, <2>5 DEF IssuedOncePerKey
<1> QED
  BY <1>2, <1>3, <1>4, <1>5 DEF RowParts

LEMMA CanonicalizingKeeps ==
  ASSUME TypeOK, RowParts, NEW p \in Client, NEW r \in Request, PhaseTwoRows(p, r),
         r.session \in Present, taken[p] \in Source,
         told' = told \/ told' = Telling(r, taken[p])
  PROVE  RowParts' /\ Present' = Present
PROOF
<1>1. r.session \in Session /\ taken[p] # NoSource
  BY UploadAssumption DEF Request
<1>2. Present' = Present
  BY <1>1 DEF PhaseTwoRows, Present, TypeOK
<1>3. DispatchIsPostCanonical'
  BY <1>1 DEF PhaseTwoRows, RowParts, DispatchIsPostCanonical, TypeOK
<1>4. CompletionsReplay'
  <2>1. \A s \in Session : s = r.session \/ Replayable(s) => Replayable(s)'
    BY <1>1 DEF PhaseTwoRows, Replayable, TypeOK
  <2>2. \A c \in completed' \union told' : c \in completed \union told \/ c.session = r.session
    BY DEF PhaseTwoRows, Recording, Telling
  <2>3. \A c \in completed \union told : c.session \in Session
    BY DEF TypeOK
  <2> QED
    BY <1>1, <2>1, <2>2, <2>3 DEF RowParts, CompletionsReplay
<1>5. IssuedOncePerKey'
  BY <1>2 DEF PhaseTwoRows, RowParts, IssuedOncePerKey
<1> QED
  BY <1>2, <1>3, <1>4, <1>5 DEF RowParts

-------------------------------------------------------------------------------
(* The calls other than the one that takes the step keep what they work on. *)

\* What a step may do to the call that takes it.
Advancing(p) ==
  /\ \A q \in Client \ {p} : pc'[q] = pc[q] /\ req'[q] = req[q] /\ taken'[q] = taken[q]
  /\ Grounded(p)'

LEMMA GroundedKept ==
  ASSUME Present \subseteq Present', NEW q \in Client, Grounded(q),
         pc'[q] = pc[q], req'[q] = req[q], taken'[q] = taken[q]
  PROVE  Grounded(q)'
  BY DEF Grounded

LEMMA AdvancingKeeps ==
  ASSUME CallsGrounded, Present \subseteq Present', NEW p \in Client, Advancing(p)
  PROVE  CallsGrounded'
  BY GroundedKept DEF CallsGrounded, Advancing

LEMMA AnswerAdvances ==
  ASSUME TypeOK, NEW p \in Client, NEW s, NEW result, Answer(p, s, result)
  PROVE  Advancing(p)
PROOF
<1>1. req'[p] = {} /\ pc'[p] = "idle"
  BY DEF Answer, TypeOK
<1>2. \A q \in Client \ {p} : pc'[q] = pc[q] /\ req'[q] = req[q] /\ taken'[q] = taken[q]
  BY DEF Answer, TypeOK
<1> QED
  BY <1>1, <1>2 DEF Advancing, Grounded

LEMMA GotoAdvances ==
  ASSUME TypeOK, CallsGrounded, Present \subseteq Present', NEW p \in Client,
         NEW label \in {"phase_one_write", "canonicalizing", "phase_two",
                        "phase_two_write", "catching"}, Goto(p, label),
         pc[p] \notin {"idle", "issuing"},
         label \in {"phase_two", "phase_two_write"} =>
           \A r \in req[p] : taken'[p] \in SnapshotOf[r.session],
         \A q \in Client \ {p} : taken'[q] = taken[q]
  PROVE  Advancing(p)
PROOF
<1>1. req' = req /\ pc'[p] = label /\ \A q \in Client \ {p} : pc'[q] = pc[q]
  BY DEF Goto, TypeOK
<1>2. Grounded(p)
  BY DEF CallsGrounded
<1>3. Grounded(p)'
  BY <1>1, <1>2 DEF Grounded
<1> QED
  BY <1>1, <1>3 DEF Advancing

LEMMA AcceptAdvances ==
  ASSUME TypeOK, NEW p \in Client, NEW r \in Request, NEW label \in {"issuing", "phase_one"},
         Accept(p, r, label),
         label = "phase_one" => r.session \in Present',
         label = "issuing" => \A n \in Session : n < r.session => n \in Present'
  PROVE  Advancing(p)
PROOF
<1>1. req'[p] = {r} /\ pc'[p] = label
  BY DEF Accept, TypeOK
<1>2. \A q \in Client \ {p} : pc'[q] = pc[q] /\ req'[q] = req[q] /\ taken'[q] = taken[q]
  BY DEF Accept, TypeOK
<1>3. Grounded(p)'
  BY <1>1 DEF Grounded
<1> QED
  BY <1>2, <1>3 DEF Advancing

-------------------------------------------------------------------------------
(* UploadInv, action by action. *)

LEMMA InvParts == UploadInv <=> RowParts /\ CallsGrounded
  BY DEF UploadInv, RowParts

LEMMA CallStepKeeps ==
  ASSUME UploadInv, NEW p \in Client, RowParts', Present \subseteq Present', Advancing(p)
  PROVE  UploadInv'
PROOF
<1>1. CallsGrounded'
  BY AdvancingKeeps, InvParts
<1> QED
  BY <1>1 DEF UploadInv, RowParts

LEMMA RowsUntouched ==
  UNCHANGED <<assetVars, recordVars>> => Replaying
  BY DEF assetVars, recordVars, Replaying

LEMMA AcceptingMoves ==
  ASSUME NEW r \in Request, AcceptUpload(r), r.session \in Present
  PROVE  Moving(r.session)
PROOF
<1>1. ver' = [ver EXCEPT ![r.session] = "canonicalizing"]
  BY DEF AcceptUpload
<1>2. "canonicalizing" \in VersionState \ {"absent"}
      /\ "canonicalizing" \notin {"canonical", "processing", "published"}
  BY DEF VersionState
<1>3. UNCHANGED <<source, current, dispatched, recordVars>>
  BY DEF AcceptUpload
<1> QED
  BY <1>1, <1>2, <1>3 DEF Moving

LEMMA RejectingMoves ==
  ASSUME NEW r \in Request, RejectUpload(r), r.session \in Present
  PROVE  Moving(r.session)
PROOF
<1>1. ver' = [ver EXCEPT ![r.session] = "failed_validation"]
      /\ UNCHANGED <<source, current, dispatched, recordVars>>
  BY DEF RejectUpload
<1>2. "failed_validation" \in VersionState \ {"absent"}
      /\ "failed_validation" \notin {"canonical", "processing", "published"}
  BY DEF VersionState
<1> QED
  BY <1>1, <1>2 DEF Moving

LEMMA ReplayReplays ==
  ASSUME NEW r \in Request, ReplayRows(r),
         told' = told \/ told' = Telling(r, source[r.session])
  PROVE  Replaying
  BY DEF ReplayRows, Replaying, Recording, Telling, Recorded

LEMMA BeginsKeep ==
  ASSUME TypeOK, UploadInv, NEW p \in Client, CallBegins(p)
  PROVE  UploadInv'
PROOF
<1> RowParts
  BY InvParts
<1>1. ASSUME NEW k \in Key, NEW h \in Hash, IssueReplay(p, k, h)
      PROVE  UploadInv'
  <2>1. Advancing(p)
    BY <1>1, AnswerAdvances DEF IssueReplay
  <2> QED
    BY <1>1, <2>1, RowsUntouched, ReplayingKeeps, CallStepKeeps DEF IssueReplay
<1>2. ASSUME NEW k \in Key, NEW h \in Hash, IssueRead(p, k, h)
      PROVE  UploadInv'
  <2>1. RowParts' /\ Present' = Present
    BY <1>2, RowsUntouched, ReplayingKeeps DEF IssueRead
  <2>2. PICK n \in Session :
          /\ n = 1 \/ n - 1 \in Present
          /\ Accept(p, [session |-> n, key |-> k, hash |-> h, valid |-> TRUE], "issuing")
    BY <1>2 DEF IssueRead
  <2>3. \A m \in Session : m < n => m \in Present
    <3> SUFFICES ASSUME NEW m \in Session, m < n
                 PROVE  m \in Present
      OBVIOUS
    <3>1. n - 1 \in Present /\ (m = n - 1 \/ m < n - 1)
      BY <2>2 DEF Session
    <3> QED
      BY <3>1 DEF RowParts, IssuedOncePerKey
  <2>4. Advancing(p)
    BY <2>1, <2>2, <2>3, AcceptAdvances DEF Request
  <2> QED
    BY <2>1, <2>4, CallStepKeeps
<1>3. ASSUME NEW r \in Request, CompleteReplay(p, r)
      PROVE  UploadInv'
  <2>1. Advancing(p)
    BY <1>3, AnswerAdvances DEF CompleteReplay
  <2>2. Replaying
    BY <1>3 DEF CompleteReplay, Replaying, Telling, assetVars
  <2> QED
    BY <2>1, <2>2, ReplayingKeeps, CallStepKeeps
<1>4. ASSUME NEW r \in Request, CompleteStart(p, r)
      PROVE  UploadInv'
  <2>1. RowParts' /\ Present' = Present
    BY <1>4, RowsUntouched, ReplayingKeeps DEF CompleteStart
  <2>2. Advancing(p)
    BY <1>4, <2>1, AcceptAdvances DEF CompleteStart
  <2> QED
    BY <2>1, <2>2, CallStepKeeps
<1> QED
  BY <1>1, <1>2, <1>3, <1>4 DEF CallBegins

LEMMA GoesOnKeep ==
  ASSUME TypeOK, UploadInv, NEW p \in Client, NEW r \in req[p], CallGoesOn(p, r)
  PROVE  UploadInv'
PROOF
<1> RowParts /\ CallsGrounded /\ Grounded(p)
  BY InvParts DEF CallsGrounded
<1> r \in Request /\ r.session \in Session
  BY DEF TypeOK, Request
<1> pc[p] \notin {"idle", "issuing"} => r.session \in Present
  BY DEF Grounded
<1>1. CASE IssueCommit(p, r)
  <2>1. Advancing(p)
    BY <1>1, AnswerAdvances DEF IssueCommit
  <2>2. RowParts' /\ Present \subseteq Present'
    BY <1>1, IssuingKeeps DEF IssueCommit, Grounded
  <2> QED
    BY <2>1, <2>2, CallStepKeeps
<1>2. CASE IssueConflict(p, r) \/ PhaseOneExpired(p, r)
  <2>1. Advancing(p)
    BY <1>2, AnswerAdvances DEF IssueConflict, PhaseOneExpired
  <2> QED
    BY <1>2, <2>1, RowsUntouched, ReplayingKeeps, CallStepKeeps
       DEF IssueConflict, PhaseOneExpired
<1>3. CASE PhaseOneReplay(p, r) \/ PhaseTwoReplay(p, r)
  <2>1. Replaying /\ Advancing(p)
    BY <1>3, ReplayReplays, AnswerAdvances DEF PhaseOneReplay, PhaseTwoReplay, Replay
  <2> QED
    BY <2>1, ReplayingKeeps, CallStepKeeps
<1>4. CASE PhaseOneRead(p, r)
  <2>1. RowParts' /\ Present' = Present
    BY <1>4, RowsUntouched, ReplayingKeeps DEF PhaseOneRead
  <2>2. Advancing(p)
    BY <1>4, <2>1, AnswerAdvances, GotoAdvances DEF PhaseOneRead
  <2> QED
    BY <2>1, <2>2, CallStepKeeps
<1>5. CASE PhaseOneAccepts(p, r)
  <2>1. Moving(r.session)
    BY <1>5, AcceptingMoves DEF PhaseOneAccepts
  <2>2. RowParts' /\ Present' = Present
    BY <2>1, MovingKeeps
  <2>3. Advancing(p)
    BY <1>5, <2>2, GotoAdvances DEF PhaseOneAccepts
  <2> QED
    BY <2>2, <2>3, CallStepKeeps
<1>6. CASE PhaseOneRejects(p, r) \/ Catch(p, r)
  <2>1. Moving(r.session)
    BY <1>6, RejectingMoves DEF PhaseOneRejects, Catch, Moving, VersionState
  <2>2. Advancing(p)
    BY <1>6, AnswerAdvances DEF PhaseOneRejects, Catch
  <2> QED
    BY <2>1, <2>2, MovingKeeps, CallStepKeeps
<1>7. CASE Canonicalize(p, r)
  <2>1. RowParts' /\ Present' = Present
    BY <1>7, RowsUntouched, ReplayingKeeps DEF Canonicalize
  <2>2. PICK x \in SnapshotOf[r.session] : taken' = [taken EXCEPT ![p] = x]
    BY <1>7 DEF Canonicalize
  <2>3. taken'[p] = x /\ \A q \in Client \ {p} : taken'[q] = taken[q]
    BY <2>2 DEF TypeOK
  <2>4. \A q \in req[p] : q = r
    BY DEF Grounded
  <2>5. Advancing(p)
    BY <1>7, <2>1, <2>3, <2>4, GotoAdvances DEF Canonicalize
  <2> QED
    BY <2>1, <2>5, CallStepKeeps
<1>8. CASE CanonicalizeFails(p, r) \/ PhaseTwoRead(p, r) \/ PhaseTwoConflict(p, r)
  <2>1. RowParts' /\ Present' = Present
    BY <1>8, RowsUntouched, ReplayingKeeps
       DEF CanonicalizeFails, PhaseTwoRead, PhaseTwoConflict
  <2>2. CASE CanonicalizeFails(p, r) \/ PhaseTwoConflict(p, r)
    <3>1. Advancing(p)
      BY <2>1, <2>2, GotoAdvances DEF CanonicalizeFails, PhaseTwoConflict
    <3> QED
      BY <2>1, <3>1, CallStepKeeps
  <2>3. CASE PhaseTwoRead(p, r)
    <3>1. \A q \in req[p] : taken'[p] \in SnapshotOf[q.session]
      BY <2>3 DEF PhaseTwoRead, Grounded
    <3>2. Advancing(p)
      BY <2>1, <2>3, <3>1, GotoAdvances DEF PhaseTwoRead
    <3> QED
      BY <2>1, <3>2, CallStepKeeps
  <2> QED
    BY <1>8, <2>2, <2>3
<1>9. CASE PhaseTwoCommit(p, r)
  <2>1. taken[p] \in Source
    BY <1>9, UploadAssumption DEF PhaseTwoCommit, Grounded
  <2>2. RowParts' /\ Present' = Present
    BY <1>9, <2>1, CanonicalizingKeeps DEF PhaseTwoCommit
  <2>3. Advancing(p)
    BY <1>9, AnswerAdvances DEF PhaseTwoCommit
  <2> QED
    BY <2>2, <2>3, CallStepKeeps
<1> QED
  BY <1>1, <1>2, <1>3, <1>4, <1>5, <1>6, <1>7, <1>8, <1>9 DEF CallGoesOn

LEMMA FailsKeep ==
  ASSUME TypeOK, UploadInv, NEW p \in Client, NEW r \in req[p], CallFails(p, r)
  PROVE  UploadInv'
PROOF
<1> RowParts /\ CallsGrounded /\ Grounded(p)
  BY InvParts DEF CallsGrounded
<1> r \in Request /\ r.session \in Session
  BY DEF TypeOK, Request
<1> pc[p] \notin {"idle", "issuing"} => r.session \in Present
  BY DEF Grounded
<1>1. CASE IssueFails(p, r) \/ PhaseOneFails(p, r) \/ CatchFails(p, r) \/ Crash(p, r)
  <2>1. Advancing(p)
    BY <1>1, AnswerAdvances DEF IssueFails, PhaseOneFails, CatchFails, Crash
  <2>2. CASE UNCHANGED <<assetVars, recordVars>>
    BY <2>1, <2>2, RowsUntouched, ReplayingKeeps, CallStepKeeps
  <2>3. CASE pc[p] = "issuing" /\ IssueRows(r)
    BY <2>1, <2>3, IssuingKeeps, CallStepKeeps DEF Grounded
  <2>4. CASE pc[p] = "phase_one_write" /\ AcceptUpload(r)
    <3>1. Moving(r.session)
      BY <2>4, AcceptingMoves
    <3> QED
      BY <2>1, <3>1, MovingKeeps, CallStepKeeps
  <2>5. CASE pc[p] = "phase_one_write" /\ RejectUpload(r)
    <3>1. Moving(r.session)
      BY <2>5, RejectingMoves
    <3> QED
      BY <2>1, <3>1, MovingKeeps, CallStepKeeps
  <2>6. CASE ReplayRows(r) /\ UNCHANGED told
    BY <2>1, <2>6, ReplayReplays, ReplayingKeeps, CallStepKeeps
  <2> QED
    BY <1>1, <2>2, <2>3, <2>4, <2>5, <2>6 DEF IssueFails, PhaseOneFails, CatchFails, Crash
<1>2. CASE PhaseTwoFails(p, r)
  <2>1. RowParts' /\ Present' = Present
    <3>1. CASE pc[p] = "phase_two_write" /\ PhaseTwoRows(p, r)
      <4>1. taken[p] \in Source
        BY <3>1, UploadAssumption DEF Grounded
      <4> QED
        BY <1>2, <3>1, <4>1, CanonicalizingKeeps DEF PhaseTwoFails
    <3>2. CASE UNCHANGED <<assetVars, late, issued, completed>>
      BY <1>2, <3>2, RowsUntouched, ReplayingKeeps DEF PhaseTwoFails, recordVars
    <3>3. CASE ReplayRows(r)
      BY <1>2, <3>3, ReplayReplays, ReplayingKeeps DEF PhaseTwoFails
    <3> QED
      BY <1>2, <3>1, <3>2, <3>3 DEF PhaseTwoFails
  <2>2. Advancing(p)
    BY <1>2, <2>1, GotoAdvances DEF PhaseTwoFails
  <2> QED
    BY <2>1, <2>2, CallStepKeeps
<1> QED
  BY <1>1, <1>2 DEF CallFails

LEMMA OthersKeep ==
  ASSUME TypeOK, UploadInv, NEW s \in Session, Expire(s) \/ Workflow(s)
  PROVE  UploadInv'
PROOF
<1> RowParts /\ CallsGrounded
  BY InvParts
<1>1. RowParts' /\ Present' = Present
  <2>1. CASE Expire(s)
    BY <2>1, RowsUntouched, ReplayingKeeps DEF Expire
  <2>2. CASE Workflow(s)
    <3>1. s \in Present
      <4>1. ver[s] # "absent"
        BY <2>2 DEF Workflow, BeginPublication, Publish, PublicationFails, Move
      <4> QED
        BY <4>1 DEF Present
    <3>2. Moving(s)
      BY <2>2, <3>1
         DEF Workflow, BeginPublication, Publish, PublicationFails, Move, Moving, VersionState
    <3> QED
      BY <3>2, MovingKeeps
  <2> QED
    BY <2>1, <2>2
<1>2. UNCHANGED callVars
  BY DEF Expire, Workflow, BeginPublication, Publish, PublicationFails, Move
<1>3. CallsGrounded'
  BY <1>1, <1>2, GroundedKept DEF CallsGrounded, callVars
<1> QED
  BY <1>1, <1>3 DEF UploadInv, RowParts

\* The inductive invariant of issueUploadSession and completeUploadSession: rows, records
\* and what each call carries between its transactions.
THEOREM UploadInvariant == Spec => []UploadInv
PROOF
<1>1. Init => UploadInv
  BY DEF Init, UploadInv, DispatchIsPostCanonical, CompletionsReplay, IssuedOncePerKey,
         CallsGrounded, Grounded, Present
<1>2. TypeOK /\ UploadInv /\ [Next]_vars => UploadInv'
  <2> SUFFICES ASSUME TypeOK, UploadInv, [Next]_vars
               PROVE  UploadInv'
    OBVIOUS
  <2>1. CASE UNCHANGED vars
    <3>1. RowParts' /\ Present' = Present
      BY <2>1, InvParts, RowsUntouched, ReplayingKeeps DEF vars, assetVars, recordVars
    <3>2. CallsGrounded'
      BY <2>1, <3>1, GroundedKept, InvParts DEF CallsGrounded, vars
    <3> QED
      BY <3>1, <3>2 DEF UploadInv, RowParts
  <2>2. CASE Next
    BY <2>2, BeginsKeep, GoesOnKeep, FailsKeep, OthersKeep DEF Next
  <2> QED
    BY <2>1, <2>2
<1> QED
  BY <1>1, <1>2, TypeCorrect, PTL DEF Spec

\* docs/idempotency-and-dispatch.md section 5: under any interleaving of calls, faults
\* and crashes the dispatch row, the canonical source and the asset's pointer come
\* into being together.
THEOREM DispatchesArePostCanonical == Spec => []DispatchIsPostCanonical
PROOF
<1>1. UploadInv => DispatchIsPostCanonical
  BY DEF UploadInv
<1> QED
  BY <1>1, UploadInvariant, PTL

\* loadCompletionReplay never fails on a recorded key: what a caller was told, a retry
\* finds again.
THEOREM RecordedCompletionsReplay == Spec => []CompletionsReplay
PROOF
<1>1. UploadInv => CompletionsReplay
  BY DEF UploadInv
<1> QED
  BY <1>1, UploadInvariant, PTL

\* issueUploadSession makes one session per idempotency key and numbers the versions of
\* the asset without a gap, however calls race.
THEOREM SessionsIssuedOnce == Spec => []IssuedOncePerKey
PROOF
<1>1. UploadInv => IssuedOncePerKey
  BY DEF UploadInv
<1> QED
  BY <1>1, UploadInvariant, PTL

-------------------------------------------------------------------------------
(* The refinement.  No step takes a version back, and a dispatch row is only made for a *)
(* version that was there before the step.                                              *)

Forward ==
  /\ Present \subseteq Present'
  /\ dispatched \subseteq dispatched'
  /\ dispatched' \subseteq dispatched \union Present
  /\ told \subseteq told'

LEMMA UntouchedForward ==
  ASSUME UNCHANGED assetVars, told \subseteq told'
  PROVE  Forward
  BY DEF Forward, assetVars, Present

LEMMA MovingForward ==
  ASSUME TypeOK, NEW s \in Session, Moving(s)
  PROVE  Forward
PROOF
<1>1. UNCHANGED <<dispatched, told>>
  BY DEF Moving, recordVars
<1>2. Present \subseteq Present'
  BY DEF Moving, Present, TypeOK
<1> QED
  BY <1>1, <1>2 DEF Forward

LEMMA IssueRowsForward ==
  ASSUME TypeOK, NEW r \in Request, IssueRows(r)
  PROVE  Forward
PROOF
<1>1. Present \subseteq Present'
  BY DEF IssueRows, Present, TypeOK
<1> QED
  BY <1>1 DEF IssueRows, Forward

LEMMA PhaseTwoRowsForward ==
  ASSUME TypeOK, NEW p \in Client, NEW r \in Request, PhaseTwoRows(p, r),
         r.session \in Present, told \subseteq told'
  PROVE  Forward
PROOF
<1>1. Present \subseteq Present'
  BY DEF PhaseTwoRows, Present, TypeOK
<1> QED
  BY <1>1 DEF PhaseTwoRows, Forward

LEMMA BeginsForward ==
  ASSUME NEW p \in Client, CallBegins(p)
  PROVE  Forward
PROOF
<1>1. UNCHANGED assetVars
  BY DEF CallBegins, IssueReplay, IssueRead, CompleteReplay, CompleteStart
<1>2. told \subseteq told'
  BY DEF CallBegins, IssueReplay, IssueRead, CompleteReplay, CompleteStart, recordVars, Telling
<1> QED
  BY <1>1, <1>2, UntouchedForward

LEMMA GoesOnForward ==
  ASSUME TypeOK, UploadInv, NEW p \in Client, NEW r \in req[p], CallGoesOn(p, r)
  PROVE  Forward
PROOF
<1> r \in Request /\ r.session \in Session
  BY DEF TypeOK, Request
<1> pc[p] \notin {"idle", "issuing"} => r.session \in Present
  BY DEF UploadInv, CallsGrounded, Grounded
<1>1. CASE IssueCommit(p, r)
  BY <1>1, IssueRowsForward DEF IssueCommit
<1>2. CASE PhaseOneReplay(p, r) \/ PhaseTwoReplay(p, r)
  BY <1>2, UntouchedForward DEF PhaseOneReplay, PhaseTwoReplay, Replay, ReplayRows, Telling
<1>3. CASE PhaseOneAccepts(p, r)
  BY <1>3, AcceptingMoves, MovingForward DEF PhaseOneAccepts
<1>4. CASE PhaseOneRejects(p, r) \/ Catch(p, r)
  <2>1. Moving(r.session)
    BY <1>4, RejectingMoves DEF PhaseOneRejects, Catch, Moving, VersionState
  <2> QED
    BY <2>1, MovingForward
<1>5. CASE PhaseTwoCommit(p, r)
  BY <1>5, PhaseTwoRowsForward DEF PhaseTwoCommit, Telling
<1>6. CASE UNCHANGED <<assetVars, recordVars>>
  BY <1>6, UntouchedForward DEF recordVars
<1> QED
  BY <1>1, <1>2, <1>3, <1>4, <1>5, <1>6
     DEF CallGoesOn, IssueConflict, PhaseOneExpired, PhaseOneRead, Canonicalize,
         CanonicalizeFails, PhaseTwoRead, PhaseTwoConflict

LEMMA FailsForward ==
  ASSUME TypeOK, UploadInv, NEW p \in Client, NEW r \in req[p], CallFails(p, r)
  PROVE  Forward
PROOF
<1> r \in Request /\ r.session \in Session
  BY DEF TypeOK, Request
<1> pc[p] \notin {"idle", "issuing"} => r.session \in Present
  BY DEF UploadInv, CallsGrounded, Grounded
<1>1. CASE UNCHANGED <<assetVars, told>>
  BY <1>1, UntouchedForward
<1>2. CASE IssueRows(r)
  BY <1>2, IssueRowsForward
<1>3. CASE pc[p] = "phase_one_write" /\ AcceptUpload(r)
  BY <1>3, AcceptingMoves, MovingForward
<1>4. CASE pc[p] = "phase_two_write" /\ PhaseTwoRows(p, r) /\ UNCHANGED told
  BY <1>4, PhaseTwoRowsForward
<1>5. CASE pc[p] = "phase_one_write" /\ RejectUpload(r)
  BY <1>5, RejectingMoves, MovingForward
<1>6. CASE ReplayRows(r) /\ UNCHANGED told
  BY <1>6, UntouchedForward DEF ReplayRows
<1> QED
  BY <1>1, <1>2, <1>3, <1>4, <1>5, <1>6
     DEF CallFails, IssueFails, PhaseOneFails, PhaseTwoFails, CatchFails, Crash, recordVars

LEMMA OthersForward ==
  ASSUME TypeOK, NEW s \in Session, Expire(s) \/ Workflow(s)
  PROVE  Forward
PROOF
<1>1. CASE Expire(s)
  BY <1>1, UntouchedForward DEF Expire, recordVars
<1>2. CASE Workflow(s)
  <2>1. ver[s] # "absent"
    BY <1>2 DEF Workflow, BeginPublication, Publish, PublicationFails, Move
  <2>2. Moving(s)
    BY <1>2, <2>1
       DEF Workflow, BeginPublication, Publish, PublicationFails, Move, Moving, Present,
           VersionState
  <2> QED
    BY <2>2, MovingForward
<1> QED
  BY <1>1, <1>2

LEMMA StepsForward == TypeOK /\ UploadInv /\ [Next]_vars => Forward
PROOF
<1> SUFFICES ASSUME TypeOK, UploadInv, [Next]_vars
             PROVE  Forward
  OBVIOUS
<1>1. CASE UNCHANGED vars
  BY <1>1, UntouchedForward DEF vars, assetVars
<1>2. CASE Next
  BY <1>2, BeginsForward, GoesOnForward, FailsForward, OthersForward DEF Next
<1> QED
  BY <1>1, <1>2

\* No transaction takes back a session, a dispatch row or what a caller was told, and a row
\* is only made for a version that was there: over the tables, whatever the states say.
THEOREM GoesForward == Spec => [][Forward]_vars
PROOF
<1>1. TypeOK /\ UploadInv /\ [Next]_vars => [Forward]_vars
  BY StepsForward
<1> QED
  BY <1>1, TypeCorrect, UploadInvariant, PTL DEF Spec

\* Only versions that issueUploadSession made have a dispatch row.
THEOREM DispatchedArePresent == Spec => [](dispatched \subseteq Present)
PROOF
<1>1. Init => dispatched \subseteq Present
  BY DEF Init
<1>2. TypeOK /\ UploadInv /\ dispatched \subseteq Present /\ [Next]_vars
        => (dispatched \subseteq Present)'
  BY StepsForward DEF Forward
<1> QED
  BY <1>1, <1>2, TypeCorrect, UploadInvariant, PTL DEF Spec

LEMMA ForwardKeeps ==
  ASSUME Forward, UploadInv, UploadInv', TypeOK', dispatched \subseteq Present
  PROVE  Contract!Keep
PROOF
<1> SUFFICES ASSUME NEW s \in Session
             PROVE  Contract!Advance(s) /\ Contract!Tell(s)
  BY DEF Contract!Keep
<1>1. Contract!Advance(s)
  BY DEF Contract!Advance, Contract!Delivered, Stage, Forward
<1>2. told' # {} /\ 2 \in StagesTold(s)' => s \in dispatched'
  <2> SUFFICES ASSUME NEW t \in told', t.session = s
               PROVE  s \in dispatched'
    BY DEF StagesTold
  <2> QED
    BY DEF UploadInv, CompletionsReplay, Replayable
<1>3. StagesTold(s) \subseteq StagesTold(s)' /\ StagesTold(s)' \subseteq {2}
  BY DEF StagesTold, Forward
<1>4. StagesTold(s)' # {} => Stage(s)' = 2
  BY <1>2 DEF StagesTold, Stage
<1>5. Contract!Tell(s)
  BY <1>3, <1>4 DEF Contract!Tell, Contract!Issued
<1> QED
  BY <1>1, <1>5

\* VersionContract: whatever calls overlap, fail or die, a version only ever advances, one
\* stage at a time, and callers are told of no more than is in the tables.
THEOREM UploadImplementsContract == Spec => ImplementsContract
PROOF
<1>1. Init => Contract!CInit
  BY DEF Init, Contract!CInit, Contract!None, Stage, StagesTold, Present
<1>2. TypeOK /\ UploadInv /\ dispatched \subseteq Present /\ [Next]_vars /\ UploadInv' /\ TypeOK'
        => [Contract!CNext]_(Contract!contractVars)
  BY StepsForward, ForwardKeeps DEF Contract!CNext
<1> QED
  BY <1>1, <1>2, TypeCorrect, UploadInvariant, DispatchedArePresent, PTL
     DEF Spec, ImplementsContract, Contract!CSpec

===============================================================================
