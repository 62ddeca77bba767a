-------------------------- MODULE UploadInTurnProofs ---------------------------
(***************************************************************************)
(* Proofs about UploadSession when calls come one after another, for any   *)
(* number of versions, keys, hashes, sources and faults: what overlapping  *)
(* calls break (MCUploadIdentity) holds then.  A call that dies leaves its *)
(* version where it was, and the calls after it start from there.          *)
(***************************************************************************)
EXTENDS UploadSessionProofs

\* At most one call at a time.
InTurn == \A p, q \in Client : p = q

Faulted == \E f \in DOMAIN faults : faults[f] > 0

\* What may bring version s to failed_retryable.
Explained(s) == Faulted \/ SourceTaken(s)

Triple(r) == [session |-> r.session, key |-> r.key, hash |-> r.hash]

\* A completion finds nothing recorded under its key until it records it itself.
Unrecorded(p) ==
  pc[p] \in {"phase_one", "phase_one_write", "canonicalizing", "phase_two", "phase_two_write"}
    => \A r \in req[p] : Recorded(r) = {}

\* Once past its first read, it works on a version that has no dispatch row, and from its
\* first write on the version waits for it.
Waiting(p) ==
  \A r \in req[p] :
    /\ pc[p] \in {"phase_one_write", "canonicalizing", "phase_two", "phase_two_write"}
         => r.session \notin dispatched
    /\ pc[p] \in {"canonicalizing", "phase_two", "phase_two_write"}
         => ver[r.session] = "canonicalizing"

\* It comes to the catch block because something failed or another version has its id,
\* over a completed version only when the answer of a transaction was lost.
Catching(p) ==
  pc[p] = "catching" =>
    /\ \A r \in req[p] : Explained(r.session)
    /\ MaxDbFaults = 0 => \A r \in req[p] : r.session \notin dispatched

RecordedOnce ==
  \A c, d \in completed : c.session = d.session /\ c.key = d.key => c = d

ToldIsRecorded == \A t \in told : Triple(t) \in completed

TurnInv ==
  /\ \A p \in Client : Unrecorded(p) /\ Waiting(p) /\ Catching(p)
  /\ RecordedOnce
  /\ ToldIsRecorded
  /\ RetryableIsExplained

-------------------------------------------------------------------------------
(* What a step does to the rows, the records and the faults. *)

LEMMA FaultCounts ==
  ASSUME TypeOK, NEW kind \in {"repository", "workflow", "db", "crash"}, NEW bound \in Nat,
         Fault(kind, bound)
  PROVE  Faulted'
PROOF
<1>1. faults'[kind] = faults[kind] + 1 /\ faults[kind] \in Nat /\ kind \in DOMAIN faults'
  BY DEF Fault, TypeOK
<1> QED
  BY <1>1 DEF Faulted

\* Nothing is recorded or told, or a request that had no record, or one that has it is told.
Recordings ==
  \/ UNCHANGED <<completed, told>>
  \/ \E r \in Request :
       /\ Recorded(r) = {}
       /\ completed' = Recording(r)
       /\ told' = told \/ \E x : told' = Telling(r, x)
  \/ \E r \in Request :
       /\ Triple(r) \in completed
       /\ completed' = completed
       /\ \E x : told' = Telling(r, x)

LEMMA RecordingsKeep ==
  ASSUME RecordedOnce, ToldIsRecorded, Recordings
  PROVE  RecordedOnce' /\ ToldIsRecorded'
PROOF
<1>1. CASE UNCHANGED <<completed, told>>
  BY <1>1 DEF RecordedOnce, ToldIsRecorded
<1>2. ASSUME NEW r \in Request, NEW x, told' = told \/ told' = Telling(r, x),
             completed' = completed \/ (Recorded(r) = {} /\ completed' = Recording(r)),
             Triple(r) \in completed'
      PROVE  RecordedOnce' /\ ToldIsRecorded'
  <2>1. completed \subseteq completed' /\ completed' \subseteq completed \union {Triple(r)}
    BY <1>2 DEF Recording, Triple
  <2>2. ToldIsRecorded'
    <3> SUFFICES ASSUME NEW t \in told'
                 PROVE  Triple(t) \in completed'
      BY DEF ToldIsRecorded, Triple
    <3>1. CASE t \in told
      BY <2>1, <3>1 DEF ToldIsRecorded
    <3>2. CASE t \notin told
      <4>1. t = [session |-> r.session, key |-> r.key, hash |-> r.hash, source |-> x]
        BY <1>2, <3>2 DEF Telling
      <4>2. Triple(t) = Triple(r)
        BY <4>1 DEF Triple
      <4> QED
        BY <1>2, <4>2
    <3> QED
      BY <3>1, <3>2
  <2>3. CASE completed' = completed
    BY <2>2, <2>3 DEF RecordedOnce
  <2>4. CASE Recorded(r) = {}
    <3>1. \A c \in completed : ~(c.session = Triple(r).session /\ c.key = Triple(r).key)
      BY <2>4 DEF Recorded, Triple
    <3> QED
      BY <2>1, <2>2, <3>1 DEF RecordedOnce
  <2> QED
    BY <1>2, <2>3, <2>4
<1>3. \A r \in Request : Triple(r) \in Recording(r)
  BY DEF Recording, Triple
<1> QED
  BY <1>1, <1>2, <1>3 DEF Recordings

\* A source that a version has is not taken back: what explains a failure stays.
SourceStays == \A s \in Session : source[s] # NoSource => source'[s] = source[s]

LEMMA ExplainedStays ==
  ASSUME SourceStays, Faulted => Faulted'
  PROVE  \A s \in Session : Explained(s) => Explained(s)'
PROOF
<1> SUFFICES ASSUME NEW s \in Session, SourceTaken(s)
             PROVE  SourceTaken(s)'
  BY DEF Explained
<1>1. PICK t \in Session \ {s} : source[t] \in SnapshotOf[s]
  BY DEF SourceTaken
<1>2. source[t] # NoSource
  BY <1>1, UploadAssumption
<1> QED
  BY <1>1, <1>2 DEF SourceStays, SourceTaken

LEMMA RetryableKept ==
  ASSUME RetryableIsExplained, SourceStays, Faulted => Faulted',
         \A s \in Session : ver'[s] = "failed_retryable" =>
           ver[s] = "failed_retryable" \/ Explained(s)'
  PROVE  RetryableIsExplained'
PROOF
<1>1. \A s \in Session : ver[s] = "failed_retryable" => Explained(s)
  BY DEF RetryableIsExplained, Explained, Faulted
<1>2. \A s \in Session : ver'[s] = "failed_retryable" => Explained(s)'
  BY <1>1, ExplainedStays
<1> QED
  BY <1>2 DEF RetryableIsExplained, Explained, Faulted

\* The parts of TurnInv about rows and records, and the part about the one call there is.
RowTurn == RecordedOnce /\ ToldIsRecorded /\ RetryableIsExplained
CallTurn(p) == Unrecorded(p) /\ Waiting(p) /\ Catching(p)

LEMMA TurnParts == TurnInv <=> RowTurn /\ \A p \in Client : CallTurn(p)
  BY DEF TurnInv, RowTurn, CallTurn

LEMMA OneCall ==
  ASSUME InTurn, NEW p \in Client, RowTurn', CallTurn(p)'
  PROVE  TurnInv'
PROOF
<1>1. \A q \in Client : q = p
  BY DEF InTurn
<1> QED
  BY <1>1 DEF TurnInv, RowTurn, CallTurn

LEMMA RowsKept ==
  ASSUME RowTurn, UNCHANGED <<assetVars, recordVars>>, Faulted => Faulted'
  PROVE  RowTurn'
PROOF
<1>1. Recordings /\ UNCHANGED <<ver, source>>
  BY DEF Recordings, assetVars, recordVars
<1>2. SourceStays
  BY <1>1 DEF SourceStays
<1> QED
  BY <1>1, <1>2, RecordingsKeep, RetryableKept DEF RowTurn

\* A call that has ended owes nothing.
LEMMA AnswerEnds ==
  ASSUME TypeOK, NEW p \in Client, NEW s, NEW result, Answer(p, s, result)
  PROVE  CallTurn(p)'
PROOF
<1>1. req'[p] = {} /\ pc'[p] = "idle"
  BY DEF Answer, TypeOK
<1> QED
  BY <1>1 DEF CallTurn, Unrecorded, Waiting, Catching

LEMMA FaultedStays == UNCHANGED faults => (Faulted => Faulted')
  BY DEF Faulted

-------------------------------------------------------------------------------
(* TurnInv, action by action. *)

LEMMA BeginsTurn ==
  ASSUME TypeOK, InTurn, TurnInv, NEW p \in Client, CallBegins(p)
  PROVE  TurnInv'
PROOF
<1> RowTurn /\ CallTurn(p)
  BY TurnParts
<1>1. ASSUME NEW k \in Key, NEW h \in Hash, IssueReplay(p, k, h)
      PROVE  TurnInv'
  BY <1>1, AnswerEnds, RowsKept, FaultedStays, OneCall DEF IssueReplay
<1>2. ASSUME NEW k \in Key, NEW h \in Hash, IssueRead(p, k, h)
      PROVE  TurnInv'
  <2>1. pc'[p] = "issuing"
    BY <1>2 DEF IssueRead, Accept, TypeOK
  <2>2. CallTurn(p)'
    BY <2>1 DEF CallTurn, Unrecorded, Waiting, Catching
  <2> QED
    BY <1>2, <2>2, RowsKept, FaultedStays, OneCall DEF IssueRead
<1>3. ASSUME NEW r \in Request, CompleteReplay(p, r)
      PROVE  TurnInv'
  <2>1. PICK c \in Recorded(r) :
          IF ~SameRequest(r, c)
          THEN Answer(p, r.session, "conflict") /\ UNCHANGED told
          ELSE IF Replayable(r.session)
          THEN Answer(p, r.session, "duplicate") /\ told' = Telling(r, source[r.session])
          ELSE Answer(p, r.session, "error") /\ UNCHANGED told
    BY <1>3 DEF CompleteReplay
  <2>2. CallTurn(p)'
    BY <2>1, AnswerEnds
  <2>3. UNCHANGED <<assetVars, completed, faults>>
    BY <1>3 DEF CompleteReplay
  <2>4. SameRequest(r, c) => Triple(r) \in completed
    <3>1. c \in [session : Session, key : Key, hash : Hash]
          /\ c \in completed /\ c.session = r.session /\ c.key = r.key
      BY DEF Recorded, TypeOK
    <3>2. c = [session |-> c.session, key |-> c.key, hash |-> c.hash]
      BY <3>1
    <3> QED
      BY <3>1, <3>2 DEF SameRequest, Triple
  <2>5. Recordings
    BY <2>1, <2>3, <2>4 DEF Recordings
  <2>6. UNCHANGED <<ver, source>>
    BY <2>3 DEF assetVars
  <2>7. SourceStays
    BY <2>6 DEF SourceStays
  <2>8. RowTurn'
    BY <2>3, <2>5, <2>6, <2>7, RecordingsKeep, RetryableKept, FaultedStays DEF RowTurn
  <2> QED
    BY <2>2, <2>8, OneCall
<1>4. ASSUME NEW r \in Request, CompleteStart(p, r)
      PROVE  TurnInv'
  <2>1. pc'[p] = "phase_one" /\ req'[p] = {r}
    BY <1>4 DEF CompleteStart, Accept, TypeOK
  <2>2. Recorded(r) = {} /\ completed' = completed
    BY <1>4 DEF CompleteStart, recordVars
  <2>3. Recorded(r)' = {}
    BY <2>2 DEF Recorded
  <2>4. CallTurn(p)'
    BY <2>1, <2>3 DEF CallTurn, Unrecorded, Waiting, Catching
  <2> QED
    BY <1>4, <2>4, RowsKept, FaultedStays, OneCall DEF CompleteStart
<1> QED
  BY <1>1, <1>2, <1>3, <1>4 DEF CallBegins

\* What a step that moves only the version does to the parts about rows.
LEMMA VersionMoves ==
  ASSUME RowTurn, UNCHANGED <<source, completed, told>>, Faulted => Faulted',
         \A s \in Session : ver'[s] = "failed_retryable" =>
           ver[s] = "failed_retryable" \/ Explained(s)'
  PROVE  RowTurn'
PROOF
<1>1. Recordings
  BY DEF Recordings
<1>2. SourceStays
  BY DEF SourceStays
<1> QED
  BY <1>1, <1>2, RecordingsKeep, RetryableKept DEF RowTurn

LEMMA SecondPhaseRows ==
  ASSUME TypeOK, RowTurn, NEW p \in Client, NEW r \in Request,
         PhaseTwoRows(p, r), source[r.session] = NoSource, Recorded(r) = {},
         told' = told \/ told' = Telling(r, taken[p]), Faulted => Faulted'
  PROVE  RowTurn'
PROOF
<1>1. Recordings
  BY DEF Recordings, PhaseTwoRows
<1>2. SourceStays
  BY DEF PhaseTwoRows, SourceStays, TypeOK
<1>3. \A s \in Session : ver'[s] = "failed_retryable" => ver[s] = "failed_retryable"
  BY DEF PhaseTwoRows, TypeOK
<1> QED
  BY <1>1, <1>2, <1>3, RecordingsKeep, RetryableKept DEF RowTurn

\* The version of a call that has passed its first read is not replayable.
LEMMA NotReplayable ==
  ASSUME UploadInv, NEW r \in Request, r.session \notin dispatched
  PROVE  ~Replayable(r.session) /\ source[r.session] = NoSource
  BY DEF UploadInv, DispatchIsPostCanonical, Replayable, Request

LEMMA SameCall ==
  ASSUME UploadInv, TypeOK, NEW p \in Client, NEW r \in req[p]
  PROVE  /\ req[p] = {r} /\ r \in Request /\ r.session \in Session
         /\ pc[p] \in {"phase_two", "phase_two_write"} => taken[p] \in SnapshotOf[r.session]
  BY DEF UploadInv, CallsGrounded, Grounded, TypeOK, Request

\* A call that goes on carries the same request, and comes to the catch block explained.
LEMMA GoingOn ==
  ASSUME TypeOK, UploadInv, NEW p \in Client, NEW r \in req[p], NEW label, Goto(p, label),
         label \in {"phase_one_write", "canonicalizing", "phase_two", "phase_two_write"} =>
           Recorded(r)' = {} /\ r.session \notin dispatched',
         label \in {"canonicalizing", "phase_two", "phase_two_write"} =>
           ver'[r.session] = "canonicalizing",
         label = "catching" =>
           /\ Explained(r.session)'
           /\ MaxDbFaults = 0 => r.session \notin dispatched',
         label # "phase_one"
  PROVE  CallTurn(p)'
PROOF
<1>1. pc'[p] = label /\ req'[p] = {r}
  BY SameCall DEF Goto, TypeOK
<1>2. Unrecorded(p)'
  BY <1>1 DEF Unrecorded
<1>3. Waiting(p)'
  BY <1>1 DEF Waiting
<1>4. Catching(p)'
  BY <1>1 DEF Catching
<1> QED
  BY <1>2, <1>3, <1>4 DEF CallTurn

LEMMA GoesOnTurn ==
  ASSUME TypeOK, UploadInv, InTurn, TurnInv, NEW p \in Client, NEW r \in req[p],
         CallGoesOn(p, r)
  PROVE  TurnInv'
PROOF
<1> RowTurn /\ CallTurn(p)
  BY TurnParts
<1> /\ r \in Request /\ r.session \in Session
    /\ pc[p] \in {"phase_two", "phase_two_write"} => taken[p] \in SnapshotOf[r.session]
  BY SameCall
<1>0. /\ pc[p] \in {"phase_one", "phase_one_write", "canonicalizing", "phase_two",
                    "phase_two_write"} => Recorded(r) = {}
      /\ pc[p] \in {"phase_one_write", "canonicalizing", "phase_two", "phase_two_write"}
           => r.session \notin dispatched
      /\ pc[p] \in {"canonicalizing", "phase_two", "phase_two_write"}
           => ver[r.session] = "canonicalizing"
  BY DEF CallTurn, Unrecorded, Waiting
<1>k. UNCHANGED completed => Recorded(r)' = Recorded(r)
  BY DEF Recorded
<1>1. CASE IssueCommit(p, r)
  <2>1. \A s \in Session : ver'[s] = "failed_retryable" => ver[s] = "failed_retryable"
    BY <1>1 DEF IssueCommit, IssueRows, TypeOK
  <2>2. UNCHANGED <<source, completed, told, faults>>
    BY <1>1 DEF IssueCommit, IssueRows
  <2>3. CallTurn(p)'
    BY <1>1, AnswerEnds DEF IssueCommit
  <2> QED
    BY <2>1, <2>2, <2>3, VersionMoves, FaultedStays, OneCall
<1>2. CASE IssueConflict(p, r) \/ PhaseOneExpired(p, r)
  <2>1. CallTurn(p)'
    BY <1>2, AnswerEnds DEF IssueConflict, PhaseOneExpired
  <2>2. UNCHANGED <<assetVars, recordVars, faults>>
    BY <1>2 DEF IssueConflict, PhaseOneExpired
  <2> QED
    BY <2>1, <2>2, RowsKept, FaultedStays, OneCall
<1>3. CASE PhaseOneReplay(p, r)
  <2>1. Recordings
    BY <1>0, <1>3 DEF PhaseOneReplay, Replay, ReplayRows, Recordings
  <2>2. UNCHANGED <<ver, source, faults>>
    BY <1>3 DEF PhaseOneReplay, Replay, ReplayRows, assetVars
  <2>3. SourceStays
    BY <2>2 DEF SourceStays
  <2>4. RowTurn'
    BY <2>1, <2>2, <2>3, RecordingsKeep, RetryableKept, FaultedStays DEF RowTurn
  <2>5. CallTurn(p)'
    BY <1>3, AnswerEnds DEF PhaseOneReplay, Replay
  <2> QED
    BY <2>4, <2>5, OneCall
<1>4. CASE PhaseOneRead(p, r)
  <2>1. UNCHANGED <<assetVars, recordVars, faults>>
    BY <1>4 DEF PhaseOneRead
  <2>2. CASE Completable(r.session)
    <3>1. Goto(p, "phase_one_write") /\ Recorded(r) = {} /\ ~Replayable(r.session)
      BY <1>0, <1>4, <2>2 DEF PhaseOneRead
    <3>2. r.session \notin dispatched
      BY <3>1 DEF UploadInv, DispatchIsPostCanonical, Replayable
    <3>3. Recorded(r)' = {} /\ r.session \notin dispatched'
      BY <1>k, <2>1, <3>1, <3>2 DEF recordVars, assetVars
    <3>4. CallTurn(p)'
      BY <3>1, <3>3, GoingOn
    <3> QED
      BY <2>1, <3>4, RowsKept, FaultedStays, OneCall
  <2>3. CASE ~Completable(r.session)
    <3>1. CallTurn(p)'
      BY <1>4, <2>3, AnswerEnds DEF PhaseOneRead
    <3> QED
      BY <2>1, <3>1, RowsKept, FaultedStays, OneCall
  <2> QED
    BY <2>2, <2>3
<1>5. CASE PhaseOneAccepts(p, r)
  <2>1. /\ UNCHANGED <<source, dispatched, completed, told, faults>>
        /\ ver' = [ver EXCEPT ![r.session] = "canonicalizing"]
        /\ Goto(p, "canonicalizing")
    BY <1>5 DEF PhaseOneAccepts, AcceptUpload, recordVars
  <2>2. \A s \in Session : ver'[s] = "failed_retryable" => ver[s] = "failed_retryable"
    BY <2>1 DEF TypeOK
  <2>3. ver'[r.session] = "canonicalizing" /\ r.session \notin dispatched' /\ Recorded(r)' = {}
    BY <1>0, <1>5, <1>k, <2>1 DEF TypeOK, PhaseOneAccepts
  <2>4. CallTurn(p)'
    BY <2>1, <2>3, GoingOn
  <2> QED
    BY <2>1, <2>2, <2>4, VersionMoves, FaultedStays, OneCall
<1>6. CASE PhaseOneRejects(p, r)
  <2>1. UNCHANGED <<source, completed, told, faults>>
    BY <1>6 DEF PhaseOneRejects, RejectUpload, recordVars
  <2>2. \A s \in Session : ver'[s] = "failed_retryable" => ver[s] = "failed_retryable"
    BY <1>6 DEF PhaseOneRejects, RejectUpload, TypeOK
  <2>3. CallTurn(p)'
    BY <1>6, AnswerEnds DEF PhaseOneRejects
  <2> QED
    BY <2>1, <2>2, <2>3, VersionMoves, FaultedStays, OneCall
<1>7. CASE Canonicalize(p, r)
  <2>1. UNCHANGED <<assetVars, recordVars, faults>> /\ Goto(p, "phase_two")
    BY <1>7 DEF Canonicalize
  <2>2. ver'[r.session] = "canonicalizing" /\ r.session \notin dispatched' /\ Recorded(r)' = {}
    BY <1>0, <1>7, <1>k, <2>1 DEF assetVars, recordVars, Canonicalize
  <2>3. CallTurn(p)'
    BY <2>1, <2>2, GoingOn
  <2> QED
    BY <2>1, <2>3, RowsKept, FaultedStays, OneCall
<1>8. CASE CanonicalizeFails(p, r)
  <2>1. UNCHANGED <<assetVars, recordVars>> /\ Goto(p, "catching")
    BY <1>8 DEF CanonicalizeFails
  <2>2. Faulted'
    BY <1>8, FaultCounts, UploadAssumption DEF CanonicalizeFails
  <2>3. r.session \notin dispatched'
    BY <1>0, <1>8, <2>1 DEF assetVars, CanonicalizeFails
  <2>4. CallTurn(p)'
    BY <2>1, <2>2, <2>3, GoingOn DEF Explained
  <2> QED
    BY <2>1, <2>2, <2>4, RowsKept, OneCall
<1>9. ~PhaseTwoReplay(p, r)
  BY <1>0, NotReplayable DEF PhaseTwoReplay, Replay, ReplayRows
<1>10. CASE PhaseTwoRead(p, r)
  <2>1. UNCHANGED <<assetVars, recordVars, faults>> /\ Goto(p, "phase_two_write")
    BY <1>0, <1>10 DEF PhaseTwoRead
  <2>2. ver'[r.session] = "canonicalizing" /\ r.session \notin dispatched' /\ Recorded(r)' = {}
    BY <1>0, <1>10, <1>k, <2>1 DEF assetVars, recordVars, PhaseTwoRead
  <2>3. CallTurn(p)'
    BY <2>1, <2>2, GoingOn
  <2> QED
    BY <2>1, <2>3, RowsKept, FaultedStays, OneCall
<1>11. CASE PhaseTwoCommit(p, r)
  <2>1. RowTurn'
    BY <1>0, <1>11, NotReplayable, SecondPhaseRows, FaultedStays DEF PhaseTwoCommit
  <2>2. CallTurn(p)'
    BY <1>11, AnswerEnds DEF PhaseTwoCommit
  <2> QED
    BY <2>1, <2>2, OneCall
<1>12. CASE PhaseTwoConflict(p, r)
  <2>1. UNCHANGED <<assetVars, recordVars, faults>> /\ Goto(p, "catching")
    BY <1>12 DEF PhaseTwoConflict
  <2>2. PICK t \in Session \ {r.session} : source[t] = taken[p]
    BY <1>12 DEF PhaseTwoConflict, SourceIsNew
  <2>3. SourceTaken(r.session)
    BY <1>12, <2>2 DEF PhaseTwoConflict, SourceTaken
  <2>4. Explained(r.session)'
    BY <2>1, <2>3 DEF assetVars, SourceTaken, Explained
  <2>5. r.session \notin dispatched'
    BY <1>0, <1>12, <2>1 DEF assetVars, PhaseTwoConflict
  <2>6. CallTurn(p)'
    BY <2>1, <2>4, <2>5, GoingOn
  <2> QED
    BY <2>1, <2>6, RowsKept, FaultedStays, OneCall
<1>13. CASE Catch(p, r)
  <2>1. UNCHANGED <<source, completed, told, faults>>
    BY <1>13 DEF Catch, recordVars
  <2>2. Explained(r.session)'
    BY <1>13, <2>1 DEF Catch, CallTurn, Catching, Explained, Faulted, SourceTaken
  <2>3. \A s \in Session : ver'[s] = "failed_retryable" =>
          ver[s] = "failed_retryable" \/ Explained(s)'
    BY <1>13, <2>2 DEF Catch, TypeOK
  <2>4. CallTurn(p)'
    BY <1>13, AnswerEnds DEF Catch
  <2> QED
    BY <2>1, <2>3, <2>4, VersionMoves, FaultedStays, OneCall
<1> QED
  BY <1>1, <1>2, <1>3, <1>4, <1>5, <1>6, <1>7, <1>8, <1>9, <1>10, <1>11, <1>12, <1>13
     DEF CallGoesOn

LEMMA FailsTurn ==
  ASSUME TypeOK, UploadInv, InTurn, TurnInv, NEW p \in Client, NEW r \in req[p],
         CallFails(p, r)
  PROVE  TurnInv'
PROOF
<1> RowTurn /\ CallTurn(p)
  BY TurnParts
<1> r \in Request /\ r.session \in Session
  BY SameCall
<1>0. Faulted'
  BY FaultCounts, UploadAssumption
     DEF CallFails, IssueFails, PhaseOneFails, PhaseTwoFails, CatchFails, Crash
<1>1. CASE IssueFails(p, r) \/ PhaseOneFails(p, r) \/ CatchFails(p, r) \/ Crash(p, r)
  <2>1. CallTurn(p)'
    BY <1>1, AnswerEnds DEF IssueFails, PhaseOneFails, CatchFails, Crash
  <2>2. Recordings /\ UNCHANGED source
    <3>1. CASE UNCHANGED <<source, completed, told>>
      BY <3>1 DEF Recordings
    <3>2. CASE pc[p] = "phase_one" /\ ReplayRows(r) /\ UNCHANGED told
      BY <3>2 DEF ReplayRows, Recordings, CallTurn, Unrecorded, assetVars
    <3> QED
      BY <1>1, <3>1, <3>2
         DEF IssueFails, PhaseOneFails, CatchFails, Crash, IssueRows, AcceptUpload,
             RejectUpload, assetVars, recordVars
  <2>3. RowTurn'
    BY <1>0, <2>2, RecordingsKeep, RetryableKept DEF RowTurn, SourceStays, Explained
  <2> QED
    BY <2>1, <2>3, OneCall
<1>2. CASE PhaseTwoFails(p, r)
  <2>1. RowTurn'
    <3>1. CASE pc[p] = "phase_two_write" /\ PhaseTwoRows(p, r)
      <4>1. source[r.session] = NoSource /\ Recorded(r) = {}
        BY <3>1, NotReplayable DEF CallTurn, Unrecorded, Waiting
      <4> QED
        BY <1>0, <1>2, <3>1, <4>1, SecondPhaseRows DEF PhaseTwoFails
    <3>2. CASE UNCHANGED <<assetVars, late, issued, completed>>
      BY <1>0, <1>2, <3>2, RowsKept DEF PhaseTwoFails, recordVars
    <3>3. pc[p] = "phase_two" => ~ReplayRows(r)
      BY NotReplayable DEF CallTurn, Waiting, ReplayRows
    <3> QED
      BY <1>2, <3>1, <3>2, <3>3 DEF PhaseTwoFails
  <2>2. MaxDbFaults # 0
    BY <1>2 DEF PhaseTwoFails, Fault, TypeOK
  <2>3. CallTurn(p)'
    BY <1>0, <1>2, <2>2, GoingOn DEF PhaseTwoFails, Explained
  <2> QED
    BY <2>1, <2>3, OneCall
<1> QED
  BY <1>1, <1>2 DEF CallFails

\* The workflow moves dispatched versions only, and no call under way is on one.
LEMMA OthersTurn ==
  ASSUME TypeOK, InTurn, TurnInv, NEW s \in Session, Expire(s) \/ Workflow(s)
  PROVE  TurnInv'
PROOF
<1> RowTurn /\ \A p \in Client : CallTurn(p)
  BY TurnParts
<1>1. /\ UNCHANGED <<source, dispatched, completed, told, pc, req>>
      /\ \A t \in Session : ver'[t] = ver[t] \/ t \in dispatched
  BY DEF Expire, Workflow, BeginPublication, Publish, PublicationFails, Move, assetVars,
         recordVars, callVars, TypeOK
<1>2. (Faulted => Faulted') /\ (PublicationFails(s) => Faulted')
  BY FaultCounts, FaultedStays, UploadAssumption
     DEF Expire, Workflow, BeginPublication, Publish, PublicationFails
<1>3. \A t \in Session : ver'[t] = "failed_retryable" =>
        ver[t] = "failed_retryable" \/ Explained(t)'
  BY <1>2 DEF Explained, Expire, Workflow, BeginPublication, Publish, Move, assetVars, TypeOK
<1>4. RowTurn'
  BY <1>1, <1>2, <1>3, VersionMoves
<1>5. ASSUME NEW p \in Client
      PROVE  CallTurn(p)'
  <2>1. Unrecorded(p)'
    BY <1>1 DEF CallTurn, Unrecorded, Recorded
  <2>2. Waiting(p)'
    BY <1>1 DEF CallTurn, Waiting, TypeOK, Request
  <2>3. Catching(p)'
    BY <1>1, <1>2 DEF CallTurn, Catching, Explained, SourceTaken
  <2> QED
    BY <2>1, <2>2, <2>3 DEF CallTurn
<1> QED
  BY <1>4, <1>5 DEF TurnInv, RowTurn, CallTurn

-------------------------------------------------------------------------------

LEMMA TurnStep == InTurn /\ TypeOK /\ UploadInv /\ TurnInv /\ [Next]_vars => TurnInv'
PROOF
<1> SUFFICES ASSUME InTurn, TypeOK, UploadInv, TurnInv, [Next]_vars
             PROVE  TurnInv'
  OBVIOUS
<1>1. CASE UNCHANGED vars
  <2>1. \A p \in Client : Unrecorded(p)' /\ Waiting(p)' /\ Catching(p)'
    BY <1>1 DEF vars, TurnInv, Unrecorded, Waiting, Catching, Recorded, Explained, Faulted,
                SourceTaken
  <2>2. RowTurn'
    BY <1>1, TurnParts, RowsKept, FaultedStays DEF vars, assetVars, recordVars
  <2> QED
    BY <2>1, <2>2 DEF TurnInv, RowTurn
<1>2. CASE Next
  BY <1>2, BeginsTurn, GoesOnTurn, FailsTurn, OthersTurn DEF Next
<1> QED
  BY <1>1, <1>2

\* The inductive invariant of completeUploadSession when calls come one after another.
THEOREM TurnInvariant == InTurn => (Spec => []TurnInv)
PROOF
<1> SUFFICES ASSUME InTurn
             PROVE  Spec => []TurnInv
  OBVIOUS
<1>1. Init => TurnInv
  BY DEF Init, TurnInv, Unrecorded, Waiting, Catching, RecordedOnce, ToldIsRecorded,
         RetryableIsExplained
<1>2. TypeOK /\ UploadInv /\ TurnInv /\ [Next]_vars => TurnInv'
  BY TurnStep
<1> QED
  BY <1>1, <1>2, TypeCorrect, UploadInvariant, PTL DEF Spec

\* docs/idempotency-and-dispatch.md section 4.2: with calls one after another no key tells
\* callers of two different requests, whatever fails or dies between the two transactions.
THEOREM KeysBindInTurn == InTurn => (Spec => []KeyBindsOneRequest)
PROOF
<1> SUFFICES ASSUME InTurn
             PROVE  Spec => []KeyBindsOneRequest
  OBVIOUS
<1>1. TurnInv => KeyBindsOneRequest
  BY DEF TurnInv, ToldIsRecorded, RecordedOnce, Triple, KeyBindsOneRequest
<1> QED
  BY <1>1, TurnInvariant, PTL

\* docs/state-machines.md section 3.1: with calls one after another failed_retryable is for
\* failures, and for a version whose bytes the repository may give the id that another one
\* has; the catch block is never reached by a promise of completeUploadSession's own.
THEOREM RetryableInTurn == InTurn => (Spec => []RetryableIsExplained)
PROOF
<1> SUFFICES ASSUME InTurn
             PROVE  Spec => []RetryableIsExplained
  OBVIOUS
<1>1. TurnInv => RetryableIsExplained
  BY DEF TurnInv
<1> QED
  BY <1>1, TurnInvariant, PTL

-------------------------------------------------------------------------------
(* What a step of a call does to a version that has a source and a dispatch row. *)

\* Where the second transaction writes, the version has no source yet.
LEMMA SourceStep ==
  ASSUME TypeOK, UploadInv, TurnInv, [Next]_vars
  PROVE  \A s \in Session : source[s] # NoSource => source'[s] = source[s]
PROOF
<1>1. CASE source' = source
  BY <1>1
<1>2. ASSUME NEW p \in Client, NEW r \in req[p], PhaseTwoRows(p, r), pc[p] = "phase_two_write"
      PROVE  \A s \in Session : source[s] # NoSource => source'[s] = source[s]
  <2>1. source[r.session] = NoSource
    BY <1>2, SameCall, NotReplayable DEF TurnInv, Waiting
  <2> QED
    BY <1>2, <2>1, SameCall DEF PhaseTwoRows, TypeOK
<1>3. source' = source
        \/ \E p \in Client : \E r \in req[p] : PhaseTwoRows(p, r) /\ pc[p] = "phase_two_write"
  <2>1. CASE UNCHANGED vars
    BY <2>1 DEF vars
  <2>2. ASSUME NEW p \in Client, CallBegins(p)
        PROVE  source' = source
    BY <2>2 DEF CallBegins, IssueReplay, IssueRead, CompleteReplay, CompleteStart, assetVars
  <2>3. ASSUME NEW p \in Client, NEW r \in req[p], CallGoesOn(p, r)
        PROVE  source' = source \/ (PhaseTwoRows(p, r) /\ pc[p] = "phase_two_write")
    BY <2>3 DEF CallGoesOn, IssueCommit, IssueRows, IssueConflict, PhaseOneExpired,
                PhaseOneReplay, Replay, ReplayRows, PhaseOneRead, PhaseOneAccepts,
                AcceptUpload, PhaseOneRejects, RejectUpload, Canonicalize, CanonicalizeFails, PhaseTwoReplay,
                PhaseTwoRead, PhaseTwoCommit, PhaseTwoConflict, Catch, assetVars
  <2>4. ASSUME NEW p \in Client, NEW r \in req[p], CallFails(p, r)
        PROVE  source' = source \/ (PhaseTwoRows(p, r) /\ pc[p] = "phase_two_write")
    BY <2>4 DEF CallFails, IssueFails, IssueRows, PhaseOneFails, AcceptUpload, RejectUpload,
                ReplayRows, PhaseTwoFails, CatchFails, Crash, assetVars
  <2>5. ASSUME NEW s \in Session, Expire(s) \/ Workflow(s)
        PROVE  source' = source
    BY <2>5 DEF Expire, Workflow, BeginPublication, Publish, PublicationFails, Move, assetVars
  <2> QED
    BY <2>1, <2>2, <2>3, <2>4, <2>5 DEF Next
<1> QED
  BY <1>1, <1>2, <1>3

\* docs/state-machines.md section 3.2: with calls one after another the canonical source
\* of a version is given once, whatever fails or dies and however often it is retried.
THEOREM IdentityFixedInTurn == InTurn => (Spec => CanonicalIdentityFixed)
PROOF
<1> SUFFICES ASSUME InTurn
             PROVE  Spec => CanonicalIdentityFixed
  OBVIOUS
<1>1. TypeOK /\ UploadInv /\ TurnInv /\ [Next]_vars
        => [\A s \in Session : source[s] # NoSource => source'[s] = source[s]]_vars
  BY SourceStep
<1> QED
  BY <1>1, TypeCorrect, UploadInvariant, TurnInvariant, PTL DEF Spec, CanonicalIdentityFixed

\* No call writes a version that has its dispatch row.
LEMMA DispatchedStep ==
  ASSUME TypeOK, UploadInv, TurnInv, dispatched \subseteq Present, MaxDbFaults = 0,
         [Next]_vars
  PROVE  \A s \in dispatched : ver'[s] # ver[s] => Workflow(s)
PROOF
<1>1. CASE ver' = ver
  BY <1>1
<1>2. ASSUME NEW p \in Client, NEW r \in req[p],
             NEW x, ver' = [ver EXCEPT ![r.session] = x], r.session \notin dispatched
      PROVE  \A s \in dispatched : ver'[s] = ver[s]
  BY <1>2 DEF TypeOK
<1>3. ASSUME NEW p \in Client, CallBegins(p)
      PROVE  ver' = ver
  BY <1>3 DEF CallBegins, IssueReplay, IssueRead, CompleteReplay, CompleteStart, assetVars
<1>4. ASSUME NEW p \in Client, NEW r \in req[p], CallGoesOn(p, r)
      PROVE  \/ ver' = ver
             \/ r.session \notin dispatched /\ \E x : ver' = [ver EXCEPT ![r.session] = x]
  <2>0. /\ pc[p] \in {"phase_one_write", "canonicalizing", "phase_two", "phase_two_write"}
             => r.session \notin dispatched
        /\ pc[p] = "catching" => r.session \notin dispatched
    BY DEF TurnInv, Waiting, Catching
  <2>1. CASE IssueCommit(p, r)
    BY <2>1 DEF IssueCommit, IssueRows, Insertable
  <2>2. CASE PhaseOneAccepts(p, r)
    BY <2>0, <2>2 DEF PhaseOneAccepts, AcceptUpload
  <2>3. CASE PhaseOneRejects(p, r)
    BY <2>0, <2>3 DEF PhaseOneRejects, RejectUpload
  <2>4. CASE PhaseTwoCommit(p, r)
    BY <2>0, <2>4 DEF PhaseTwoCommit, PhaseTwoRows
  <2>5. CASE Catch(p, r)
    BY <2>0, <2>5 DEF Catch
  <2> QED
    BY <1>4, <2>1, <2>2, <2>3, <2>4, <2>5
       DEF CallGoesOn, IssueConflict, PhaseOneExpired, PhaseOneReplay, Replay, ReplayRows,
           PhaseOneRead, Canonicalize, CanonicalizeFails, PhaseTwoReplay, PhaseTwoRead, PhaseTwoConflict,
           assetVars
<1>5. ASSUME NEW p \in Client, NEW r \in req[p], CallFails(p, r)
      PROVE  ver' = ver
  <2>1. ~Fault("db", MaxDbFaults)
    BY DEF Fault, TypeOK
  <2> QED
    BY <1>5, <2>1 DEF CallFails, IssueFails, PhaseOneFails, PhaseTwoFails, CatchFails, Crash,
                      assetVars
<1>6. ASSUME NEW s \in Session, Expire(s) \/ Workflow(s)
      PROVE  ver' = ver \/ (Workflow(s) /\ \A t \in Session \ {s} : ver'[t] = ver[t])
  <2>1. CASE Expire(s)
    BY <2>1 DEF Expire, assetVars
  <2>2. CASE Workflow(s)
    <3>1. \A t \in Session \ {s} : ver'[t] = ver[t]
      BY <2>2 DEF Workflow, BeginPublication, Publish, PublicationFails, Move, TypeOK
    <3> QED
      BY <2>2, <3>1
  <2> QED
    BY <1>6, <2>1, <2>2
<1>7. dispatched \subseteq Session
  BY DEF TypeOK
<1>8. CASE UNCHANGED vars
  BY <1>8 DEF vars
<1> QED
  BY <1>1, <1>2, <1>3, <1>4, <1>5, <1>6, <1>7, <1>8 DEF Next

\* docs/idempotency-and-dispatch.md section 4.3: with calls one after another, and no
\* transaction that fails or loses its answer, a version that has been dispatched is moved
\* by its workflow only, however often it is completed again.
THEOREM DispatchedAloneInTurn ==
  InTurn /\ MaxDbFaults = 0 => (Spec => CompletionLeavesDispatchedAlone)
PROOF
<1> SUFFICES ASSUME InTurn, MaxDbFaults = 0
             PROVE  Spec => CompletionLeavesDispatchedAlone
  OBVIOUS
<1>1. TypeOK /\ UploadInv /\ TurnInv /\ dispatched \subseteq Present /\ [Next]_vars
        => [\A s \in dispatched : ver'[s] # ver[s] => Workflow(s)]_vars
  BY DispatchedStep
<1> QED
  BY <1>1, TypeCorrect, UploadInvariant, TurnInvariant, DispatchedArePresent, PTL
     DEF Spec, CompletionLeavesDispatchedAlone

-------------------------------------------------------------------------------
(* A version in canonicalizing is the work of the call there is. *)

\* Before its first write a call finds no version canonicalizing.
LEMMA NobodyAttends ==
  ASSUME InTurn, CanonicalizingIsAttended, Up, NEW p \in Client,
         pc[p] \notin {"canonicalizing", "phase_two", "phase_two_write", "catching"}
  PROVE  \A s \in Session : ver[s] # "canonicalizing"
  BY DEF InTurn, CanonicalizingIsAttended, Attends

\* From its first write on, its own at most.
LEMMA OneAttended ==
  ASSUME InTurn, TypeOK, UploadInv, CanonicalizingIsAttended, Up,
         NEW p \in Client, NEW r \in req[p]
  PROVE  \A s \in Session : ver[s] = "canonicalizing" => s = r.session
PROOF
<1>1. req[p] = {r}
  BY SameCall
<1> QED
  BY <1>1 DEF InTurn, CanonicalizingIsAttended, Attends

LEMMA BeginsAttended ==
  ASSUME InTurn, CanonicalizingIsAttended, NEW p \in Client, CallBegins(p)
  PROVE  CanonicalizingIsAttended'
PROOF
<1>1. pc[p] = "idle" /\ UNCHANGED <<ver, faults>>
  BY DEF CallBegins, IssueReplay, IssueRead, CompleteReplay, CompleteStart, assetVars
<1>2. Up => \A s \in Session : ver[s] # "canonicalizing"
  BY <1>1, NobodyAttends
<1> QED
  BY <1>1, <1>2 DEF CanonicalizingIsAttended, Up

LEMMA GoesOnAttended ==
  ASSUME InTurn, TypeOK, UploadInv, TurnInv, CanonicalizingIsAttended,
         NEW p \in Client, NEW r \in req[p], CallGoesOn(p, r)
  PROVE  CanonicalizingIsAttended'
PROOF
<1> r \in Request /\ r.session \in Session /\ req[p] = {r}
  BY SameCall
<1>0. ASSUME Up' => Up,
             \A s \in Session : ver'[s] = "canonicalizing" => (Up' => Attends(p, s)')
      PROVE  CanonicalizingIsAttended'
  BY <1>0 DEF CanonicalizingIsAttended
<1>1. Up' => Up
  BY FaultCounts, UploadAssumption
     DEF CallGoesOn, IssueCommit, IssueConflict, PhaseOneExpired, PhaseOneReplay, Replay,
         PhaseOneRead, PhaseOneAccepts, PhaseOneRejects, Canonicalize, CanonicalizeFails,
         PhaseTwoReplay, PhaseTwoRead, PhaseTwoCommit, PhaseTwoConflict, Catch, Up, Fault,
         TypeOK
<1>2. CASE \/ IssueConflict(p, r) \/ PhaseOneExpired(p, r) \/ PhaseOneReplay(p, r)
           \/ PhaseOneRead(p, r) \/ IssueCommit(p, r) \/ PhaseOneRejects(p, r)
  <2>1. pc[p] \in {"issuing", "phase_one", "phase_one_write"}
    BY <1>2 DEF IssueConflict, PhaseOneExpired, PhaseOneReplay, PhaseOneRead, IssueCommit,
                PhaseOneRejects
  <2>2. Up => \A s \in Session : ver[s] # "canonicalizing"
    BY <2>1, NobodyAttends
  <2>3. \A s \in Session : ver'[s] = "canonicalizing" => ver[s] = "canonicalizing"
    BY <1>2 DEF IssueConflict, PhaseOneExpired, PhaseOneReplay, Replay, ReplayRows,
                PhaseOneRead, IssueCommit, IssueRows, PhaseOneRejects, RejectUpload, assetVars,
                TypeOK
  <2> QED
    BY <1>0, <1>1, <2>2, <2>3
<1>3. CASE PhaseOneAccepts(p, r)
  <2>1. ver' = [ver EXCEPT ![r.session] = "canonicalizing"] /\ Goto(p, "canonicalizing")
        /\ pc[p] = "phase_one_write"
    BY <1>3 DEF PhaseOneAccepts, AcceptUpload
  <2>2. Up => \A s \in Session : ver'[s] = "canonicalizing" => s = r.session
    BY <2>1, NobodyAttends DEF TypeOK
  <2>3. Attends(p, r.session)'
    BY <2>1 DEF Attends, Goto, TypeOK
  <2> QED
    BY <1>0, <1>1, <2>2, <2>3
<1>4. CASE Canonicalize(p, r) \/ CanonicalizeFails(p, r) \/ PhaseTwoRead(p, r)
           \/ PhaseTwoConflict(p, r)
  <2>1. ver' = ver
    BY <1>4 DEF Canonicalize, CanonicalizeFails, PhaseTwoRead, PhaseTwoConflict, assetVars
  <2>2. PICK label \in {"phase_two", "catching", "phase_two_write"} : Goto(p, label)
    BY <1>4 DEF Canonicalize, CanonicalizeFails, PhaseTwoRead, PhaseTwoConflict
  <2>3. Attends(p, r.session)'
    BY <2>2 DEF Attends, Goto, TypeOK
  <2>4. Up => \A s \in Session : ver[s] = "canonicalizing" => s = r.session
    BY OneAttended
  <2> QED
    BY <1>0, <1>1, <2>1, <2>3, <2>4
<1>5. CASE PhaseTwoCommit(p, r) \/ Catch(p, r)
  <2>1. \A s \in Session : ver'[s] = "canonicalizing" => s # r.session /\ ver[s] = "canonicalizing"
    BY <1>5 DEF PhaseTwoCommit, PhaseTwoRows, Catch, TypeOK
  <2> QED
    BY <1>0, <1>1, <2>1, OneAttended
<1>6. ~PhaseTwoReplay(p, r)
  BY NotReplayable DEF TurnInv, Waiting, PhaseTwoReplay, Replay, ReplayRows
<1> QED
  BY <1>2, <1>3, <1>4, <1>5, <1>6 DEF CallGoesOn

\* Every other failure is one that ends Up.
LEMMA FailsEndUp ==
  ASSUME TypeOK, NEW p \in Client, NEW r, CallFails(p, r)
  PROVE  ~Up'
  BY DEF CallFails, IssueFails, PhaseOneFails, PhaseTwoFails, CatchFails, Crash, Fault, Up, TypeOK

LEMMA OthersAttended ==
  ASSUME TypeOK, CanonicalizingIsAttended, NEW s \in Session, Expire(s) \/ Workflow(s)
  PROVE  CanonicalizingIsAttended'
PROOF
<1>1. UNCHANGED <<pc, req>>
  BY DEF Expire, Workflow, BeginPublication, Publish, PublicationFails, Move, callVars
<1>2. Up' => Up
  BY DEF Expire, Workflow, BeginPublication, Publish, PublicationFails, Fault, Up, TypeOK
<1>3. \A t \in Session : ver'[t] = "canonicalizing" => ver[t] = "canonicalizing"
  BY DEF Expire, Workflow, BeginPublication, Publish, PublicationFails, Move, assetVars, TypeOK
<1> QED
  BY <1>1, <1>2, <1>3 DEF CanonicalizingIsAttended, Attends

\* The safety half of CanonicalizingEnds: with calls one after another, while processes and
\* database stay up, no version is left in canonicalizing to nobody.
THEOREM CanonicalizingAttendedInTurn == InTurn => (Spec => []CanonicalizingIsAttended)
PROOF
<1> SUFFICES ASSUME InTurn
             PROVE  Spec => []CanonicalizingIsAttended
  OBVIOUS
<1>1. Init => CanonicalizingIsAttended
  BY DEF Init, CanonicalizingIsAttended
<1>2. TypeOK /\ UploadInv /\ TurnInv /\ CanonicalizingIsAttended /\ [Next]_vars
        => CanonicalizingIsAttended'
  <2> SUFFICES ASSUME TypeOK, UploadInv, TurnInv, CanonicalizingIsAttended, [Next]_vars
               PROVE  CanonicalizingIsAttended'
    OBVIOUS
  <2>1. CASE UNCHANGED vars
    BY <2>1 DEF vars, CanonicalizingIsAttended, Attends, Up
  <2>2. ASSUME NEW p \in Client, NEW r \in req[p], CallFails(p, r)
        PROVE  CanonicalizingIsAttended'
    BY <2>2, FailsEndUp DEF CanonicalizingIsAttended
  <2>3. CASE Next
    BY <2>2, <2>3, BeginsAttended, GoesOnAttended, OthersAttended DEF Next
  <2> QED
    BY <2>1, <2>3
<1> QED
  BY <1>1, <1>2, TypeCorrect, UploadInvariant, TurnInvariant, PTL DEF Spec

===============================================================================
