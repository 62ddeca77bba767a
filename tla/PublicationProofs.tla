--------------------------- MODULE PublicationProofs ---------------------------
(***************************************************************************)
(* Proofs about Publication, for any executions, delivery scopes, variants *)
(* and faults: type correctness; PublicationInv, with the two safety       *)
(* properties it contains; that a version in processing is attended to;    *)
(* and, for executions one after another, that the manifest rows match.    *)
(***************************************************************************)
EXTENDS Publication, FiniteSetTheorems, TLAPS

LEMMA FaultTyped ==
  ASSUME TypeOK, NEW kind \in {"processor", "db", "crash"}, NEW bound \in Nat,
         Fault(kind, bound)
  PROVE  faults' \in [{"processor", "db", "crash"} -> Nat]
  BY DEF TypeOK, Fault

LEMMA GotoTyped ==
  ASSUME TypeOK, NEW e \in Execution, NEW from,
         NEW to \in {"listing", "begin", "begin_write", "writing", "publish",
                     "publish_write", "completing", "failing", "completed", "failed"},
         Goto(e, from, to)
  PROVE  /\ pc' \in [Execution -> {"idle", "listing", "begin", "begin_write", "writing",
                       "publish", "publish_write", "completing", "failing", "completed",
                       "failed"}]
         /\ pc[e] = from /\ pc'[e] = to
         /\ \A f \in Execution \ {e} : pc'[f] = pc[f]
  BY DEF TypeOK, Goto

\* The rows publishXVersion writes are well formed.
LEMMA PublishRowsTyped ==
  ASSUME TypeOK, NEW e \in Execution, NEW s \in Scope, PublishRows(e, s)
  PROVE  /\ ver' \in VersionState
         /\ derivative' \in [Variant -> SUBSET Scope]
         /\ manifest' \in [Scope -> Body \union {Nothing}]
         /\ UNCHANGED <<object, body>>
  BY DEF TypeOK, VersionState, PublishRows, objectVars, Body

LEMMA CompletionTyped == TypeOK /\ CompletionWrites => TypeOK'
  BY DEF TypeOK, CompletionWrites, objectVars, progressVars

LEMMA StepTyped ==
  ASSUME TypeOK, NEW e \in Execution, Step(e)
  PROVE  TypeOK'
PROOF
<1>0. targets' \subseteq Scope
  BY DEF Step, TypeOK
<1>1. CASE Execute(e)
  BY <1>0, <1>1, GotoTyped DEF Execute, TypeOK, rowVars, objectVars, progressVars
<1>2. CASE ListTargets(e)
  BY <1>0, <1>2, GotoTyped DEF ListTargets, TypeOK, rowVars, objectVars
<1>3. CASE BeginRead(e)
  <2>1. PICK to \in {"writing", "begin_write", "failing"} : Goto(e, "begin", to)
    BY <1>3 DEF BeginRead
  <2> QED
    BY <1>0, <1>3, <2>1, GotoTyped DEF BeginRead, TypeOK, rowVars, objectVars
<1>4. CASE BeginWrite(e)
  BY <1>0, <1>4, GotoTyped DEF BeginWrite, TypeOK, VersionState, objectVars, progressVars
<1>5. ASSUME NEW v \in Variant, PutDerivative(e, v)
      PROVE  TypeOK'
  BY <1>0, <1>5 DEF PutDerivative, TypeOK, rowVars
<1>6. ASSUME NEW s \in Scope, PutManifest(e, s)
      PROVE  TypeOK'
  BY <1>0, <1>6, GotoTyped DEF PutManifest, TypeOK, rowVars, progressVars, Body
<1>7. ASSUME NEW s \in Scope, PublishCommit(e, s)
      PROVE  TypeOK'
  <2>1. pc' \in [Execution -> {"idle", "listing", "begin", "begin_write", "writing",
                   "publish", "publish_write", "completing", "failing", "completed", "failed"}]
    BY <1>7 DEF PublishCommit, TypeOK
  <2>2. todo' \in [Execution -> SUBSET Scope]
    BY <1>7 DEF PublishCommit, TypeOK
  <2> QED
    BY <1>0, <1>7, <2>1, <2>2, PublishRowsTyped DEF PublishCommit, TypeOK
<1>8. ASSUME NEW s \in Scope, PublishConflict(e, s)
      PROVE  TypeOK'
  BY <1>0, <1>8, GotoTyped DEF PublishConflict, TypeOK, rowVars, objectVars, progressVars
<1>9. CASE PublishRead(e)
  BY <1>0, <1>9, GotoTyped DEF PublishRead, TypeOK, rowVars, objectVars, progressVars
<1>10. CASE MarkCompleted(e)
  BY <1>0, <1>10, GotoTyped DEF MarkCompleted, TypeOK, rowVars, objectVars, progressVars
<1>11. CASE MarkFailedRetryable(e)
  BY <1>0, <1>11, GotoTyped DEF MarkFailedRetryable, TypeOK, VersionState, objectVars,
                               progressVars
<1> QED
  BY <1>1, <1>2, <1>3, <1>4, <1>5, <1>6, <1>7, <1>8, <1>9, <1>10, <1>11 DEF Step

\* A database fault: what was committed, if anything, and where the execution goes on.
DbEffect(e) ==
  \/ UNCHANGED <<rowVars, objectVars>>
  \/ ver' = "processing" /\ UNCHANGED <<derivative, manifest, objectVars>>
  \/ \E s \in Scope : PublishRows(e, s)

LEMMA DbFailsEffect ==
  ASSUME NEW e \in Execution, DbFails(e)
  PROVE  \E from, to \in {"idle", "listing", "begin", "begin_write", "publish",
                          "publish_write", "completing", "failing", "failed"} :
           Goto(e, from, to) /\ to \in {"failing", "failed"} /\ DbEffect(e)
  BY DEF DbFails, DbEffect

LEMMA FailsTyped ==
  ASSUME TypeOK, NEW e \in Execution, Fails(e)
  PROVE  TypeOK'
PROOF
<1>0. faults' \in [{"processor", "db", "crash"} -> Nat] /\ targets' \subseteq Scope
  BY FaultTyped, PublicationAssumption DEF Fails, ProcessorFails, DbFails, Crash, TypeOK
<1>1. CASE ProcessorFails(e)
  BY <1>0, <1>1, GotoTyped DEF ProcessorFails, TypeOK, rowVars, objectVars, progressVars
<1>2. CASE DbFails(e)
  <2>1. PICK from, to \in {"idle", "listing", "begin", "begin_write", "publish",
                           "publish_write", "completing", "failing", "failed"} :
          Goto(e, from, to) /\ to \in {"failing", "failed"} /\ DbEffect(e)
    BY <1>2, DbFailsEffect
  <2>2. pc' \in [Execution -> {"idle", "listing", "begin", "begin_write", "writing",
                   "publish", "publish_write", "completing", "failing", "completed", "failed"}]
    BY <2>1, GotoTyped
  <2>3. UNCHANGED progressVars
    BY <1>2 DEF DbFails
  <2>4. CASE \E s \in Scope : PublishRows(e, s)
    BY <1>0, <2>2, <2>3, <2>4, PublishRowsTyped DEF TypeOK, progressVars
  <2> QED
    BY <1>0, <2>1, <2>2, <2>3, <2>4 DEF DbEffect, TypeOK, VersionState, rowVars, objectVars,
                                          progressVars
<1>3. CASE Crash(e)
  BY <1>0, <1>3 DEF Crash, TypeOK, rowVars, objectVars, progressVars
<1> QED
  BY <1>1, <1>2, <1>3 DEF Fails

\* The version, its rows and every execution are well formed in every reachable state.
THEOREM TypeCorrect == Spec => []TypeOK
PROOF
<1>1. Init => TypeOK
  BY DEF Init, TypeOK, VersionState
<1>2. TypeOK /\ [Next]_vars => TypeOK'
  <2> SUFFICES ASSUME TypeOK, [Next]_vars
               PROVE  TypeOK'
    OBVIOUS
  <2>1. CASE UNCHANGED vars
    BY <2>1 DEF vars, TypeOK
  <2>2. CASE Next
    BY <2>2, StepTyped, FailsTyped, CompletionTyped DEF Next
  <2> QED
    BY <2>1, <2>2
<1> QED
  BY <1>1, <1>2, PTL DEF Spec

-------------------------------------------------------------------------------
(* PublicationInv. *)

\* What a step other than publishing rows does to rows and objects.
Growing ==
  /\ ver' = ver \/ ver' # "published"
  /\ UNCHANGED <<derivative, manifest>>
  /\ object \subseteq object'
  /\ body # Nothing => body' # Nothing

LEMMA GrowingKeeps ==
  ASSUME PublishedIsDurable, RowsFollowObjects, Growing
  PROVE  PublishedIsDurable' /\ RowsFollowObjects'
PROOF
<1>1. \A s \in Scope : Durable(s) => Durable(s)'
  BY DEF Growing, Durable
<1>2. PublishedIsDurable'
  BY <1>1 DEF Growing, PublishedIsDurable
<1>3. RowsFollowObjects'
  BY <1>1 DEF Growing, RowsFollowObjects
<1> QED
  BY <1>2, <1>3

LEMMA PublishingKeeps ==
  ASSUME TypeOK, RowsFollowObjects, ObjectsPut,
         NEW e \in Execution, NEW s \in Scope, PublishRows(e, s)
  PROVE  PublishedIsDurable' /\ RowsFollowObjects' /\ UNCHANGED <<object, body>>
PROOF
<1>1. UNCHANGED <<object, body>>
  BY DEF PublishRows, objectVars
<1>2. Variant \subseteq object /\ body # Nothing
  BY DEF PublishRows, ObjectsPut
<1>3. <<e, s>> # Nothing
  BY PublicationAssumption
<1>4. manifest'[s] = <<e, s>> /\ \A t \in Scope \ {s} : manifest'[t] = manifest[t]
  BY DEF PublishRows, TypeOK
<1>5. \A v \in Variant : derivative'[v] = derivative[v] \union {s}
  BY DEF PublishRows
<1>6. Durable(s)'
  BY <1>1, <1>2, <1>3, <1>4, <1>5 DEF Durable
<1>7. \A t \in Scope \ {s} : Durable(t) => Durable(t)'
  BY <1>1, <1>4, <1>5 DEF Durable
<1>8. RowsFollowObjects'
  BY <1>4, <1>5, <1>6, <1>7 DEF RowsFollowObjects
<1> QED
  BY <1>1, <1>6, <1>8 DEF PublishedIsDurable

\* What the execution that takes a step owes ObjectsPut.
PutSoFar(e) ==
  /\ written[e] \subseteq object
  /\ pc[e] \in {"publish", "publish_write"} => written[e] = Variant /\ body # Nothing

LEMMA OthersPut ==
  ASSUME ObjectsPut, NEW e \in Execution, PutSoFar(e)',
         object \subseteq object', body # Nothing => body' # Nothing,
         \A f \in Execution \ {e} : pc'[f] = pc[f] /\ written'[f] = written[f]
  PROVE  ObjectsPut'
PROOF
<1>1. \A f \in Execution \ {e} : PutSoFar(f)'
  BY DEF ObjectsPut, PutSoFar
<1> QED
  BY <1>1 DEF ObjectsPut, PutSoFar

LEMMA BodyIsSomething ==
  ASSUME NEW e \in Execution, NEW s \in Scope
  PROVE  <<e, s>> # Nothing
  BY PublicationAssumption

LEMMA StepKeeps ==
  ASSUME TypeOK, PublicationInv, NEW e \in Execution, Step(e)
  PROVE  PublicationInv'
PROOF
<1> PublishedIsDurable /\ RowsFollowObjects /\ ObjectsPut /\ PutSoFar(e)
  BY DEF PublicationInv, ObjectsPut, PutSoFar
<1>1. ASSUME Growing, PutSoFar(e)',
             \A f \in Execution \ {e} : pc'[f] = pc[f] /\ written'[f] = written[f]
      PROVE  PublicationInv'
  BY <1>1, GrowingKeeps, OthersPut DEF Growing, PublicationInv
<1>2. CASE Execute(e) \/ ListTargets(e) \/ PublishRead(e) \/ MarkCompleted(e)
           \/ BeginWrite(e) \/ MarkFailedRetryable(e) \/ \E s \in Scope : PublishConflict(e, s)
  <2>1. PICK from, to : Goto(e, from, to) /\
              (to \in {"publish", "publish_write"} => from \in {"publish", "publish_write"})
    BY <1>2 DEF Execute, ListTargets, PublishRead, MarkCompleted, BeginWrite,
                MarkFailedRetryable, PublishConflict
  <2>2. pc[e] = from /\ pc'[e] = to /\ \A f \in Execution \ {e} : pc'[f] = pc[f]
    BY <2>1 DEF Goto, TypeOK
  <2>3. written' = written /\ Growing
    BY <1>2 DEF Execute, ListTargets, PublishRead, MarkCompleted, BeginWrite,
                MarkFailedRetryable, PublishConflict, Growing, rowVars, objectVars,
                progressVars
  <2>4. object' = object /\ body' = body
    BY <1>2 DEF Execute, ListTargets, PublishRead, MarkCompleted, BeginWrite,
                MarkFailedRetryable, PublishConflict, objectVars
  <2>5. PutSoFar(e)'
    BY <2>1, <2>2, <2>3, <2>4 DEF PutSoFar
  <2> QED
    BY <1>1, <2>2, <2>3, <2>5
<1>3. CASE BeginRead(e)
  <2>1. PICK to \in {"writing", "begin_write", "failing"} : Goto(e, "begin", to)
    BY <1>3 DEF BeginRead
  <2>2. pc'[e] = to /\ \A f \in Execution \ {e} : pc'[f] = pc[f]
    BY <2>1 DEF Goto, TypeOK
  <2>3. written'[e] = {} /\ \A f \in Execution \ {e} : written'[f] = written[f]
    BY <1>3 DEF BeginRead, TypeOK
  <2>4. Growing
    BY <1>3 DEF BeginRead, Growing, rowVars, objectVars
  <2>5. PutSoFar(e)'
    BY <2>2, <2>3 DEF PutSoFar
  <2> QED
    BY <1>1, <2>2, <2>3, <2>4, <2>5
<1>4. ASSUME NEW v \in Variant, PutDerivative(e, v)
      PROVE  PublicationInv'
  <2>1. pc' = pc /\ pc[e] = "writing"
    BY <1>4 DEF PutDerivative
  <2>2. written'[e] = written[e] \union {v}
        /\ \A f \in Execution \ {e} : written'[f] = written[f]
    BY <1>4 DEF PutDerivative, TypeOK
  <2>3. Growing /\ object' = object \union {v}
    BY <1>4 DEF PutDerivative, Growing, rowVars
  <2>4. PutSoFar(e)'
    BY <2>1, <2>2, <2>3 DEF PutSoFar
  <2> QED
    BY <1>1, <2>1, <2>2, <2>3, <2>4
<1>5. ASSUME NEW s \in Scope, PutManifest(e, s)
      PROVE  PublicationInv'
  <2>1. pc'[e] = "publish" /\ \A f \in Execution \ {e} : pc'[f] = pc[f]
    BY <1>5 DEF PutManifest, Goto, TypeOK
  <2>2. written' = written /\ written[e] = Variant /\ object' = object
    BY <1>5 DEF PutManifest, progressVars
  <2>3. body' # Nothing
    BY <1>5, BodyIsSomething DEF PutManifest
  <2>4. Growing
    BY <1>5, <2>2, <2>3 DEF PutManifest, Growing, rowVars
  <2>5. PutSoFar(e)'
    BY <2>1, <2>2, <2>3 DEF PutSoFar
  <2> QED
    BY <1>1, <2>1, <2>2, <2>4, <2>5
<1>6. ASSUME NEW s \in Scope, PublishCommit(e, s)
      PROVE  PublicationInv'
  <2>1. PublishedIsDurable' /\ RowsFollowObjects' /\ UNCHANGED <<object, body>>
    BY <1>6, PublishingKeeps DEF PublishCommit
  <2>2. pc'[e] \in {"completing", "begin"} /\ \A f \in Execution \ {e} : pc'[f] = pc[f]
    BY <1>6 DEF PublishCommit, TypeOK
  <2>3. written' = written
    BY <1>6 DEF PublishCommit
  <2>4. PutSoFar(e)'
    BY <2>1, <2>2, <2>3 DEF PutSoFar
  <2> QED
    BY <2>1, <2>2, <2>3, <2>4, OthersPut DEF PublicationInv
<1> QED
  BY <1>2, <1>3, <1>4, <1>5, <1>6 DEF Step

LEMMA FailsKeep ==
  ASSUME TypeOK, PublicationInv, NEW e \in Execution, Fails(e)
  PROVE  PublicationInv'
PROOF
<1> PublishedIsDurable /\ RowsFollowObjects /\ ObjectsPut /\ PutSoFar(e)
  BY DEF PublicationInv, ObjectsPut, PutSoFar
<1>1. pc'[e] \in {"failing", "failed"} /\ \A f \in Execution \ {e} : pc'[f] = pc[f]
  <2>1. CASE ProcessorFails(e) \/ Crash(e)
    BY <2>1 DEF ProcessorFails, Crash, Goto, TypeOK
  <2>2. CASE DbFails(e)
    BY <2>2, DbFailsEffect DEF Goto, TypeOK
  <2> QED
    BY <2>1, <2>2 DEF Fails
<1>2. written' = written
  BY DEF Fails, ProcessorFails, DbFails, Crash, progressVars
<1>3. CASE UNCHANGED <<rowVars, objectVars>>
           \/ (ver' = "processing" /\ UNCHANGED <<derivative, manifest, objectVars>>)
  <2>1. Growing /\ object' = object /\ body' = body
    BY <1>3 DEF Growing, rowVars, objectVars
  <2>2. PutSoFar(e)'
    BY <1>1, <1>2, <2>1 DEF PutSoFar
  <2> QED
    BY <1>1, <1>2, <2>1, <2>2, GrowingKeeps, OthersPut DEF PublicationInv
<1>4. CASE \E s \in Scope : PublishRows(e, s)
  <2>1. PublishedIsDurable' /\ RowsFollowObjects' /\ UNCHANGED <<object, body>>
    BY <1>4, PublishingKeeps
  <2>2. PutSoFar(e)'
    BY <1>1, <1>2, <2>1 DEF PutSoFar
  <2> QED
    BY <1>1, <1>2, <2>1, <2>2, OthersPut DEF PublicationInv
<1>5. UNCHANGED <<rowVars, objectVars>> \/ DbEffect(e)
  BY DbFailsEffect DEF Fails, ProcessorFails, Crash
<1> QED
  BY <1>3, <1>4, <1>5 DEF DbEffect

LEMMA CompletionKeeps ==
  ASSUME PublicationInv, CompletionWrites
  PROVE  PublicationInv'
PROOF
<1>1. Growing
  BY DEF CompletionWrites, Growing, objectVars
<1>2. ObjectsPut'
  BY DEF CompletionWrites, PublicationInv, ObjectsPut, objectVars, progressVars
<1> QED
  BY <1>1, <1>2, GrowingKeeps DEF PublicationInv

\* The inductive invariant of the worker runtime and the publication stores.
THEOREM PublicationInvariant == Spec => []PublicationInv
PROOF
<1>1. Init => PublicationInv
  BY DEF Init, PublicationInv, PublishedIsDurable, RowsFollowObjects, ObjectsPut
<1>2. TypeOK /\ PublicationInv /\ [Next]_vars => PublicationInv'
  <2> SUFFICES ASSUME TypeOK, PublicationInv, [Next]_vars
               PROVE  PublicationInv'
    OBVIOUS
  <2>1. CASE UNCHANGED vars
    BY <2>1 DEF vars, PublicationInv, PublishedIsDurable, RowsFollowObjects, ObjectsPut,
                Durable
  <2>2. CASE Next
    BY <2>2, StepKeeps, FailsKeep, CompletionKeeps DEF Next
  <2> QED
    BY <2>1, <2>2
<1> QED
  BY <1>1, <1>2, TypeCorrect, PTL DEF Spec

\* docs/state-machines.md section 7, for any number of overlapping executions: published
\* means a scope's manifest and whole derivative set are durable.
THEOREM PublicationIsDurable == Spec => []PublishedIsDurable
PROOF
<1>1. PublicationInv => PublishedIsDurable
  BY DEF PublicationInv
<1> QED
  BY <1>1, PublicationInvariant, PTL

\* publishXVersion: rows never name an object that is not there, and a scope has all of
\* its rows or none.
THEOREM RowsComeLast == Spec => []RowsFollowObjects
PROOF
<1>1. PublicationInv => RowsFollowObjects
  BY DEF PublicationInv
<1> QED
  BY <1>1, PublicationInvariant, PTL

-------------------------------------------------------------------------------
(* A version in processing has an execution that looks after it. *)

\* Whoever attends goes on attending, or the version leaves processing, or somebody died.
LEMMA AttendanceKept ==
  ASSUME TypeOK, ProcessingIsAttended, NEW e \in Execution,
         \A f \in Execution \ {e} : pc'[f] = pc[f],
         Up' => Up,
         Attends(e)' \/ ver' # "processing" \/ ~Up'
           \/ (ver' = ver /\ ~Attends(e))
  PROVE  ProcessingIsAttended'
PROOF
<1>1. CASE Attends(e)'
  BY <1>1 DEF ProcessingIsAttended
<1>2. CASE ver' = ver /\ ~Attends(e)
  <2> SUFFICES ASSUME ver' = "processing", Up'
               PROVE  \E f \in Execution : Attends(f)'
    BY DEF ProcessingIsAttended
  <2>1. PICK f \in Execution : Attends(f)
    BY <1>2 DEF ProcessingIsAttended
  <2>2. f # e
    BY <1>2, <2>1
  <2> QED
    BY <2>1, <2>2 DEF Attends
<1> QED
  BY <1>1, <1>2 DEF ProcessingIsAttended

LEMMA StepAttended ==
  ASSUME TypeOK, ProcessingIsAttended, NEW e \in Execution, Step(e)
  PROVE  ProcessingIsAttended'
PROOF
<1>1. Up' => Up
  BY DEF Step, Execute, ListTargets, BeginRead, BeginWrite, PutDerivative, PutManifest,
         PublishCommit, PublishConflict, PublishRead, MarkCompleted, MarkFailedRetryable, Up
<1>2. \A f \in Execution \ {e} : pc'[f] = pc[f]
  BY DEF Step, Execute, ListTargets, BeginRead, BeginWrite, PutDerivative, PutManifest,
         PublishCommit, PublishConflict, PublishRead, MarkCompleted, MarkFailedRetryable,
         Goto, TypeOK
<1>3. CASE Execute(e) \/ ListTargets(e) \/ MarkCompleted(e)
  <2>1. ver' = ver /\ ~Attends(e)
    BY <1>3 DEF Execute, ListTargets, MarkCompleted, Goto, Attends, rowVars
  <2> QED
    BY <1>1, <1>2, <2>1, AttendanceKept
<1>4. CASE BeginRead(e)
  <2>1. ver' = ver /\ ~Attends(e)
    BY <1>4 DEF BeginRead, Goto, Attends, rowVars
  <2> QED
    BY <1>1, <1>2, <2>1, AttendanceKept
<1>5. CASE BeginWrite(e) \/ PublishRead(e)
           \/ \E s \in Scope : PutManifest(e, s) \/ PublishConflict(e, s)
  <2>1. Attends(e)'
    BY <1>5 DEF BeginWrite, PublishRead, PutManifest, PublishConflict, Goto, Attends, TypeOK
  <2> QED
    BY <1>1, <1>2, <2>1, AttendanceKept
<1>6. ASSUME NEW v \in Variant, PutDerivative(e, v)
      PROVE  ProcessingIsAttended'
  <2>1. Attends(e)'
    BY <1>6 DEF PutDerivative, Attends
  <2> QED
    BY <1>1, <1>2, <2>1, AttendanceKept
<1>7. CASE MarkFailedRetryable(e) \/ \E s \in Scope : PublishCommit(e, s)
  <2>1. ver' # "processing"
    BY <1>7 DEF MarkFailedRetryable, PublishCommit, PublishRows
  <2> QED
    BY <1>1, <1>2, <2>1, AttendanceKept
<1> QED
  BY <1>3, <1>4, <1>5, <1>6, <1>7 DEF Step

\* A failing processor is the execution's to report; the other faults end Up.
LEMMA FailsAttended ==
  ASSUME TypeOK, ProcessingIsAttended, NEW e \in Execution, Fails(e)
  PROVE  ProcessingIsAttended'
PROOF
<1>1. CASE ProcessorFails(e)
  <2>1. Attends(e)' /\ \A f \in Execution \ {e} : pc'[f] = pc[f]
    BY <1>1 DEF ProcessorFails, Goto, Attends, TypeOK
  <2>2. Up' => Up
    BY <1>1 DEF ProcessorFails, Fault, Up, TypeOK
  <2> QED
    BY <2>1, <2>2, AttendanceKept
<1>2. CASE DbFails(e) \/ Crash(e)
  <2>1. ~Up'
    BY <1>2 DEF DbFails, Crash, Fault, Up, TypeOK
  <2> QED
    BY <2>1 DEF ProcessingIsAttended
<1> QED
  BY <1>1, <1>2 DEF Fails

\* The safety half of ProcessingEnds, for any number of overlapping executions: while
\* workers and database stay up, a version in processing has an execution that will
\* publish it or report its failure.
THEOREM ProcessingAttended == Spec => []ProcessingIsAttended
PROOF
<1>1. Init => ProcessingIsAttended
  BY DEF Init, ProcessingIsAttended
<1>2. TypeOK /\ ProcessingIsAttended /\ [Next]_vars => ProcessingIsAttended'
  <2> SUFFICES ASSUME TypeOK, ProcessingIsAttended, [Next]_vars
               PROVE  ProcessingIsAttended'
    OBVIOUS
  <2>1. CASE UNCHANGED vars
    BY <2>1 DEF vars, ProcessingIsAttended, Attends, Up
  <2>2. CASE CompletionWrites
    BY <2>2 DEF CompletionWrites, ProcessingIsAttended
  <2>3. CASE \E e \in Execution : Step(e) \/ Fails(e)
    BY <2>3, StepAttended, FailsAttended
  <2> QED
    BY <2>1, <2>2, <2>3 DEF Next
<1> QED
  BY <1>1, <1>2, TypeCorrect, PTL DEF Spec

-------------------------------------------------------------------------------
(* Executions one after another, for any number of them: the manifest row matches the   *)
(* manifest object.                                                                      *)

\* Every one of the three workflows derives something.
InTurn == MaxOverlap <= 1 /\ Variant # {}

OneAtATime == \A e, f \in Running : e = f

\* From its begin to its publication an execution alone keeps the version unpublished,
\* and finds the manifest body it put itself.
Undisturbed(e) ==
  /\ pc[e] \in {"writing", "publish", "publish_write"} => ver # "published"
  /\ \A s \in Scope :
       pc[e] \in {"publish", "publish_write"} /\ Current(e, s) => body = <<e, s>>

AloneInv ==
  /\ OneAtATime
  /\ \A e \in Execution : Undisturbed(e)
  /\ ManifestMatchesObject

\* An execution that starts finds nobody else running.
LEMMA NobodyRuns ==
  ASSUME TypeOK, InTurn, OneAtATime, NEW e \in Execution, Execute(e)
  PROVE  Running = {}
PROOF
<1> SUFFICES ASSUME NEW f \in Running
             PROVE  FALSE
  OBVIOUS
<1>1. Running = {f}
  BY DEF OneAtATime
<1>2. Cardinality(Running) = 1
  BY <1>1, FS_Singleton
<1> QED
  BY <1>2, PublicationAssumption DEF Execute, InTurn

\* Whoever acts is alone, or it is an execution that ends before it did anything.
LEMMA ActsAlone ==
  ASSUME TypeOK, InTurn, OneAtATime, NEW e \in Execution, Step(e) \/ Fails(e)
  PROVE  /\ \A f \in Execution \ {e} : pc'[f] = pc[f]
         /\ \/ \A f \in Execution \ {e} : f \notin Running
            \/ pc'[e] = "failed" /\ UNCHANGED <<rowVars, objectVars, progressVars>>
PROOF
<1>1. CASE Execute(e)
  BY <1>1, NobodyRuns DEF Execute, Goto, TypeOK
<1>2. CASE e \in Running
  <2>1. \A f \in Execution \ {e} : f \notin Running
    BY <1>2 DEF OneAtATime
  <2>2. \A f \in Execution \ {e} : pc'[f] = pc[f]
    BY DEF Step, Fails, Execute, ListTargets, BeginRead, BeginWrite, PutDerivative,
           PutManifest, PublishCommit, PublishConflict, PublishRead, MarkCompleted,
           MarkFailedRetryable, ProcessorFails, DbFails, Crash, Goto, TypeOK
  <2> QED
    BY <2>1, <2>2
<1>3. CASE e \notin Running /\ ~Execute(e)
  <2>1. pc[e] \in {"idle", "completed", "failed"}
    BY <1>3 DEF Running
  <2>2. ~Step(e)
    BY <1>3, <2>1 DEF Step, ListTargets, BeginRead, BeginWrite, PutDerivative, PutManifest,
           PublishCommit, PublishConflict, PublishRead, PublishRows, MarkCompleted,
           MarkFailedRetryable, Goto
  <2>3. DbFails(e)
    BY <1>3, <2>1, <2>2 DEF Fails, ProcessorFails, Crash, Goto
  <2>4. Goto(e, "idle", "failed") /\ UNCHANGED <<rowVars, objectVars, progressVars>>
    BY <2>1, <2>3 DEF DbFails, PublishRows, Goto
  <2> QED
    BY <2>4 DEF Goto, TypeOK
<1> QED
  BY <1>1, <1>2, <1>3

\* What the execution that acts owes the invariant, when it is alone.
LEMMA OwnStepAlone ==
  ASSUME TypeOK, NEW e \in Execution, Undisturbed(e)',
         OneAtATime, ManifestMatchesObject',
         \A f \in Execution \ {e} : pc'[f] = pc[f] /\ f \notin Running
  PROVE  AloneInv'
PROOF
<1>1. \A f \in Execution \ {e} : f \notin Running'
  BY DEF Running
<1>2. OneAtATime'
  BY <1>1 DEF OneAtATime, Running
<1>3. \A f \in Execution \ {e} : Undisturbed(f)'
  BY <1>1 DEF Undisturbed, Running
<1> QED
  BY <1>2, <1>3 DEF AloneInv

LEMMA CurrentIsOne ==
  ASSUME NEW e \in Execution, NEW s \in Scope, NEW t \in Scope, Current(e, s), Current(e, t)
  PROVE  s = t
  BY PublicationAssumption DEF Current

\* The rows of the first publication are the version's only ones: the keys of its
\* derivatives are taken for every other scope.
LEMMA PublishingMatches ==
  ASSUME TypeOK, InTurn, RowsFollowObjects, NEW e \in Execution, NEW s \in Scope,
         PublishRows(e, s), Undisturbed(e)
  PROVE  ManifestMatchesObject'
PROOF
<1>1. body' = body /\ body = <<e, s>>
  BY DEF PublishRows, Undisturbed, objectVars
<1>2. manifest'[s] = <<e, s>> /\ \A t \in Scope \ {s} : manifest'[t] = manifest[t]
  BY DEF PublishRows, TypeOK
<1>3. PICK v \in Variant : derivative[v] \subseteq {s}
  BY DEF InTurn, PublishRows, KeysFree
<1>4. \A t \in Scope \ {s} : manifest[t] = Nothing
  BY <1>3 DEF RowsFollowObjects, Durable
<1> QED
  BY <1>1, <1>2, <1>4 DEF ManifestMatchesObject

LEMMA StepAlone ==
  ASSUME TypeOK, InTurn, RowsFollowObjects, AloneInv, NEW e \in Execution, Step(e)
  PROVE  Undisturbed(e)' /\ ManifestMatchesObject'
PROOF
<1> Undisturbed(e) /\ ManifestMatchesObject
  BY DEF AloneInv
<1>1. CASE Execute(e) \/ ListTargets(e) \/ MarkCompleted(e)
           \/ \E s \in Scope : PublishConflict(e, s)
  <2>1. pc'[e] \notin {"writing", "publish", "publish_write"}
    BY <1>1 DEF Execute, ListTargets, MarkCompleted, PublishConflict, Goto, TypeOK
  <2>2. UNCHANGED <<ver, manifest, body>>
    BY <1>1 DEF Execute, ListTargets, MarkCompleted, PublishConflict, rowVars, objectVars
  <2> QED
    BY <2>1, <2>2 DEF Undisturbed, ManifestMatchesObject
<1>2. CASE BeginRead(e)
  <2>1. UNCHANGED <<ver, manifest, body>>
    BY <1>2 DEF BeginRead, rowVars, objectVars
  <2>2. pc'[e] \notin {"publish", "publish_write"} /\ (pc'[e] = "writing" => ver = "processing")
    <3>1. CASE ver = "processing"
      BY <1>2, <3>1 DEF BeginRead, Goto, TypeOK
    <3>2. CASE ver \in Beginnable \ {"processing"}
      BY <1>2, <3>2 DEF BeginRead, Goto, TypeOK
    <3>3. CASE ver \notin Beginnable /\ ver # "processing"
      BY <1>2, <3>3 DEF BeginRead, Goto, TypeOK
    <3> QED
      BY <3>1, <3>2, <3>3
  <2> QED
    BY <2>1, <2>2 DEF Undisturbed, ManifestMatchesObject
<1>3. CASE BeginWrite(e) \/ MarkFailedRetryable(e)
  <2>1. ver' # "published" /\ (pc'[e] = "writing" => ver' = "processing")
        /\ pc'[e] \in {"writing", "failed"}
    BY <1>3 DEF BeginWrite, MarkFailedRetryable, Goto, TypeOK
  <2> QED
    BY <2>1 DEF Undisturbed, ManifestMatchesObject
<1>4. ASSUME NEW v \in Variant, PutDerivative(e, v)
      PROVE  Undisturbed(e)' /\ ManifestMatchesObject'
  BY <1>4 DEF PutDerivative, rowVars, Undisturbed, ManifestMatchesObject
<1>5. ASSUME NEW s \in Scope, PutManifest(e, s)
      PROVE  Undisturbed(e)' /\ ManifestMatchesObject'
  <2>1. ver' # "published" /\ pc'[e] = "publish"
    BY <1>5 DEF PutManifest, Goto, Undisturbed, TypeOK, rowVars
  <2>2. todo' = todo /\ Current(e, s) /\ body' = <<e, s>>
    BY <1>5 DEF PutManifest, progressVars
  <2>3. \A t \in Scope : Current(e, t)' => t = s
    BY <2>2, CurrentIsOne DEF Current
  <2> QED
    BY <2>1, <2>2, <2>3 DEF Undisturbed, ManifestMatchesObject
<1>6. ASSUME NEW s \in Scope, PublishCommit(e, s)
      PROVE  Undisturbed(e)' /\ ManifestMatchesObject'
  <2>1. pc'[e] \in {"completing", "begin"}
    BY <1>6 DEF PublishCommit, TypeOK
  <2> QED
    BY <1>6, <2>1, PublishingMatches DEF PublishCommit, Undisturbed
<1>7. CASE PublishRead(e)
  <2>1. UNCHANGED <<ver, manifest, body, todo>>
    BY <1>7 DEF PublishRead, rowVars, objectVars, progressVars
  <2>2. pc[e] = "publish" /\ pc'[e] \in {"publish_write", "failing"}
    BY <1>7 DEF PublishRead, Goto, TypeOK
  <2> QED
    BY <2>1, <2>2 DEF Undisturbed, Current, ManifestMatchesObject
<1> QED
  BY <1>1, <1>2, <1>3, <1>4, <1>5, <1>6, <1>7 DEF Step

LEMMA FailsAlone ==
  ASSUME TypeOK, InTurn, RowsFollowObjects, AloneInv, NEW e \in Execution, Fails(e)
  PROVE  Undisturbed(e)' /\ ManifestMatchesObject'
PROOF
<1>1. pc'[e] \in {"failing", "failed"}
  BY DbFailsEffect DEF Fails, ProcessorFails, Crash, Goto, TypeOK
<1>2. Undisturbed(e)'
  BY <1>1 DEF Undisturbed
<1>3. UNCHANGED <<rowVars, objectVars>> \/ DbEffect(e)
  BY DbFailsEffect DEF Fails, ProcessorFails, Crash
<1>4. ManifestMatchesObject'
  <2>1. CASE \E s \in Scope : PublishRows(e, s)
    BY <2>1, PublishingMatches DEF AloneInv
  <2> QED
    BY <1>3, <2>1 DEF DbEffect, rowVars, objectVars, AloneInv, ManifestMatchesObject
<1> QED
  BY <1>2, <1>4

LEMMA AloneStep ==
  ASSUME TypeOK, InTurn, RowsFollowObjects, AloneInv, [Next]_vars
  PROVE  AloneInv'
PROOF
<1>1. CASE UNCHANGED vars
  BY <1>1 DEF vars, AloneInv, OneAtATime, Running, Undisturbed, Current, ManifestMatchesObject
<1>2. ASSUME NEW e \in Execution, Step(e) \/ Fails(e)
      PROVE  AloneInv'
  <2>1. Undisturbed(e)' /\ ManifestMatchesObject'
    BY <1>2, StepAlone, FailsAlone
  <2>2. \A f \in Execution \ {e} : pc'[f] = pc[f]
    BY <1>2, ActsAlone DEF AloneInv
  <2>3. CASE \A f \in Execution \ {e} : f \notin Running
    BY <2>1, <2>2, <2>3, OwnStepAlone DEF AloneInv
  <2>4. CASE pc'[e] = "failed" /\ UNCHANGED <<rowVars, objectVars, progressVars>>
    <3>1. Running' \subseteq Running
      BY <2>2, <2>4 DEF Running
    <3>2. \A f \in Execution \ {e} : Undisturbed(f)'
      BY <2>2, <2>4 DEF AloneInv, Undisturbed, Current, rowVars, objectVars, progressVars
    <3> QED
      BY <2>1, <3>1, <3>2 DEF AloneInv, OneAtATime
  <2> QED
    BY <1>2, <2>3, <2>4, ActsAlone DEF AloneInv
<1>3. CASE CompletionWrites
  BY <1>3 DEF CompletionWrites, AloneInv, OneAtATime, Running, Undisturbed, Current,
              ManifestMatchesObject, objectVars, progressVars
<1> QED
  BY <1>1, <1>2, <1>3 DEF Next

\* docs/conformance.md:35, manifest integrity, for executions of a version that run one
\* after another, however many there are and whatever fails: of a published version the
\* checksum in the manifest row is that of the object.
THEOREM ManifestMatchesInTurn == InTurn => (Spec => []ManifestMatchesObject)
PROOF
<1> SUFFICES ASSUME InTurn
             PROVE  Spec => []ManifestMatchesObject
  OBVIOUS
<1>1. Init => AloneInv
  BY DEF Init, AloneInv, OneAtATime, Running, Undisturbed, ManifestMatchesObject
<1>2. TypeOK /\ RowsFollowObjects /\ AloneInv /\ [Next]_vars => AloneInv'
  BY AloneStep
<1>3. AloneInv => ManifestMatchesObject
  BY DEF AloneInv
<1> QED
  BY <1>1, <1>2, <1>3, TypeCorrect, RowsComeLast, PTL DEF Spec

===============================================================================
