------------------------- MODULE OperatorControlProofs -------------------------
(***************************************************************************)
(* Proofs about OperatorControl, for any versions, concurrent reprocess    *)
(* calls and audit trails: type correctness and the inductive invariant    *)
(* OperatorInv.                                                            *)
(***************************************************************************)
EXTENDS OperatorControl, TLAPS

\* What a reprocess saw lies before it in the trail.
SinceIsPast ==
  \A v \in Version : \A i \in 1..Len(audit[v]) :
    audit[v][i].action = "reprocess" => audit[v][i].since < i

\* A call that is restoring a source was admitted when the last event was not a stop.
AdmissionsFair ==
  \A c \in Call : \A r \in restoring[c] :
    /\ r.since <= Len(audit[r.version])
    /\ r.since > 0 => ~Stopping(audit[r.version][r.since])

OperatorInv == StateIsAudited /\ TakedownsAreLifted /\ SinceIsPast /\ AdmissionsFair

-------------------------------------------------------------------------------
LEMMA EffectValues ==
  /\ \A a \in {"reprocess", "release"} :
       Effect(a).life = "processing" /\ Effect(a).state = "queued"
  /\ Effect("quarantine").life = "quarantined" /\ Effect("quarantine").state = "waiting"
  /\ Effect("purge").life = "purged" /\ Effect("purge").state = "cancelled"
  BY DEF Effect

\* An event that is recorded leaves the trail before it, and the other trails, alone.
LEMMA RecordAuditAppends ==
  ASSUME TypeOK, NEW v \in Version, NEW action \in Action, NEW since \in Nat,
         RecordAudit(v, action, since)
  PROVE  /\ audit' \in [Version -> Seq(Event)]
         /\ Len(audit[v]) \in Nat /\ Len(audit'[v]) = Len(audit[v]) + 1
         /\ audit'[v][Len(audit[v]) + 1] = [action |-> action, since |-> since]
         /\ \A i \in 1..Len(audit[v]) : audit'[v][i] = audit[v][i]
         /\ \A w \in Version \ {v} : audit'[w] = audit[w]
PROOF
<1> DEFINE e == [action |-> action, since |-> since]
<1>1. e \in Event
  BY DEF Event
<1>2. audit[v] \in Seq(Event) /\ Append(audit[v], e) \in Seq(Event)
  BY <1>1 DEF TypeOK
<1>3. audit'[v] = Append(audit[v], e) /\ \A w \in Version \ {v} : audit'[w] = audit[w]
  BY DEF RecordAudit, TypeOK
<1>4. audit' \in [Version -> Seq(Event)]
  BY <1>2 DEF RecordAudit, TypeOK
<1> QED
  BY <1>2, <1>3, <1>4

LEMMA QueueValues ==
  ASSUME TypeOK, NEW v \in Version, Queue(v)
  PROVE  /\ life' \in [Version -> Life]
         /\ workflow' \in [Version -> [state : WorkflowState, named : Nat]]
         /\ life'[v] = "processing" /\ workflow'[v].state = "queued"
         /\ workflow'[v].named = Len(audit[v]) + 1
         /\ \A w \in Version \ {v} : life'[w] = life[w] /\ workflow'[w] = workflow[w]
PROOF
<1>1. Len(audit[v]) + 1 \in Nat
  BY DEF TypeOK
<1> QED
  BY <1>1 DEF Queue, TypeOK, Life, WorkflowState

LEMMA StopValues ==
  ASSUME TypeOK, NEW v \in Version, NEW state \in Life, NEW summary \in WorkflowState,
         Stop(v, state, summary)
  PROVE  /\ life' \in [Version -> Life]
         /\ workflow' \in [Version -> [state : WorkflowState, named : Nat]]
         /\ life'[v] = state /\ workflow'[v].state = summary
         /\ workflow'[v].named = workflow[v].named
         /\ \A w \in Version \ {v} : life'[w] = life[w] /\ workflow'[w] = workflow[w]
  BY DEF Stop, TypeOK

-------------------------------------------------------------------------------
LEMMA NextTyped ==
  ASSUME TypeOK, Next
  PROVE  TypeOK'
PROOF
<1>1. ASSUME NEW v \in Version, Operate(v)
      PROVE  TypeOK'
  <2>1. Len(audit[v]) \in Nat
    BY DEF TypeOK
  <2>2. CASE ReprocessNow(v) \/ Release(v)
    <3>1. audit' \in [Version -> Seq(Event)]
      BY <2>1, <2>2, RecordAuditAppends DEF ReprocessNow, Release, Action
    <3> QED
      BY <2>2, <3>1, QueueValues DEF ReprocessNow, Release, TypeOK
  <2>3. CASE Quarantine(v) \/ Purge(v)
    <3>1. audit' \in [Version -> Seq(Event)]
      BY <2>3, RecordAuditAppends DEF Quarantine, Purge, Action
    <3>2. /\ life' \in [Version -> Life]
          /\ workflow' \in [Version -> [state : WorkflowState, named : Nat]]
      BY <2>3, StopValues DEF Quarantine, Purge, Life, WorkflowState
    <3> QED
      BY <2>3, <3>1, <3>2 DEF Quarantine, Purge, TypeOK
  <2> QED
    BY <1>1, <2>2, <2>3 DEF Operate
<1>2. ASSUME NEW c \in Call, NEW v \in Version, ReprocessAdmitted(c, v)
      PROVE  TypeOK'
  <2>1. [version |-> v, since |-> Len(audit[v])] \in Admission
    BY <1>2 DEF ReprocessAdmitted, TypeOK, Admission
  <2> QED
    BY <1>2, <2>1 DEF ReprocessAdmitted, TypeOK
<1>3. ASSUME NEW c \in Call, ReprocessRestored(c)
      PROVE  TypeOK'
  <2>1. PICK r \in restoring[c] :
          /\ restored' = restored \union {r.version}
          /\ Queue(r.version)
          /\ RecordAudit(r.version, "reprocess", r.since)
          /\ restoring' = [restoring EXCEPT ![c] = {}]
    BY <1>3 DEF ReprocessRestored
  <2>2. r.version \in Restorable /\ r.version \in Version /\ r.since \in Nat
    BY OperatorAssumption DEF TypeOK, Admission
  <2>3. audit' \in [Version -> Seq(Event)]
    BY <2>1, <2>2, RecordAuditAppends DEF Action
  <2> QED
    BY <2>1, <2>2, <2>3, QueueValues DEF TypeOK
<1>4. ASSUME NEW c \in Call, RestoreFails(c)
      PROVE  TypeOK'
  BY <1>4 DEF RestoreFails, TypeOK
<1> QED
  BY <1>1, <1>2, <1>3, <1>4 DEF Next

\* Every version, summary, trail and admission is well formed in every reachable state of
\* InMemoryOperatorControlStore.
THEOREM TypeCorrect == Spec => []TypeOK
PROOF
<1>1. Init => TypeOK
  BY DEF Init, TypeOK, WorkflowState
<1>2. TypeOK /\ UNCHANGED vars => TypeOK'
  BY DEF TypeOK, vars
<1> QED
  BY <1>1, <1>2, NextTyped, PTL DEF Spec

-------------------------------------------------------------------------------
(* The invariant.  An operation that queues a workflow keeps it when it was admitted *)
(* fairly; one that stops the version always does.                                   *)

\* Until the trail of v, TakedownsAreLifted holds; what it says of one event.
Lifted(v, i) ==
  Queues(audit[v][i]) /\ SeenBy(v, i) > 0 /\ Stopping(audit[v][SeenBy(v, i)])
    => audit[v][i].action = "release" /\ audit[v][i - 1].action = "quarantine"

\* The events that were there before an append keep what was said of them.
LEMMA LiftedKept ==
  ASSUME TypeOK, OperatorInv, NEW v \in Version, NEW w \in Version,
         NEW action \in Action, NEW since \in Nat, RecordAudit(v, action, since),
         NEW i \in 1..Len(audit[w])
  PROVE  Lifted(w, i)'
PROOF
<1>1. Len(audit[w]) \in Nat /\ i \in Nat
  BY DEF TypeOK
<1>2. \A j \in 1..Len(audit[w]) : audit'[w][j] = audit[w][j]
  BY RecordAuditAppends
<1>3. audit[w][i] \in Event
  BY DEF TypeOK
<1>4. SeenBy(w, i)' = SeenBy(w, i) /\ SeenBy(w, i) < i /\ SeenBy(w, i) \in Nat
  BY <1>1, <1>2, <1>3 DEF SeenBy, OperatorInv, SinceIsPast, Event
<1>5. audit'[w][i] = audit[w][i]
      /\ (SeenBy(w, i) > 0 => audit'[w][SeenBy(w, i)] = audit[w][SeenBy(w, i)])
  BY <1>1, <1>2, <1>4
<1>6. i > 1 => audit'[w][i - 1] = audit[w][i - 1]
  BY <1>1, <1>2
<1>7. audit[w][i].action = "release" => SeenBy(w, i) = i - 1
  BY DEF SeenBy
<1>8. Lifted(w, i)
  BY DEF OperatorInv, TakedownsAreLifted, Lifted
<1> QED
  BY <1>1, <1>4, <1>5, <1>6, <1>7, <1>8 DEF Lifted

LEMMA RecordKeeps ==
  ASSUME TypeOK, OperatorInv, NEW v \in Version, NEW action \in Action, NEW since \in Nat,
         RecordAudit(v, action, since),
         action = "reprocess" =>
           since <= Len(audit[v]) /\ (since > 0 => ~Stopping(audit[v][since])),
         action = "release" => life[v] = "quarantined",
         \A c \in Call : restoring'[c] \subseteq restoring[c]
  PROVE  TakedownsAreLifted' /\ SinceIsPast' /\ AdmissionsFair'
PROOF
<1> DEFINE n == Len(audit[v]) + 1
<1>1. /\ Len(audit[v]) \in Nat /\ Len(audit'[v]) = n
      /\ audit'[v][n] = [action |-> action, since |-> since]
      /\ \A i \in 1..Len(audit[v]) : audit'[v][i] = audit[v][i]
      /\ \A w \in Version \ {v} : audit'[w] = audit[w]
  BY RecordAuditAppends
<1>2. SinceIsPast'
  <2> SUFFICES ASSUME NEW w \in Version, NEW i \in 1..Len(audit'[w]),
                      audit'[w][i].action = "reprocess"
               PROVE  audit'[w][i].since < i
    BY DEF SinceIsPast
  <2>1. CASE w = v /\ i = n
    BY <1>1, <2>1
  <2>2. CASE ~(w = v /\ i = n)
    <3>1. i \in 1..Len(audit[w]) /\ audit'[w][i] = audit[w][i]
      BY <1>1, <2>2
    <3> QED
      BY <3>1 DEF OperatorInv, SinceIsPast
  <2> QED
    BY <2>1, <2>2
<1>3. TakedownsAreLifted'
  <2> SUFFICES ASSUME NEW w \in Version, NEW i \in 1..Len(audit'[w])
               PROVE  Lifted(w, i)'
    BY DEF TakedownsAreLifted, Lifted
  <2>1. CASE w = v /\ i = n
    <3>1. n \in Nat /\ audit'[w][i].action = action /\ audit'[w][i].since = since
      BY <1>1, <2>1
    <3>2. CASE action = "reprocess"
      <4>1. SeenBy(w, i)' = since
        BY <3>1, <3>2 DEF SeenBy
      <4>2. since > 0 => audit'[w][since] = audit[v][since]
        BY <1>1, <2>1, <3>2
      <4> QED
        BY <3>2, <4>1, <4>2 DEF Lifted, Stopping
    <3>3. CASE action = "release"
      <4>1. SeenBy(w, i)' = Len(audit[v]) /\ i - 1 = Len(audit[v])
        BY <1>1, <2>1, <3>1, <3>3 DEF SeenBy
      <4>2. CASE Len(audit[v]) > 0
        <5>1. audit[v] # <<>> /\ audit'[w][i - 1] = LastEvent(v)
          BY <1>1, <2>1, <4>1, <4>2 DEF LastEvent, TypeOK
        <5>2. LastEvent(v) \in Event
          BY <4>2, <1>1 DEF TypeOK, LastEvent
        <5>3. Effect(LastEvent(v).action).life = "quarantined"
          BY <3>3, <5>1 DEF OperatorInv, StateIsAudited
        <5>4. LastEvent(v).action = "quarantine"
          BY <5>2, <5>3, EffectValues DEF Event, Action
        <5> QED
          BY <3>1, <3>3, <5>1, <5>4 DEF Lifted
      <4>3. CASE Len(audit[v]) = 0
        BY <4>1, <4>3 DEF Lifted
      <4> QED
        BY <1>1, <4>2, <4>3
    <3>4. CASE action \in {"quarantine", "purge"}
      BY <3>1, <3>4 DEF Lifted, Queues
    <3> QED
      BY <3>2, <3>3, <3>4 DEF Action
  <2>2. CASE ~(w = v /\ i = n)
    <3>1. i \in 1..Len(audit[w])
      BY <1>1, <2>2
    <3> QED
      BY <3>1, LiftedKept
  <2> QED
    BY <2>1, <2>2
<1>4. AdmissionsFair'
  <2> SUFFICES ASSUME NEW c \in Call, NEW r \in restoring[c]
               PROVE  /\ r.since <= Len(audit'[r.version])
                      /\ r.since > 0 => ~Stopping(audit'[r.version][r.since])
    BY DEF AdmissionsFair
  <2>1. r.since \in Nat /\ r.version \in Version /\ Len(audit[r.version]) \in Nat
    BY OperatorAssumption DEF TypeOK, Admission
  <2>2. /\ r.since <= Len(audit[r.version])
        /\ r.since > 0 => ~Stopping(audit[r.version][r.since])
    BY DEF OperatorInv, AdmissionsFair
  <2>3. Len(audit[r.version]) <= Len(audit'[r.version])
    BY <1>1, <2>1
  <2>4. \A i \in 1..Len(audit[r.version]) : audit'[r.version][i] = audit[r.version][i]
    BY <1>1, <2>1
  <2>5. r.since > 0 => audit'[r.version][r.since] = audit[r.version][r.since]
    BY <2>1, <2>2, <2>4
  <2>6. Len(audit'[r.version]) \in Nat
    BY <1>1, <2>1
  <2> QED
    BY <2>1, <2>2, <2>3, <2>5, <2>6 DEF Stopping
<1> QED
  BY <1>2, <1>3, <1>4

-------------------------------------------------------------------------------
\* StateIsAudited of one version.
Audited(v) ==
  /\ audit[v] # <<>> =>
       /\ life[v] = Effect(LastEvent(v).action).life
       /\ workflow[v].state = Effect(LastEvent(v).action).state
  /\ workflow[v].named \in {0} \union {i \in 1..Len(audit[v]) : Queues(audit[v][i])}
  /\ \A i \in 1..Len(audit[v]) : Queues(audit[v][i]) => i <= workflow[v].named

\* An operation that queues a workflow and records it: the new event is the one that named it.
LEMMA QueueKeeps ==
  ASSUME TypeOK, OperatorInv, NEW v \in Version, NEW action \in {"reprocess", "release"},
         NEW since \in Nat, Queue(v), RecordAudit(v, action, since)
  PROVE  StateIsAudited'
PROOF
<1> DEFINE n == Len(audit[v]) + 1
<1>1. /\ Len(audit[v]) \in Nat /\ Len(audit'[v]) = n
      /\ audit'[v][n] = [action |-> action, since |-> since]
      /\ \A w \in Version \ {v} : audit'[w] = audit[w]
      /\ audit' \in [Version -> Seq(Event)]
  BY RecordAuditAppends DEF Action
<1>2. /\ life'[v] = "processing" /\ workflow'[v].state = "queued" /\ workflow'[v].named = n
      /\ \A w \in Version \ {v} : life'[w] = life[w] /\ workflow'[w] = workflow[w]
  BY QueueValues
<1>3. Audited(v)'
  <2>1. LastEvent(v)' = [action |-> action, since |-> since]
    BY <1>1 DEF LastEvent
  <2>2. Queues(audit'[v][n]) /\ n \in 1..Len(audit'[v])
    BY <1>1 DEF Queues
  <2>3. \A i \in 1..Len(audit'[v]) : i <= n
    BY <1>1
  <2>4. Effect(action).life = "processing" /\ Effect(action).state = "queued"
    BY EffectValues
  <2> QED
    BY <1>2, <2>1, <2>2, <2>3, <2>4 DEF Audited
<1>4. \A w \in Version \ {v} : Audited(w)'
  BY <1>1, <1>2 DEF OperatorInv, StateIsAudited, Audited, LastEvent
<1> QED
  BY <1>3, <1>4 DEF StateIsAudited, Audited

\* An operation that stops a version and records it: the workflow is the one that was named.
LEMMA StopKeeps ==
  ASSUME TypeOK, OperatorInv, NEW v \in Version, NEW action \in {"quarantine", "purge"},
         Stop(v, Effect(action).life, Effect(action).state), RecordAudit(v, action, 0)
  PROVE  StateIsAudited'
PROOF
<1> DEFINE n == Len(audit[v]) + 1
<1>0. Effect(action).life \in Life /\ Effect(action).state \in WorkflowState
  BY EffectValues DEF Life, WorkflowState
<1>1. /\ Len(audit[v]) \in Nat /\ Len(audit'[v]) = n
      /\ audit'[v][n] = [action |-> action, since |-> 0]
      /\ \A i \in 1..Len(audit[v]) : audit'[v][i] = audit[v][i]
      /\ \A w \in Version \ {v} : audit'[w] = audit[w]
  BY RecordAuditAppends DEF Action
<1>2. /\ life'[v] = Effect(action).life /\ workflow'[v].state = Effect(action).state
      /\ workflow'[v].named = workflow[v].named
      /\ \A w \in Version \ {v} : life'[w] = life[w] /\ workflow'[w] = workflow[w]
  BY <1>0, StopValues
<1>3. Audited(v)'
  <2>1. LastEvent(v)' = [action |-> action, since |-> 0]
    BY <1>1 DEF LastEvent
  <2>2. ~Queues(audit'[v][n])
    BY <1>1 DEF Queues
  <2>3. \A i \in 1..Len(audit'[v]) : i \in 1..Len(audit[v]) \/ i = n
    BY <1>1
  <2>4. \A i \in 1..Len(audit[v]) :
          i \in 1..Len(audit'[v]) /\ Queues(audit'[v][i]) = Queues(audit[v][i])
    BY <1>1 DEF Queues
  <2>5. Audited(v)
    BY DEF OperatorInv, StateIsAudited, Audited
  <2> QED
    BY <1>2, <2>1, <2>2, <2>3, <2>4, <2>5 DEF Audited
<1>4. \A w \in Version \ {v} : Audited(w)'
  BY <1>1, <1>2 DEF OperatorInv, StateIsAudited, Audited, LastEvent
<1> QED
  BY <1>3, <1>4 DEF StateIsAudited, Audited

-------------------------------------------------------------------------------
\* Who may reprocess a version sees that its last event did not stop it.
LEMMA ReprocessableNotStopped ==
  ASSUME TypeOK, OperatorInv, NEW v \in Version, Reprocessable(v), Len(audit[v]) > 0
  PROVE  ~Stopping(audit[v][Len(audit[v])])
PROOF
<1>1. audit[v] # <<>> /\ Len(audit[v]) \in Nat
  BY DEF TypeOK
<1>2. life[v] = Effect(LastEvent(v).action).life
  BY <1>1 DEF OperatorInv, StateIsAudited
<1> QED
  BY <1>2, EffectValues DEF Reprocessable, Stopping, LastEvent

LEMMA OperatorInvStep ==
  ASSUME TypeOK, OperatorInv, Next
  PROVE  OperatorInv'
PROOF
<1>1. ASSUME NEW v \in Version, ReprocessNow(v)
      PROVE  OperatorInv'
  <2>1. Len(audit[v]) \in Nat
    BY DEF TypeOK
  <2>2. Len(audit[v]) > 0 => ~Stopping(audit[v][Len(audit[v])])
    BY <1>1, ReprocessableNotStopped DEF ReprocessNow
  <2>3. TakedownsAreLifted' /\ SinceIsPast' /\ AdmissionsFair'
    BY <1>1, <2>1, <2>2, RecordKeeps DEF ReprocessNow, Action
  <2>4. StateIsAudited'
    BY <1>1, <2>1, QueueKeeps DEF ReprocessNow
  <2> QED
    BY <2>3, <2>4 DEF OperatorInv
<1>2. ASSUME NEW v \in Version, Release(v)
      PROVE  OperatorInv'
  <2>1. TakedownsAreLifted' /\ SinceIsPast' /\ AdmissionsFair'
    BY <1>2, RecordKeeps DEF Release, Action
  <2>2. StateIsAudited'
    BY <1>2, QueueKeeps DEF Release
  <2> QED
    BY <2>1, <2>2 DEF OperatorInv
<1>3. ASSUME NEW v \in Version, Quarantine(v) \/ Purge(v)
      PROVE  OperatorInv'
  <2>1. PICK action \in {"quarantine", "purge"} :
          /\ Stop(v, Effect(action).life, Effect(action).state)
          /\ RecordAudit(v, action, 0)
          /\ restoring' = restoring
    BY <1>3, EffectValues DEF Quarantine, Purge
  <2>2. TakedownsAreLifted' /\ SinceIsPast' /\ AdmissionsFair'
    BY <2>1, RecordKeeps DEF Action
  <2>3. StateIsAudited'
    BY <2>1, StopKeeps
  <2> QED
    BY <2>2, <2>3 DEF OperatorInv
<1>4. ASSUME NEW c \in Call, NEW v \in Version, ReprocessAdmitted(c, v)
      PROVE  OperatorInv'
  <2>1. Len(audit[v]) \in Nat /\ (Len(audit[v]) > 0 => ~Stopping(audit[v][Len(audit[v])]))
    BY <1>4, ReprocessableNotStopped DEF ReprocessAdmitted, TypeOK
  <2>2. /\ audit' = audit /\ life' = life /\ workflow' = workflow
        /\ restoring' = [restoring EXCEPT ![c] = {[version |-> v, since |-> Len(audit[v])]}]
    BY <1>4 DEF ReprocessAdmitted
  <2>3. AdmissionsFair'
    <3> SUFFICES ASSUME NEW d \in Call, NEW r \in restoring'[d]
                 PROVE  /\ r.since <= Len(audit[r.version])
                        /\ r.since > 0 => ~Stopping(audit[r.version][r.since])
      BY <2>2 DEF AdmissionsFair, Stopping
    <3>1. CASE r \in restoring[d]
      BY <3>1 DEF OperatorInv, AdmissionsFair
    <3>2. CASE r = [version |-> v, since |-> Len(audit[v])]
      BY <2>1, <3>2
    <3> QED
      BY <2>2, <3>1, <3>2 DEF TypeOK
  <2>4. StateIsAudited' /\ TakedownsAreLifted' /\ SinceIsPast'
    BY <2>2 DEF OperatorInv, StateIsAudited, TakedownsAreLifted, SinceIsPast, LastEvent, SeenBy
  <2> QED
    BY <2>3, <2>4 DEF OperatorInv
<1>5. ASSUME NEW c \in Call, ReprocessRestored(c)
      PROVE  OperatorInv'
  <2>1. PICK r \in restoring[c] :
          /\ Queue(r.version)
          /\ RecordAudit(r.version, "reprocess", r.since)
          /\ restoring' = [restoring EXCEPT ![c] = {}]
    BY <1>5 DEF ReprocessRestored
  <2>2. r.version \in Version /\ r.since \in Nat
    BY OperatorAssumption DEF TypeOK, Admission
  <2>3. /\ r.since <= Len(audit[r.version])
        /\ r.since > 0 => ~Stopping(audit[r.version][r.since])
    BY DEF OperatorInv, AdmissionsFair
  <2>4. \A d \in Call : restoring'[d] \subseteq restoring[d]
    BY <2>1 DEF TypeOK
  <2>5. TakedownsAreLifted' /\ SinceIsPast' /\ AdmissionsFair'
    BY <2>1, <2>2, <2>3, <2>4, RecordKeeps DEF Action
  <2>6. StateIsAudited'
    BY <2>1, <2>2, QueueKeeps
  <2> QED
    BY <2>5, <2>6 DEF OperatorInv
<1>6. ASSUME NEW c \in Call, RestoreFails(c)
      PROVE  OperatorInv'
  <2>1. /\ audit' = audit /\ life' = life /\ workflow' = workflow
        /\ \A d \in Call : restoring'[d] \subseteq restoring[d]
    BY <1>6 DEF RestoreFails, TypeOK
  <2> QED
    BY <2>1 DEF OperatorInv, StateIsAudited, TakedownsAreLifted, SinceIsPast, LastEvent, SeenBy,
                AdmissionsFair
<1> QED
  BY <1>1, <1>2, <1>3, <1>4, <1>5, <1>6 DEF Next, Operate

\* The invariant of the operator store, from any seeded versions and for any calls.
THEOREM OperatorInvariant == Spec => []OperatorInv
PROOF
<1>1. Init => OperatorInv
  BY DEF Init, OperatorInv, StateIsAudited, TakedownsAreLifted, SinceIsPast, AdmissionsFair
<1>2. TypeOK /\ OperatorInv /\ UNCHANGED vars => OperatorInv'
  BY DEF vars, OperatorInv, StateIsAudited, TakedownsAreLifted, SinceIsPast, LastEvent, SeenBy,
         AdmissionsFair
<1> QED
  BY <1>1, <1>2, OperatorInvStep, TypeCorrect, PTL DEF Spec

\* The lifecycle state and the workflow summary are what the last audit event says.
THEOREM StateAudited == Spec => []StateIsAudited
  BY OperatorInvariant, PTL DEF OperatorInv

\* Nothing admitted after a quarantine or a purge undoes it, but for the release of a quarantine.
THEOREM TakedownsLifted == Spec => []TakedownsAreLifted
  BY OperatorInvariant, PTL DEF OperatorInv

===============================================================================
