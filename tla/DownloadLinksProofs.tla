-------------------------- MODULE DownloadLinksProofs --------------------------
(***************************************************************************)
(* Proofs about DownloadLinks, for any callers, consumers, keys, ids,      *)
(* lifetime and faults: type correctness, and LinkInv with the safety      *)
(* properties it contains.                                                 *)
(***************************************************************************)
EXTENDS DownloadLinks, TLAPS

LEMMA FaultTyped ==
  ASSUME TypeOK, Fault
  PROVE  faults' \in Nat /\ faults' # 0
  BY DEF TypeOK, Fault

\* The call record keeps its shape through GoesOn and Ends.
LEMMA CallTyped ==
  ASSUME TypeOK, NEW p \in Caller, NEW c \in call[p],
         \/ Ends(p)
         \/ \E step \in {"checking", "minting", "replaying"} : GoesOn(p, c, step)
  PROVE  call' \in [Caller -> SUBSET [request : Request, at : Nat,
                                      step : {"checking", "minting", "replaying"}]]
  BY DEF TypeOK, Ends, GoesOn

LEMMA ReplayTyped ==
  ASSUME TypeOK, NEW p \in Caller, NEW r \in Request, Replay(p, r)
  PROVE  TypeOK'
  BY DEF TypeOK, Replay, Recorded, Ends, rowVars

\* What the minting transaction writes is well formed.
LEMMA MintTyped ==
  ASSUME TypeOK, NEW p \in Caller, NEW c \in call[p], NEW i \in Id, Mint(c, i)
  PROVE  /\ grant' \in [Id -> Nat]
         /\ audit' \in [Id -> Nat]
         /\ purpose' \in [Id -> SUBSET Request]
         /\ Payload(c, i) \in Response
         /\ records' \subseteq Response
         /\ UNCHANGED <<clock, published, use, opened>>
PROOF
<1>1. c.request \in Request /\ c.at + Lifetime \in Nat
  BY LinksAssumption DEF TypeOK
<1>2. Payload(c, i) \in Response
  BY <1>1 DEF Payload, Response
<1> QED
  BY <1>1, <1>2 DEF Mint, TypeOK

LEMMA CallStepTyped ==
  ASSUME TypeOK, NEW p \in Caller, NEW c \in call[p], CallStep(p, c)
  PROVE  TypeOK'
PROOF
<1>1. CASE AuthorizeCheck(p, c)
  BY <1>1, CallTyped DEF AuthorizeCheck, TypeOK, rowVars
<1>2. ASSUME NEW i \in Id, MintCommit(p, c, i)
      PROVE  TypeOK'
  BY <1>2, MintTyped, CallTyped DEF MintCommit, TypeOK
<1>3. CASE MintConflict(p, c)
  BY <1>3, CallTyped DEF MintConflict, TypeOK, rowVars
<1>4. CASE ReplayWinner(p, c)
  BY <1>4, ReplayTyped DEF ReplayWinner, TypeOK
<1>5. CASE AuthorizeFails(p, c)
  <2>1. faults' \in Nat
    BY <1>5, FaultTyped DEF AuthorizeFails
  <2>2. call' \in [Caller -> SUBSET [request : Request, at : Nat,
                                     step : {"checking", "minting", "replaying"}]]
    BY <1>5, CallTyped DEF AuthorizeFails
  <2> QED
    BY <1>5, <2>1, <2>2, MintTyped DEF AuthorizeFails, TypeOK, rowVars
<1> QED
  BY <1>1, <1>2, <1>3, <1>4, <1>5 DEF CallStep

\* What a consumer's update writes is well formed.
LEMMA SpendTyped ==
  ASSUME TypeOK, NEW q \in Consumer, NEW u \in use[q], Spend(u)
  PROVE  /\ grant' \in [Id -> Nat]
         /\ audit' \in [Id -> Nat]
         /\ UNCHANGED <<clock, published, purpose, records, told, call>>
  BY DEF TypeOK, Spend

LEMMA UseStepTyped ==
  ASSUME TypeOK, NEW q \in Consumer, NEW u \in use[q], UseStep(q, u)
  PROVE  TypeOK'
PROOF
<1>1. CASE FindGrant(q, u)
  BY <1>1 DEF FindGrant, Finds, TypeOK, rowVars
<1>2. CASE FindAudit(q, u)
  BY <1>2 DEF FindAudit, Finds, TypeOK, rowVars
<1>3. CASE SpendAndRedirect(q, u)
  <2>1. u.id \in Id
    BY DEF TypeOK
  <2>2. opened' \in [Id -> Nat]
    BY <1>3, <2>1 DEF SpendAndRedirect, TypeOK
  <2> QED
    BY <1>3, <2>2, SpendTyped DEF SpendAndRedirect, TypeOK
<1>4. CASE ConsumeFails(q, u)
  <2>1. faults' \in Nat
    BY <1>4, FaultTyped DEF ConsumeFails
  <2> QED
    BY <1>4, <2>1, SpendTyped DEF ConsumeFails, TypeOK, rowVars
<1> QED
  BY <1>1, <1>2, <1>3, <1>4 DEF UseStep

LEMMA NextTyped ==
  ASSUME TypeOK, [Next]_vars
  PROVE  TypeOK'
PROOF
<1>1. CASE UNCHANGED vars
  BY <1>1 DEF vars, TypeOK, rowVars
<1>2. CASE Tick
  BY <1>2 DEF Tick, TypeOK, rowVars
<1>3. CASE Publication
  BY <1>3 DEF Publication, TypeOK, rowVars
<1>4. ASSUME NEW p \in Caller, NEW r \in Request, AuthorizeReplay(p, r)
      PROVE  TypeOK'
  BY <1>4, ReplayTyped DEF AuthorizeReplay
<1>5. ASSUME NEW p \in Caller, NEW r \in Request, AuthorizeStart(p, r)
      PROVE  TypeOK'
  BY <1>5 DEF AuthorizeStart, TypeOK, rowVars
<1>6. ASSUME NEW q \in Consumer, NEW i \in Id, Consume(q, i)
      PROVE  TypeOK'
  BY <1>6 DEF Consume, TypeOK, rowVars
<1> QED
  BY <1>1, <1>2, <1>3, <1>4, <1>5, <1>6, CallStepTyped, UseStepTyped DEF Next

\* Rows, records, answers and calls are well formed (authorizeDelivery,
\* authorizeSource, consumeDownloadLink).
THEOREM TypeCorrect == Spec => []TypeOK
PROOF
<1>1. ASSUME Init
      PROVE  TypeOK
  <2>1. published \in BOOLEAN
    BY <1>1 DEF Init
  <2>2. /\ grant \in [Id -> Nat] /\ audit \in [Id -> Nat] /\ opened \in [Id -> Nat]
        /\ clock \in Nat /\ faults \in Nat
    BY <1>1 DEF Init
  <2>3. purpose \in [Id -> SUBSET Request] /\ records \subseteq Response /\ told \subseteq Response
    BY <1>1 DEF Init
  <2> QED
    BY <1>1, <2>1, <2>2, <2>3 DEF Init, TypeOK
<1>2. TypeOK /\ [Next]_vars => TypeOK'
  BY NextTyped
<1> QED
  BY <1>1, <1>2, PTL DEF Spec

-------------------------------------------------------------------------------
\* What LinkInv says of rows and records only depends on them: a step that leaves them
\* alone, opens nothing and undoes no fault keeps it.
LEMMA RowsKept ==
  ASSUME TypeOK, LinkInv, UNCHANGED rowVars, told' \subseteq records,
         opened' = opened, faults' = faults \/ faults' # 0
  PROVE  OneGrantPerKey' /\ AnsweredFromRecord' /\ WorksUntilUsed(records)'
PROOF
<1>1. OneGrantPerKey'
  BY DEF LinkInv, OneGrantPerKey, rowVars
<1>2. AnsweredFromRecord'
  BY DEF AnsweredFromRecord, rowVars
<1>3. WorksUntilUsed(records)'
  BY DEF LinkInv, WorksUntilUsed, rowVars
<1> QED
  BY <1>1, <1>2, <1>3

\* The transaction that mints: a fresh id, a key without a record.
LEMMA MintKeeps ==
  ASSUME TypeOK, LinkInv, NEW p \in Caller, NEW c \in call[p], NEW i \in Id, Mint(c, i),
         faults' = faults \/ faults' # 0
  PROVE  OneGrantPerKey' /\ UsesGrounded' /\ WorksUntilUsed(records)'
PROOF
<1> DEFINE new == Payload(c, i)
<1>1. /\ c.request \in Request /\ c.at \in Nat
      /\ c.at + Lifetime \in Nat /\ c.at + Lifetime # 0
  BY LinksAssumption DEF TypeOK
<1>2. new.request = c.request /\ new.id = i /\ new.until = c.at + Lifetime
  BY DEF Payload
<1>3. records' = records \union {new} /\ records \subseteq Response
  BY DEF Mint, TypeOK
<1>4. purpose[i] = {} /\ grant[i] = 0 /\ \A d \in records : d.id # i
  <2>1. purpose[i] = {} /\ grant[i] = 0
    BY DEF Mint, LinkInv, OneGrantPerKey
  <2> QED
    BY <2>1 DEF LinkInv, OneGrantPerKey
<1>5. \A d \in records : ~SameOperation(d.request, c.request)
  BY DEF Mint, Mintable, Recorded
<1>6. /\ \A j \in Id \ {i} : grant'[j] = grant[j] /\ audit'[j] = audit[j] /\ purpose'[j] = purpose[j]
      /\ audit'[i] = c.at + Lifetime /\ purpose'[i] = {c.request}
      /\ grant'[i] = IF c.request.family = "source" THEN c.at + Lifetime ELSE 0
  BY <1>4 DEF Mint, TypeOK
<1>7. OneGrantPerKey'
  <2>1. ASSUME NEW d \in records', NEW e \in records',
               SameOperation(d.request, e.request) \/ d.id = e.id
        PROVE  d = e
    <3>1. CASE d \in records /\ e \in records
      BY <2>1, <3>1 DEF LinkInv, OneGrantPerKey
    <3>2. CASE d = new /\ e \in records
      BY <1>2, <1>4, <1>5, <2>1, <3>2 DEF SameOperation
    <3>3. CASE d \in records /\ e = new
      BY <1>2, <1>4, <1>5, <2>1, <3>3 DEF SameOperation
    <3> QED
      BY <1>3, <3>1, <3>2, <3>3
  <2>2. ASSUME NEW j \in Id
        PROVE  purpose'[j] = {d.request : d \in {e \in records' : e.id = j}}
    <3>1. CASE j = i
      <4>1. {e \in records' : e.id = j} = {new}
        BY <1>2, <1>3, <1>4, <3>1
      <4> QED
        BY <1>2, <1>6, <3>1, <4>1
    <3>2. CASE j # i
      <4>1. {e \in records' : e.id = j} = {e \in records : e.id = j}
        BY <1>2, <1>3, <3>2
      <4> QED
        BY <1>6, <3>2, <4>1 DEF LinkInv, OneGrantPerKey
    <3> QED
      BY <3>1, <3>2
  <2>3. ASSUME NEW j \in Id
        PROVE  /\ audit'[j] # 0 <=> purpose'[j] # {}
               /\ grant'[j] # 0 <=> \E r \in purpose'[j] : r.family = "source"
    <3>1. CASE j = i
      BY <1>1, <1>6, <3>1
    <3>2. CASE j # i
      BY <1>6, <3>2 DEF LinkInv, OneGrantPerKey
    <3> QED
      BY <3>1, <3>2
  <2> QED
    BY <2>1, <2>2, <2>3 DEF OneGrantPerKey
<1>8. UsesGrounded'
  <2>1. \A j \in Id : (grant[j] # 0 => grant'[j] # 0) /\ (audit[j] # 0 => audit'[j] # 0)
    BY <1>1, <1>4, <1>6
  <2>2. \A q \in Consumer : \A u \in use[q] : u.id \in Id
    BY DEF TypeOK
  <2> QED
    BY <2>1, <2>2 DEF LinkInv, UsesGrounded, Mint
<1>9. WorksUntilUsed(records)'
  <2>1. opened' = opened
    BY DEF Mint
  <2>2. ASSUME NEW t \in records', t.request.oneTime, opened'[t.id] = 0, faults' = 0
        PROVE  t.until = IF t.request.family = "source" THEN grant'[t.id] ELSE audit'[t.id]
    <3>1. CASE t = new
      BY <1>2, <1>6, <3>1
    <3>2. CASE t \in records
      <4>1. t.id \in Id /\ t.id # i
        BY <1>3, <1>4, <3>2 DEF Response
      <4> QED
        BY <1>6, <2>1, <2>2, <3>2, <4>1 DEF LinkInv, WorksUntilUsed
    <3> QED
      BY <1>3, <3>1, <3>2
  <2> QED
    BY <2>2 DEF WorksUntilUsed
<1> QED
  BY <1>7, <1>8, <1>9

\* The update that spends a row moves its expiry and nothing else; it is either the
\* row whose use is counted or not the one a record's link lives by.
LEMMA SpendKeeps ==
  ASSUME TypeOK, LinkInv, NEW q \in Consumer, NEW u \in use[q], Spend(u),
         use' = [use EXCEPT ![q] = {}]
  PROVE  OneGrantPerKey' /\ UsesGrounded'
PROOF
<1>1. u.id \in Id /\ u.at \in Nat /\ u.at # 0
  BY DEF TypeOK, LinkInv, UsesGrounded
<1>2. \A j \in Id : (grant'[j] # 0 <=> grant[j] # 0) /\ (audit'[j] # 0 <=> audit[j] # 0)
  BY <1>1 DEF Spend, LinkInv, UsesGrounded, TypeOK
<1>3. purpose' = purpose /\ records' = records /\ clock' = clock
  BY DEF Spend
<1>4. OneGrantPerKey'
  BY <1>2, <1>3 DEF LinkInv, OneGrantPerKey
<1>5. UsesGrounded'
  <2>1. ASSUME NEW s \in Consumer, NEW w \in use'[s]
        PROVE  s \in Consumer /\ w \in use[s] /\ w.id \in Id
    BY <2>1 DEF TypeOK
  <2> QED
    BY <1>2, <1>3, <2>1 DEF LinkInv, UsesGrounded
<1> QED
  BY <1>4, <1>5

\* A redirect counts the use of the link whose row it spent.
LEMMA RedirectKeepsLinks ==
  ASSUME TypeOK, LinkInv, NEW q \in Consumer, NEW u \in use[q], SpendAndRedirect(q, u)
  PROVE  WorksUntilUsed(records)'
PROOF
<1>1. u.id \in Id /\ records \subseteq Response /\ records' = records
  BY DEF TypeOK, SpendAndRedirect, Spend
<1> SUFFICES ASSUME NEW t \in records, t.request.oneTime, opened'[t.id] = 0, faults' = 0
             PROVE  t.until = IF t.request.family = "source" THEN grant'[t.id] ELSE audit'[t.id]
  BY <1>1 DEF WorksUntilUsed
<1>2. t.id \in Id /\ t.request \in Request
  BY <1>1 DEF Response
<1>3. t.request.family \in {"delivery", "source"}
  BY <1>2 DEF Request
<1>4. faults = 0 /\ opened[t.id] = 0
  BY <1>1, <1>2 DEF SpendAndRedirect, TypeOK
<1>5. t.until = IF t.request.family = "source" THEN grant[t.id] ELSE audit[t.id]
  BY <1>4 DEF LinkInv, WorksUntilUsed
<1>6. CASE t.id # u.id
  BY <1>1, <1>2, <1>5, <1>6 DEF SpendAndRedirect, Spend, TypeOK
<1>7. CASE t.id = u.id
  <2>1. ~LeadsToBytes(u)
    BY <1>1, <1>4, <1>7 DEF SpendAndRedirect, TypeOK
  <2>2. t.request \in purpose[u.id]
    BY <1>1, <1>7 DEF LinkInv, OneGrantPerKey
  <2>3. t.request.family = "source" /\ u.step # "spending_grant"
    BY <1>3, <2>1, <2>2 DEF LeadsToBytes
  <2>4. grant' = grant
    BY <2>3 DEF SpendAndRedirect, Spend
  <2> QED
    BY <1>5, <2>3, <2>4
<1> QED
  BY <1>6, <1>7

LEMMA ReplayKeeps ==
  ASSUME TypeOK, LinkInv, NEW p \in Caller, NEW r \in Request, Replay(p, r)
  PROVE  LinkInv'
PROOF
<1>1. told' \subseteq records
  BY DEF Replay, Recorded, LinkInv, AnsweredFromRecord
<1>2. UNCHANGED rowVars /\ opened' = opened /\ faults' = faults /\ use' = use /\ clock' = clock
  BY DEF Replay
<1>3. UsesGrounded'
  BY <1>2 DEF LinkInv, UsesGrounded, rowVars
<1> QED
  BY <1>1, <1>2, <1>3, RowsKept DEF LinkInv

LEMMA CallStepKeeps ==
  ASSUME TypeOK, LinkInv, NEW p \in Caller, NEW c \in call[p], CallStep(p, c)
  PROVE  LinkInv'
PROOF
<1>1. CASE AuthorizeCheck(p, c)
  <2>1. UsesGrounded'
    BY <1>1 DEF AuthorizeCheck, LinkInv, UsesGrounded, rowVars
  <2> QED
    BY <1>1, <2>1, RowsKept DEF AuthorizeCheck, LinkInv, AnsweredFromRecord
<1>2. ASSUME NEW i \in Id, MintCommit(p, c, i)
      PROVE  LinkInv'
  <2>1. AnsweredFromRecord'
    BY <1>2 DEF MintCommit, Mint, LinkInv, AnsweredFromRecord
  <2> QED
    BY <1>2, <2>1, MintKeeps DEF MintCommit, LinkInv
<1>3. CASE MintConflict(p, c)
  <2>1. UsesGrounded'
    BY <1>3 DEF MintConflict, LinkInv, UsesGrounded, rowVars
  <2> QED
    BY <1>3, <2>1, RowsKept DEF MintConflict, LinkInv, AnsweredFromRecord
<1>4. CASE ReplayWinner(p, c)
  BY <1>4, ReplayKeeps DEF ReplayWinner, TypeOK
<1>5. CASE AuthorizeFails(p, c)
  <2>1. faults' # 0
    BY <1>5, FaultTyped DEF AuthorizeFails
  <2>2. ASSUME NEW i \in Id, Mint(c, i)
        PROVE  LinkInv'
    <3>1. AnsweredFromRecord'
      BY <1>5, <2>2 DEF AuthorizeFails, Mint, LinkInv, AnsweredFromRecord
    <3> QED
      BY <2>1, <2>2, <3>1, MintKeeps DEF LinkInv
  <2>3. ASSUME UNCHANGED <<clock, published, rowVars, use, opened>>
        PROVE  LinkInv'
    <3>1. UsesGrounded'
      BY <2>3 DEF LinkInv, UsesGrounded, rowVars
    <3> QED
      BY <1>5, <2>1, <2>3, <3>1, RowsKept DEF AuthorizeFails, LinkInv, AnsweredFromRecord
  <2> QED
    BY <1>5, <2>2, <2>3 DEF AuthorizeFails
<1> QED
  BY <1>1, <1>2, <1>3, <1>4, <1>5 DEF CallStep

LEMMA UseStepKeeps ==
  ASSUME TypeOK, LinkInv, NEW q \in Consumer, NEW u \in use[q], UseStep(q, u)
  PROVE  LinkInv'
PROOF
<1>1. u.id \in Id /\ u.at \in Nat /\ u.at # 0
  BY DEF TypeOK, LinkInv, UsesGrounded
<1>2. ASSUME NEW step \in {"spending_grant", "finding_audit", "spending_audit", "not_found"},
             Finds(q, u, step),
             step = "spending_grant" => grant[u.id] # 0,
             step = "spending_audit" => audit[u.id] # 0
      PROVE  LinkInv'
  <2>1. UsesGrounded'
    <3>1. ASSUME NEW s \in Consumer, NEW w \in use'[s]
          PROVE  /\ w.at > 0
                 /\ w.step = "spending_grant" => grant'[w.id] # 0
                 /\ w.step = "spending_audit" => audit'[w.id] # 0
      <4>1. CASE s # q
        BY <1>2, <3>1, <4>1 DEF Finds, LinkInv, UsesGrounded, TypeOK, rowVars
      <4>2. CASE s = q
        <5>1. w = [u EXCEPT !.step = step]
          BY <1>2, <3>1, <4>2 DEF Finds, TypeOK
        <5>2. w.at = u.at /\ w.id = u.id /\ w.step = step
          BY <5>1 DEF TypeOK
        <5> QED
          BY <1>1, <1>2, <5>2 DEF Finds, rowVars
      <4> QED
        BY <4>1, <4>2
    <3> QED
      BY <1>2, <3>1 DEF UsesGrounded, Finds, LinkInv
  <2> QED
    BY <1>2, <2>1, RowsKept DEF Finds, LinkInv, AnsweredFromRecord
<1>3. CASE FindGrant(q, u)
  <2>1. Unexpired(grant[u.id], u.at) => grant[u.id] # 0
    BY <1>1 DEF Unexpired, TypeOK
  <2> QED
    BY <1>2, <1>3, <2>1 DEF FindGrant
<1>4. CASE FindAudit(q, u)
  <2>1. Unexpired(audit[u.id], u.at) => audit[u.id] # 0
    BY <1>1 DEF Unexpired, TypeOK
  <2> QED
    BY <1>2, <1>4, <2>1 DEF FindAudit
<1>5. CASE SpendAndRedirect(q, u)
  <2>1. OneGrantPerKey' /\ UsesGrounded'
    BY <1>5, SpendKeeps DEF SpendAndRedirect
  <2>2. AnsweredFromRecord'
    BY <1>5 DEF SpendAndRedirect, Spend, LinkInv, AnsweredFromRecord
  <2> QED
    BY <1>5, <2>1, <2>2, RedirectKeepsLinks DEF LinkInv
<1>6. CASE ConsumeFails(q, u)
  <2>1. faults' # 0
    BY <1>6, FaultTyped DEF ConsumeFails
  <2>2. WorksUntilUsed(records)'
    BY <2>1 DEF WorksUntilUsed
  <2>3. AnsweredFromRecord'
    BY <1>6 DEF ConsumeFails, Spend, rowVars, LinkInv, AnsweredFromRecord
  <2>4. CASE Spend(u)
    BY <1>6, <2>2, <2>3, <2>4, SpendKeeps DEF ConsumeFails, LinkInv
  <2>5. CASE UNCHANGED <<clock, published, rowVars, told, call>>
    <3>1. OneGrantPerKey'
      BY <2>5 DEF LinkInv, OneGrantPerKey, rowVars
    <3>2. UsesGrounded'
      BY <1>6, <2>5 DEF ConsumeFails, LinkInv, UsesGrounded, rowVars, TypeOK
    <3> QED
      BY <2>2, <2>3, <3>1, <3>2 DEF LinkInv
  <2> QED
    BY <1>6, <2>4, <2>5 DEF ConsumeFails
<1> QED
  BY <1>3, <1>4, <1>5, <1>6 DEF UseStep

LEMMA NextKeeps ==
  ASSUME TypeOK, LinkInv, [Next]_vars
  PROVE  LinkInv'
PROOF
<1>1. ASSUME UNCHANGED <<rowVars, told, opened, faults>>, UsesGrounded'
      PROVE  LinkInv'
  BY <1>1, RowsKept DEF LinkInv, AnsweredFromRecord
<1>2. CASE UNCHANGED vars
  BY <1>1, <1>2 DEF vars, rowVars, LinkInv, UsesGrounded
<1>3. CASE Tick
  <2>1. clock' > 0
    BY <1>3 DEF Tick, TypeOK
  <2> QED
    BY <1>1, <1>3, <2>1 DEF Tick, rowVars, LinkInv, UsesGrounded
<1>4. CASE Publication
  BY <1>1, <1>4 DEF Publication, rowVars, LinkInv, UsesGrounded
<1>5. ASSUME NEW p \in Caller, NEW r \in Request, AuthorizeReplay(p, r)
      PROVE  LinkInv'
  BY <1>5, ReplayKeeps DEF AuthorizeReplay
<1>6. ASSUME NEW p \in Caller, NEW r \in Request, AuthorizeStart(p, r)
      PROVE  LinkInv'
  BY <1>1, <1>6 DEF AuthorizeStart, rowVars, LinkInv, UsesGrounded
<1>7. ASSUME NEW q \in Consumer, NEW i \in Id, Consume(q, i)
      PROVE  LinkInv'
  <2>1. ASSUME NEW s \in Consumer, NEW w \in use'[s]
        PROVE  \/ s # q /\ w \in use[s]
               \/ w.at = clock /\ w.step = "finding_grant"
    BY <1>7, <2>1 DEF Consume, TypeOK
  <2> QED
    BY <1>1, <1>7, <2>1 DEF Consume, rowVars, LinkInv, UsesGrounded
<1> QED
  BY <1>2, <1>3, <1>4, <1>5, <1>6, <1>7, CallStepKeeps, UseStepKeeps DEF Next

\* The inductive invariant of the grants, their records and those who follow links.
THEOREM LinkInvariant == Spec => []LinkInv
PROOF
<1>1. Init => LinkInv
  BY DEF Init, LinkInv, OneGrantPerKey, AnsweredFromRecord, UsesGrounded, WorksUntilUsed
<1>2. TypeOK /\ LinkInv /\ [Next]_vars => LinkInv'
  BY NextKeeps
<1> QED
  BY <1>1, <1>2, TypeCorrect, PTL DEF Spec

\* docs/persistence-model.md section 3.5, for any number of overlapping authorizeX
\* calls and any fault: a key has one grant with one audit row and one record.
THEOREM GrantsAreOnePerKey == Spec => []OneGrantPerKey
PROOF
<1>1. LinkInv => OneGrantPerKey
  BY DEF LinkInv
<1> QED
  BY <1>1, LinkInvariant, PTL

\* docs/idempotency-and-dispatch.md section 4.4: whoever is answered is answered with
\* the recorded authorization (loadXAuthorizationReplay, the P2002 branch).
THEOREM AnswersAreRecorded == Spec => []AnsweredFromRecord
PROOF
<1>1. LinkInv => AnsweredFromRecord
  BY DEF LinkInv
<1> QED
  BY <1>1, LinkInvariant, PTL

\* A one-time link a caller was told works until it is used, whoever else consumes
\* links at the same time (consumeDownloadLink updates by the id of what it found).
THEOREM LinksWorkUntilUsed == Spec => []ToldLinkWorks
PROOF
<1>1. LinkInv => ToldLinkWorks
  BY DEF LinkInv, AnsweredFromRecord, WorksUntilUsed, ToldLinkWorks
<1> QED
  BY <1>1, LinkInvariant, PTL
-------------------------------------------------------------------------------
(* Consumers that follow links one after the other. *)

InTurn == \A q, s \in Consumer : q = s

OneTime(i) == \E r \in purpose[i] : r.oneTime

\* The row that a link lives by had expired at t.
SpentAt(i, t) ==
  \A r \in purpose[i] : (IF r.family = "source" THEN grant[i] ELSE audit[i]) <= t

\* Whoever follows a link that was opened cannot find the row it lived by any more.
Spent(i) ==
  /\ SpentAt(i, clock)
  /\ \A q \in Consumer : \A u \in use[q] : u.id = i =>
       /\ SpentAt(i, u.at)
       /\ u.step \in {"spending_grant", "spending_audit"} => ~LeadsToBytes(u)

OpensInv ==
  /\ \A i \in Id : opened[i] # 0 => purpose[i] # {}
  /\ \A q \in Consumer : \A u, w \in use[q] : u = w /\ u.at <= clock
  /\ \A i \in Id : OneTime(i) => opened[i] = 0 \/ (opened[i] = 1 /\ Spent(i))

\* An authorization is made for one request, and a delivery has no source grant.
LEMMA OneRequest ==
  ASSUME TypeOK, LinkInv, NEW i \in Id
  PROVE  /\ \A r, s \in purpose[i] : r = s
         /\ \A r \in purpose[i] : r \in Request /\ (r.family = "delivery" => grant[i] = 0)
PROOF
<1>1. \A r, s \in purpose[i] : r = s
  BY DEF LinkInv, OneGrantPerKey
<1>2. ASSUME NEW r \in purpose[i]
      PROVE  r \in Request /\ (r.family = "delivery" => grant[i] = 0)
  BY <1>1, <1>2 DEF LinkInv, OneGrantPerKey, TypeOK
<1> QED
  BY <1>1, <1>2

\* A step that leaves rows, links and those who follow them alone.
LEMMA Untouched_OpensInv ==
  ASSUME TypeOK, OpensInv, UNCHANGED <<rowVars, use, opened>>, clock' \in Nat, clock <= clock'
  PROVE  OpensInv'
PROOF
<1>1. /\ UNCHANGED <<grant, audit, purpose, use, opened>> /\ clock \in Nat
      /\ \A i \in Id : grant[i] \in Nat /\ audit[i] \in Nat
      /\ \A q \in Consumer : \A u \in use[q] : u.at \in Nat
  BY DEF rowVars, TypeOK
<1>2. \A i \in Id : SpentAt(i, clock) => SpentAt(i, clock)'
  BY <1>1 DEF SpentAt
<1>3. \A i \in Id : Spent(i) => Spent(i)'
  BY <1>1, <1>2 DEF Spent, SpentAt, LeadsToBytes
<1> QED
  BY <1>1, <1>3 DEF OpensInv, OneTime

LEMMA Mint_OpensInv ==
  ASSUME TypeOK, LinkInv, OpensInv, NEW p \in Caller, NEW c \in call[p], NEW i \in Id, Mint(c, i)
  PROVE  OpensInv'
PROOF
<1>1. purpose[i] = {} /\ opened[i] = 0
  BY DEF Mint, LinkInv, OneGrantPerKey, OpensInv
<1>2. /\ \A j \in Id \ {i} : grant'[j] = grant[j] /\ audit'[j] = audit[j] /\ purpose'[j] = purpose[j]
      /\ UNCHANGED <<clock, use, opened>>
  BY DEF Mint, TypeOK
<1>3. \A j \in Id \ {i} : Spent(j) => Spent(j)'
  BY <1>2 DEF Spent, SpentAt, LeadsToBytes
<1> QED
  BY <1>1, <1>2, <1>3 DEF OpensInv, OneTime

\* Nobody else follows a link, and what was opened had expired by now.
LEMMA Consume_OpensInv ==
  ASSUME TypeOK, OpensInv, InTurn, NEW q \in Consumer, NEW i \in Id, Consume(q, i)
  PROVE  OpensInv'
PROOF
<1>1. /\ UNCHANGED <<clock, grant, audit, purpose, opened>> /\ clock \in Nat
      /\ \A s \in Consumer : use'[s] = {[id |-> i, at |-> clock, step |-> "finding_grant"]}
  BY DEF Consume, InTurn, TypeOK, rowVars
<1>2. \A j \in Id : Spent(j) => Spent(j)'
  BY <1>1 DEF Spent, SpentAt
<1> QED
  BY <1>1, <1>2 DEF OpensInv, OneTime

\* What a consumer finds of a link that was opened does not lead to the bytes.
LEMMA Find_OpensInv ==
  ASSUME TypeOK, LinkInv, OpensInv, InTurn, NEW q \in Consumer, NEW u \in use[q],
         FindGrant(q, u) \/ FindAudit(q, u)
  PROVE  OpensInv'
PROOF
<1>1. u.id \in Id /\ u.at \in Nat /\ u.at <= clock
  BY DEF TypeOK, OpensInv
<1>2. UNCHANGED <<clock, grant, audit, purpose, opened>>
  BY DEF FindGrant, FindAudit, Finds, rowVars
<1>3. ASSUME NEW s \in Consumer, NEW w \in use'[s]
      PROVE  /\ use'[s] = {w} /\ w.id = u.id /\ w.at = u.at
             /\ w.step = "spending_grant" => Unexpired(grant[u.id], u.at)
             /\ w.step = "spending_audit" => Unexpired(audit[u.id], u.at)
  <2>1. PICK step \in {"spending_grant", "finding_audit", "spending_audit", "not_found"} :
          /\ Finds(q, u, step)
          /\ step = "spending_grant" => Unexpired(grant[u.id], u.at)
          /\ step = "spending_audit" => Unexpired(audit[u.id], u.at)
    BY DEF FindGrant, FindAudit
  <2>2. s = q /\ use'[q] = IF step = "not_found" THEN {} ELSE {[u EXCEPT !.step = step]}
    BY <2>1 DEF InTurn, Finds, TypeOK
  <2>3. w = [u EXCEPT !.step = step] /\ use'[s] = {w}
    BY <1>3, <2>2
  <2>4. w.id = u.id /\ w.at = u.at /\ w.step = step
    BY <2>3 DEF TypeOK
  <2> QED
    BY <2>1, <2>3, <2>4
<1>4. ASSUME NEW i \in Id, OneTime(i), Spent(i)
      PROVE  Spent(i)'
  <2>1. SpentAt(i, clock)'
    BY <1>2, <1>4 DEF Spent, SpentAt
  <2>2. ASSUME NEW s \in Consumer, NEW w \in use'[s], w.id = i
        PROVE  /\ SpentAt(i, w.at)'
               /\ w.step \in {"spending_grant", "spending_audit"} => ~LeadsToBytes(w)'
    <3>1. u.id = i /\ w.at = u.at /\ SpentAt(i, u.at)
      BY <1>3, <1>4, <2>2 DEF Spent
    <3>2. PICK r \in purpose[i] : r.oneTime
      BY <1>4 DEF OneTime
    <3>3. r \in Request /\ (\A s1 \in purpose[i] : s1 = r) /\ (r.family = "delivery" => grant[i] = 0)
      BY <3>2, OneRequest
    <3>4. (IF r.family = "source" THEN grant[i] ELSE audit[i]) <= u.at
      BY <3>1, <3>2 DEF SpentAt
    <3>5. grant[i] \in Nat /\ audit[i] \in Nat /\ r.family \in {"delivery", "source"}
      BY <3>3 DEF TypeOK, Request
    <3>6. w.step # "spending_grant"
      BY <1>1, <1>3, <2>2, <3>1, <3>3, <3>4, <3>5 DEF Unexpired
    <3>7. w.step = "spending_audit" => r.family = "source"
      BY <1>1, <1>3, <2>2, <3>1, <3>4, <3>5 DEF Unexpired
    <3>8. w.step \in {"spending_grant", "spending_audit"} => ~LeadsToBytes(w)'
      BY <1>2, <2>2, <3>2, <3>3, <3>6, <3>7 DEF LeadsToBytes
    <3>9. SpentAt(i, w.at)'
      BY <1>2, <3>1 DEF SpentAt
    <3> QED
      BY <3>8, <3>9
  <2> QED
    BY <2>1, <2>2 DEF Spent
<1> QED
  BY <1>1, <1>2, <1>3, <1>4 DEF OpensInv, OneTime

\* A row is spent with a reading of the clock that has passed, by the only consumer there is.
LEMMA Spend_OpensInv ==
  ASSUME TypeOK, LinkInv, OpensInv, InTurn, NEW q \in Consumer, NEW u \in use[q], Spend(u),
         use' = [use EXCEPT ![q] = {}],
         \/ opened' = opened
         \/ opened' = [opened EXCEPT ![u.id] = IF LeadsToBytes(u) THEN @ + 1 ELSE @]
  PROVE  OpensInv'
PROOF
<1>1. u.id \in Id /\ u.at \in Nat /\ u.at <= clock /\ clock \in Nat
  BY DEF TypeOK, OpensInv
<1>2. /\ UNCHANGED <<clock, purpose>>
      /\ \A s \in Consumer : use'[s] = {}
      /\ \A i \in Id \ {u.id} : grant'[i] = grant[i] /\ audit'[i] = audit[i] /\ opened'[i] = opened[i]
  BY DEF Spend, InTurn, TypeOK
<1>3. /\ u.step \in {"spending_grant", "spending_audit"}
      /\ u.step = "spending_grant" => grant[u.id] # 0
      /\ u.step = "spending_audit" => audit[u.id] # 0
      /\ purpose[u.id] # {}
  BY <1>1 DEF Spend, LinkInv, UsesGrounded, OneGrantPerKey
<1>4. /\ grant'[u.id] = IF u.step = "spending_grant" THEN u.at ELSE grant[u.id]
      /\ audit'[u.id] = IF u.step = "spending_audit" THEN u.at ELSE audit[u.id]
  BY <1>1, <1>3 DEF Spend, TypeOK
<1>5. ASSUME NEW i \in Id, SpentAt(i, clock)'
      PROVE  Spent(i)'
  BY <1>2, <1>5 DEF Spent
<1>6. ASSUME NEW i \in Id, OneTime(i)'
      PROVE  opened'[i] = 0 \/ (opened'[i] = 1 /\ Spent(i)')
  <2>1. OneTime(i)
    BY <1>2, <1>6 DEF OneTime
  <2>2. CASE i # u.id
    BY <1>2, <1>5, <2>1, <2>2 DEF OpensInv, Spent, SpentAt
  <2>3. CASE i = u.id
    <3>1. PICK r \in purpose[i] : r.oneTime
      BY <2>1 DEF OneTime
    <3>2. r \in Request /\ (\A s \in purpose[i] : s = r) /\ (r.family = "delivery" => grant[i] = 0)
      BY <3>1, OneRequest
    <3>3. r.family \in {"delivery", "source"} /\ grant[i] \in Nat /\ audit[i] \in Nat
      BY <3>2 DEF Request, TypeOK
    <3>4. CASE opened[i] = 1 /\ Spent(i)
      <4>1. ~LeadsToBytes(u)
        BY <1>3, <2>3, <3>4 DEF Spent
      <4>2. opened'[i] = 1
        BY <2>3, <3>4, <4>1 DEF TypeOK
      <4>3. (IF r.family = "source" THEN grant[i] ELSE audit[i]) <= clock
        BY <3>1, <3>4 DEF Spent, SpentAt
      <4>4. (IF r.family = "source" THEN grant'[i] ELSE audit'[i]) <= clock
        BY <1>1, <1>4, <2>3, <3>3, <4>3
      <4>5. SpentAt(i, clock)'
        BY <1>2, <3>2, <4>4 DEF SpentAt
      <4> QED
        BY <1>5, <4>2, <4>5
    <3>5. CASE opened[i] = 0 /\ ~LeadsToBytes(u)
      BY <2>3, <3>5 DEF TypeOK
    <3>6. CASE opened[i] = 0 /\ LeadsToBytes(u)
      <4>1. opened'[i] \in {0, 1}
        BY <2>3, <3>6 DEF TypeOK
      <4>2. r.family = "source" => u.step = "spending_grant"
        BY <2>3, <3>1, <3>2, <3>6 DEF LeadsToBytes
      <4>3. r.family = "delivery" => u.step = "spending_audit"
        BY <1>3, <2>3, <3>2
      <4>4. (IF r.family = "source" THEN grant'[i] ELSE audit'[i]) <= clock
        BY <1>1, <1>4, <2>3, <3>3, <4>2, <4>3
      <4>5. SpentAt(i, clock)'
        BY <1>2, <3>2, <4>4 DEF SpentAt
      <4> QED
        BY <1>5, <4>1, <4>5
    <3> QED
      BY <2>1, <3>4, <3>5, <3>6 DEF OpensInv
  <2> QED
    BY <2>2, <2>3
<1> QED
  BY <1>2, <1>3, <1>6 DEF OpensInv

LEMMA Next_OpensInv ==
  ASSUME TypeOK, LinkInv, OpensInv, InTurn, [Next]_vars
  PROVE  OpensInv'
PROOF
<1>1. ASSUME UNCHANGED <<clock, rowVars, use, opened>>
      PROVE  OpensInv'
  BY <1>1, Untouched_OpensInv DEF TypeOK
<1>2. CASE UNCHANGED vars
  BY <1>1, <1>2 DEF vars, rowVars
<1>3. CASE Tick
  BY <1>3, Untouched_OpensInv DEF Tick, TypeOK
<1>4. CASE Publication
  BY <1>1, <1>4 DEF Publication
<1>5. ASSUME NEW p \in Caller, NEW r \in Request, AuthorizeReplay(p, r) \/ AuthorizeStart(p, r)
      PROVE  OpensInv'
  BY <1>1, <1>5 DEF AuthorizeReplay, AuthorizeStart, Replay
<1>6. ASSUME NEW p \in Caller, NEW c \in call[p], CallStep(p, c)
      PROVE  OpensInv'
  <2>1. CASE AuthorizeCheck(p, c) \/ MintConflict(p, c) \/ ReplayWinner(p, c)
    BY <1>1, <2>1 DEF AuthorizeCheck, MintConflict, ReplayWinner, Replay
  <2>2. CASE \E i \in Id : MintCommit(p, c, i)
    BY <2>2, Mint_OpensInv DEF MintCommit
  <2>3. CASE AuthorizeFails(p, c)
    BY <1>1, <2>3, Mint_OpensInv DEF AuthorizeFails
  <2> QED
    BY <1>6, <2>1, <2>2, <2>3 DEF CallStep
<1>7. ASSUME NEW q \in Consumer, NEW i \in Id, Consume(q, i)
      PROVE  OpensInv'
  BY <1>7, Consume_OpensInv
<1>8. ASSUME NEW q \in Consumer, NEW u \in use[q], UseStep(q, u)
      PROVE  OpensInv'
  <2>1. CASE FindGrant(q, u) \/ FindAudit(q, u)
    BY <2>1, Find_OpensInv
  <2>2. CASE SpendAndRedirect(q, u)
    BY <2>2, Spend_OpensInv DEF SpendAndRedirect
  <2>3. CASE ConsumeFails(q, u) /\ Spend(u)
    BY <2>3, Spend_OpensInv DEF ConsumeFails
  <2>4. CASE ConsumeFails(q, u) /\ UNCHANGED <<clock, published, rowVars, told, call>>
    <3>1. /\ UNCHANGED <<clock, grant, audit, purpose, opened>>
          /\ \A s \in Consumer : use'[s] = {}
      BY <2>4 DEF ConsumeFails, InTurn, TypeOK, rowVars
    <3>2. \A i \in Id : Spent(i) => Spent(i)'
      BY <3>1 DEF Spent, SpentAt
    <3> QED
      BY <3>1, <3>2 DEF OpensInv, OneTime
  <2> QED
    BY <1>8, <2>1, <2>2, <2>3, <2>4 DEF UseStep, ConsumeFails
<1> QED
  BY <1>2, <1>3, <1>4, <1>5, <1>6, <1>7, <1>8 DEF Next

\* contracts/openapi/public.openapi.yaml:329, for requests that do not overlap, whatever
\* fails and however often they are repeated: a one-time link leads to the bytes once
\* (consumeDownloadLink; MCDownloadReuse shows that overlapping requests break it).
THEOREM OpensOnceInTurn == InTurn => (Spec => []OneTimeOpensOnce)
PROOF
<1> SUFFICES ASSUME InTurn
             PROVE  Spec => []OneTimeOpensOnce
  OBVIOUS
<1>1. Init => OpensInv
  BY DEF Init, OpensInv, OneTime
<1>2. TypeOK /\ LinkInv /\ OpensInv /\ [Next]_vars => OpensInv'
  BY Next_OpensInv
<1>3. TypeOK /\ OpensInv => OneTimeOpensOnce
  BY DEF OpensInv, OneTime, OneTimeOpensOnce, TypeOK
<1> QED
  BY <1>1, <1>2, <1>3, TypeCorrect, LinkInvariant, PTL DEF Spec
===============================================================================
