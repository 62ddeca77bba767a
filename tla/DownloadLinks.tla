----------------------------- MODULE DownloadLinks -----------------------------
(***************************************************************************)
(* Authorizations to read one asset version and the one-time links they    *)
(* may come with (packages/registry/src/prisma-public-version-read-store.ts*)
(* called by apps/api/src/public/delivery-routes.ts): authorizeDelivery    *)
(* and authorizeSource, which mint a grant and record it under an          *)
(* idempotency key in one transaction, and consumeDownloadLink, which      *)
(* finds a grant and spends it in two statements without a transaction.    *)
(*                                                                         *)
(* Times are readings of the API's clock.  A call takes its reading when   *)
(* the route starts and works with it until the end.                       *)
(***************************************************************************)
EXTENDS Naturals

CONSTANTS Caller,     \* concurrent authorize calls, of one caller scope
          Consumer,   \* concurrent requests of a download link
          Key,        \* idempotency keys
          Variant,    \* derivative variants, or dispositions of a source
          Id,         \* randomUUID
          NoId,
          Lifetime,   \* the 15 minutes of a grant
          MaxClock,   \* bound: the last reading of the clock
          MaxFaults   \* bound: calls that end in a failure of the database or the process

ASSUME LinksAssumption ==
  /\ NoId \notin Id
  /\ Lifetime \in Nat \ {0}
  /\ {MaxClock, MaxFaults} \subseteq Nat

VARIABLES
  clock,      \* the API's clock
  published,  \* whether AssetVersion.lifecycleState is published
  grant,      \* SourceAccessGrant.expiresAt by id, 0 without a row
  audit,      \* DeliveryAuthorizationAudit.expiresAt by id, 0 without a row
  purpose,    \* the request an audit row was made for
  records,    \* IdempotencyRecord rows with the payload of the response
  told,       \* the authorizations callers have been answered with
  call,       \* the authorize call each caller has under way
  use,        \* the link each consumer is following
  opened,     \* how often a link led to the bytes
  faults      \* how much of the fault bound is used up

vars == <<clock, published, grant, audit, purpose, records, told, call, use, opened, faults>>
rowVars == <<grant, audit, purpose, records>>

Request == [family : {"delivery", "source"}, key : Key, variant : Variant, oneTime : BOOLEAN]
Response == [request : Request, id : Id, until : Nat]

TypeOK ==
  /\ clock \in Nat
  /\ published \in BOOLEAN
  /\ grant \in [Id -> Nat]
  /\ audit \in [Id -> Nat]
  /\ purpose \in [Id -> SUBSET Request]
  /\ records \subseteq Response
  /\ told \subseteq Response
  /\ call \in [Caller -> SUBSET [request : Request, at : Nat,
                                 step : {"checking", "minting", "replaying"}]]
  /\ use \in [Consumer -> SUBSET [id : Id, at : Nat,
                step : {"finding_grant", "finding_audit", "spending_grant", "spending_audit"}]]
  /\ opened \in [Id -> Nat]
  /\ faults \in Nat

Init ==
  /\ clock = 1
  /\ published = FALSE
  /\ grant = [i \in Id |-> 0]
  /\ audit = [i \in Id |-> 0]
  /\ purpose = [i \in Id |-> {}]
  /\ records = {}
  /\ told = {}
  /\ call = [p \in Caller |-> {}]
  /\ use = [q \in Consumer |-> {}]
  /\ opened = [i \in Id |-> 0]
  /\ faults = 0

Fault ==
  /\ faults < MaxFaults
  /\ faults' = faults + 1

-------------------------------------------------------------------------------
\* The operation key names the version and, for a delivery, the scope.
SameOperation(r, s) == r.family = s.family /\ r.key = s.key

Recorded(r) == {c \in records : SameOperation(c.request, r)}

GoesOn(p, c, step) == call' = [call EXCEPT ![p] = {[c EXCEPT !.step = step]}]

Ends(p) == call' = [call EXCEPT ![p] = {}]

\* loadXAuthorizationReplay: the recorded payload, or a conflict for another request.
Replay(p, r) ==
  /\ \E c \in Recorded(r) : told' = IF c.request = r THEN told \union {c} ELSE told
  /\ Ends(p)
  /\ UNCHANGED <<clock, published, rowVars, use, opened, faults>>

AuthorizeReplay(p, r) == call[p] = {} /\ Replay(p, r)

AuthorizeStart(p, r) ==
  /\ call[p] = {}
  /\ Recorded(r) = {}
  /\ call' = [call EXCEPT ![p] = {[request |-> r, at |-> clock, step |-> "checking"]}]
  /\ UNCHANGED <<clock, published, rowVars, told, use, opened, faults>>

\* A delivery asks for a derivative of a published version.  A source is refused when
\* quarantined or purged only, which nothing in the registry writes.
Readable(r) == r.family = "delivery" => published

AuthorizeCheck(p, c) ==
  /\ c.step = "checking"
  /\ IF Readable(c.request) THEN GoesOn(p, c, "minting") ELSE Ends(p)
  /\ UNCHANGED <<clock, published, rowVars, told, use, opened, faults>>

\* The unique index on the operation key and the idempotency key.
Mintable_ByRequest(r) == \A c \in Recorded(r) : c.request # r

Mintable(r) == Recorded(r) = {}

\* buildAuthorizationResponsePayload.
Payload(c, i) == [request |-> c.request, id |-> i, until |-> c.at + Lifetime]

\* One transaction: the source grant, the audit row and the idempotency record.
Mint(c, i) ==
  /\ c.step = "minting"
  /\ Mintable(c.request)
  /\ audit[i] = 0
  /\ grant' = [grant EXCEPT ![i] = IF c.request.family = "source" THEN c.at + Lifetime ELSE @]
  /\ audit' = [audit EXCEPT ![i] = c.at + Lifetime]
  /\ purpose' = [purpose EXCEPT ![i] = {c.request}]
  /\ records' = records \union {Payload(c, i)}
  /\ UNCHANGED <<clock, published, use, opened>>

MintCommit(p, c, i) ==
  /\ Mint(c, i)
  /\ told' = told \union {Payload(c, i)}
  /\ Ends(p)
  /\ UNCHANGED faults

\* P2002: another call has the key; its record is replayed.
MintConflict_Answers(p, c) ==
  /\ c.step = "minting"
  /\ ~Mintable(c.request)
  /\ \E i \in Id : audit[i] = 0 /\ told' = told \union {Payload(c, i)}
  /\ Ends(p)
  /\ UNCHANGED <<clock, published, rowVars, use, opened, faults>>

MintConflict(p, c) ==
  /\ c.step = "minting"
  /\ ~Mintable(c.request)
  /\ GoesOn(p, c, "replaying")
  /\ UNCHANGED <<clock, published, rowVars, told, use, opened, faults>>

ReplayWinner(p, c) == c.step = "replaying" /\ Replay(p, c.request)

\* A statement fails or the process dies, before the transaction commits or after it.
AuthorizeFails(p, c) ==
  /\ Fault
  /\ Ends(p)
  /\ \/ \E i \in Id : Mint(c, i)
     \/ UNCHANGED <<clock, published, rowVars, use, opened>>
  /\ UNCHANGED told

-------------------------------------------------------------------------------
\* consumeDownloadLink.  The source grant has the id, and so has the audit row of a
\* source grant or of a one-time delivery (grantId).
HasToken(i) == \E r \in purpose[i] : r.family = "source" \/ r.oneTime

\* expiresAt: { gt: now }
Unexpired_Inclusive(until, now) == until # 0 /\ until >= now

Unexpired(until, now) == until > now

\* A link nobody was given is not found; whoever follows one follows a minted one.
Consume(q, i) ==
  /\ use[q] = {}
  /\ purpose[i] # {}
  /\ use' = [use EXCEPT ![q] = {[id |-> i, at |-> clock, step |-> "finding_grant"]}]
  /\ UNCHANGED <<clock, published, rowVars, told, call, opened, faults>>

Finds(q, u, step) ==
  /\ use' = [use EXCEPT ![q] = IF step = "not_found" THEN {} ELSE {[u EXCEPT !.step = step]}]
  /\ UNCHANGED <<clock, published, rowVars, told, call, opened, faults>>

FindGrant(q, u) ==
  /\ u.step = "finding_grant"
  /\ Finds(q, u, IF Unexpired(grant[u.id], u.at) THEN "spending_grant" ELSE "finding_audit")

FindAudit(q, u) ==
  /\ u.step = "finding_audit"
  /\ Finds(q, u, IF HasToken(u.id) /\ Unexpired(audit[u.id], u.at)
                 THEN "spending_audit" ELSE "not_found")

\* The update goes by the id of the row found, whatever its expiresAt is by now.
Spend_ByVersion(u) ==
  /\ u.step \in {"spending_grant", "spending_audit"}
  /\ grant' = [i \in Id |-> IF grant[i] = 0 THEN 0 ELSE u.at]
  /\ audit' = [i \in Id |-> IF audit[i] = 0 THEN 0 ELSE u.at]
  /\ UNCHANGED <<clock, published, purpose, records, told, call>>

Spend(u) ==
  /\ u.step \in {"spending_grant", "spending_audit"}
  /\ grant' = IF u.step = "spending_grant" THEN [grant EXCEPT ![u.id] = u.at] ELSE grant
  /\ audit' = IF u.step = "spending_audit" THEN [audit EXCEPT ![u.id] = u.at] ELSE audit
  /\ UNCHANGED <<clock, published, purpose, records, told, call>>

\* A grant redirects to its proxy path and a delivery's audit row to the delivery URL.
\* The audit row of a one-time source link has the link itself as its URL.
LeadsToBytes(u) ==
  \/ u.step = "spending_grant"
  \/ \E r \in purpose[u.id] : r.family = "delivery" \/ ~r.oneTime

SpendAndRedirect(q, u) ==
  /\ Spend(u)
  /\ opened' = [opened EXCEPT ![u.id] = IF LeadsToBytes(u) THEN @ + 1 ELSE @]
  /\ use' = [use EXCEPT ![q] = {}]
  /\ UNCHANGED faults

\* A statement fails or the process dies, before the update commits or after it.
ConsumeFails(q, u) ==
  /\ Fault
  /\ use' = [use EXCEPT ![q] = {}]
  /\ Spend(u) \/ UNCHANGED <<clock, published, rowVars, told, call>>
  /\ UNCHANGED opened

-------------------------------------------------------------------------------
\* Time passes; publication executions take the version in and out of published.
Tick ==
  /\ clock < MaxClock
  /\ clock' = clock + 1
  /\ UNCHANGED <<published, rowVars, told, call, use, opened, faults>>

Publication ==
  /\ published' = ~published
  /\ UNCHANGED <<clock, rowVars, told, call, use, opened, faults>>

CallStep(p, c) ==
  \/ AuthorizeCheck(p, c)
  \/ \E i \in Id : MintCommit(p, c, i)
  \/ MintConflict(p, c)
  \/ ReplayWinner(p, c)
  \/ AuthorizeFails(p, c)

UseStep(q, u) ==
  \/ FindGrant(q, u)
  \/ FindAudit(q, u)
  \/ SpendAndRedirect(q, u)
  \/ ConsumeFails(q, u)

Next ==
  \/ Tick
  \/ Publication
  \/ \E p \in Caller :
       \/ \E r \in Request : AuthorizeReplay(p, r) \/ AuthorizeStart(p, r)
       \/ \E c \in call[p] : CallStep(p, c)
  \/ \E q \in Consumer :
       \/ \E i \in Id : Consume(q, i)
       \/ \E u \in use[q] : UseStep(q, u)

Spec == Init /\ [][Next]_vars

-------------------------------------------------------------------------------
\* docs/persistence-model.md section 3.5, for calls that overlap, retry, fail or die:
\* a key of an operation has one grant with one audit row, made together with its
\* record, and no row is without a record (authorizeX, the transaction and P2002).
OneGrantPerKey ==
  /\ \A c, d \in records : SameOperation(c.request, d.request) \/ c.id = d.id => c = d
  /\ \A i \in Id : purpose[i] = {c.request : c \in {d \in records : d.id = i}}
  /\ \A i \in Id : audit[i] # 0 <=> purpose[i] # {}
  /\ \A i \in Id : grant[i] # 0 <=> \E r \in purpose[i] : r.family = "source"

\* docs/idempotency-and-dispatch.md section 4.4: whoever is answered under a key is
\* answered with the one recorded authorization, so a retry gets the same link and
\* another request under the key is never answered.
AnsweredFromRecord == told \subseteq records

\* A link works until it is used: as long as it led nobody to the bytes, and no call
\* failed on the way, the row behind it expires when the caller was told.
WorksUntilUsed(responses) ==
  \A t \in responses :
    t.request.oneTime /\ opened[t.id] = 0 /\ faults = 0 =>
      t.until = IF t.request.family = "source" THEN grant[t.id] ELSE audit[t.id]

ToldLinkWorks == WorksUntilUsed(told)

\* contracts/openapi/public.openapi.yaml:329: a one-time link becomes invalid after the
\* first successful access.  Consumers that overlap both find the row before either has
\* spent it.
OneTimeOpensOnce ==
  \A i \in Id : (\E r \in purpose[i] : r.oneTime) => opened[i] <= 1

\* A consumer follows one link, and what it found had a row.
UsesGrounded ==
  /\ clock > 0
  /\ \A q \in Consumer : \A u \in use[q] :
       /\ u.at > 0
       /\ u.step = "spending_grant" => grant[u.id] # 0
       /\ u.step = "spending_audit" => audit[u.id] # 0

\* The inductive invariant behind the three: ToldLinkWorks comes from the same of
\* every record, which a replay may tell.
LinkInv ==
  /\ OneGrantPerKey
  /\ AnsweredFromRecord
  /\ UsesGrounded
  /\ WorksUntilUsed(records)

===============================================================================
