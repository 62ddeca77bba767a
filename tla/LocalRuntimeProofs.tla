-------------------------- MODULE LocalRuntimeProofs --------------------------
(***************************************************************************)
(* Proofs about LocalRuntime, for any versions, clients, keys and numbers  *)
(* of faults: type correctness, the invariant RuntimeInv of memory, file   *)
(* and calls as long as no save was torn, and that the runtime implements  *)
(* VersionContract.                                                        *)
(***************************************************************************)
EXTENDS LocalRuntime, TLAPS

-------------------------------------------------------------------------------
(* What memory looks like after the changes that actions make to it. *)

LEMMA LifeSet ==
  ASSUME NEW s \in State, NEW v \in Version, NEW l \in Life
  PROVE  /\ [s EXCEPT !.life[v] = l] \in State
         /\ [s EXCEPT !.life[v] = l].life = [s.life EXCEPT ![v] = l]
         /\ [s EXCEPT !.life[v] = l].dispatch = s.dispatch
         /\ [s EXCEPT !.life[v] = l].rows = s.rows
         /\ [s EXCEPT !.life[v] = l].created = s.created
         /\ [s EXCEPT !.life[v] = l].completed = s.completed
  BY DEF State

LEMMA CompletedSet ==
  ASSUME NEW s \in State, NEW k, NEW v \in Version
  PROVE  /\ [s EXCEPT !.completed[k] = v] \in State
         /\ [s EXCEPT !.completed[k] = v].life = s.life
         /\ [s EXCEPT !.completed[k] = v].dispatch = s.dispatch
         /\ [s EXCEPT !.completed[k] = v].rows = s.rows
         /\ [s EXCEPT !.completed[k] = v].created = s.created
         /\ [s EXCEPT !.completed[k] = v].completed = [s.completed EXCEPT ![k] = v]
  BY DEF State

\* What issueUploadSession makes of memory.
LEMMA IssueNewMemory ==
  ASSUME TypeOK, NEW c \in Client, NEW k \in IssueKey, NEW h \in Hash, IssueNew(c, k, h)
  PROVE  LET v == minted + 1 IN
         /\ v \in Version /\ v \in 0..MaxVersions
         /\ store' \in State
         /\ store'.life = [store.life EXCEPT ![v] = "session_created"]
         /\ store'.dispatch = store.dispatch /\ store'.rows = store.rows
         /\ store'.completed = store.completed
         /\ store'.created = store.created \union {[key |-> k, hash |-> h, version |-> v]}
PROOF
<1> DEFINE v == minted + 1
           m == store.created \union {[key |-> k, hash |-> h, version |-> v]}
<1>1. v \in Version /\ v \in 0..MaxVersions
  BY LocalAssumption DEF IssueNew, Version, TypeOK
<1>2. m \subseteq [key : IssueKey, hash : Hash, version : Version]
  BY <1>1 DEF TypeOK, State
<1> DEFINE u == [store EXCEPT !.life[v] = "session_created"]
<1>3. store' = [u EXCEPT !.created = m]
  BY DEF IssueNew
<1>4. /\ u \in State /\ u.life = [store.life EXCEPT ![v] = "session_created"]
      /\ u.dispatch = store.dispatch /\ u.rows = store.rows
      /\ u.completed = store.completed
  BY <1>1, LifeSet DEF Life, TypeOK
<1> HIDE DEF m, u
<1>5. /\ store' \in State /\ store'.life = u.life
      /\ store'.dispatch = u.dispatch /\ store'.rows = u.rows
      /\ store'.completed = u.completed /\ store'.created = m
  BY <1>2, <1>3, <1>4 DEF State
<1> QED
  BY <1>1, <1>4, <1>5 DEF m

\* What Canonicalized makes of it.
LEMMA CanonicalizedMemory ==
  ASSUME TypeOK, NEW c, NEW r, Canonicalized(c, r), at[c] \in Version
  PROVE  /\ store' \in State
         /\ store'.life = [store.life EXCEPT ![at[c]] = "canonical"]
         /\ store'.dispatch = [store.dispatch EXCEPT ![at[c]] = "pending"]
         /\ store'.completed = [store.completed EXCEPT ![r.key] = at[c]]
         /\ store'.rows = store.rows /\ store'.created = store.created
PROOF
<1> DEFINE u == [store EXCEPT !.life[at[c]] = "canonical"]
           w == [u EXCEPT !.dispatch[at[c]] = "pending"]
<1>1. store' = [w EXCEPT !.completed[r.key] = at[c]]
  BY DEF Canonicalized
<1>2. /\ u \in State /\ u.life = [store.life EXCEPT ![at[c]] = "canonical"]
      /\ u.dispatch = store.dispatch /\ u.rows = store.rows /\ u.completed = store.completed
      /\ u.created = store.created
  BY LifeSet DEF Life, TypeOK
<1> HIDE DEF u
<1>3. /\ w \in State /\ w.life = u.life
      /\ w.dispatch = [u.dispatch EXCEPT ![at[c]] = "pending"]
      /\ w.rows = u.rows /\ w.created = u.created /\ w.completed = u.completed
  BY <1>2 DEF State
<1> HIDE DEF w
<1>4. /\ store' \in State /\ store'.completed = [w.completed EXCEPT ![r.key] = at[c]]
      /\ store'.life = w.life /\ store'.dispatch = w.dispatch
      /\ store'.rows = w.rows /\ store'.created = w.created
  BY <1>1, <1>3 DEF State
<1> QED
  BY <1>2, <1>3, <1>4

\* What Publish makes of it.
LEMMA PublishedMemory ==
  ASSUME TypeOK, NEW v \in Version, PublishRows(v)
  PROVE  /\ store' \in State /\ file' = store'
         /\ store'.life = [store.life EXCEPT ![v] = "published"]
         /\ store'.dispatch = [store.dispatch EXCEPT ![v] = "completed"]
         /\ store'.rows = store.rows \union {v}
         /\ store'.completed = store.completed /\ store'.created = store.created
PROOF
<1> DEFINE u == [store EXCEPT !.life[v] = "published"]
           w == [u EXCEPT !.dispatch[v] = "completed"]
<1>1. store' = [w EXCEPT !.rows = store.rows \union {v}] /\ file' = store'
  BY DEF PublishRows, Save
<1>2. /\ u \in State /\ u.life = [store.life EXCEPT ![v] = "published"]
      /\ u.dispatch = store.dispatch /\ u.rows = store.rows /\ u.completed = store.completed
      /\ u.created = store.created
  BY LifeSet DEF Life, TypeOK
<1> HIDE DEF u
<1>3. /\ w \in State /\ w.life = u.life
      /\ w.dispatch = [u.dispatch EXCEPT ![v] = "completed"]
      /\ w.rows = u.rows /\ w.created = u.created /\ w.completed = u.completed
  BY <1>2 DEF State
<1> HIDE DEF w
<1>4. /\ store' \in State /\ store'.completed = w.completed
      /\ store'.life = w.life /\ store'.dispatch = w.dispatch
      /\ store'.rows = store.rows \union {v} /\ store'.created = w.created
  BY <1>1, <1>2, <1>3 DEF State
<1> QED
  BY <1>1, <1>2, <1>3, <1>4

LEMMA EmptyTyped == Empty \in State
  BY DEF Empty, State, Life

\* An actor that is at work has a version to work on.
Busy == \A a \in Actor : pc[a] # "idle" => at[a] \in Version

-------------------------------------------------------------------------------
(* Type correctness. *)

Labels == Publishing \union {"idle", "saving", "completing", "canonicalizing", "finish"}

LEMMA CallBeginsTyped ==
  ASSUME TypeOK, Busy, NEW c \in Client, CallBegins(c)
  PROVE  TypeOK' /\ Busy'
PROOF
<1>0. c \in Actor
  BY DEF Actor
<1>1. ASSUME NEW k \in IssueKey, NEW h \in Hash, IssueReplay(c, k, h)
      PROVE  TypeOK' /\ Busy'
  <2>1. Creation(k) \in Request
    BY DEF Creation, Request, Key
  <2>2. PICK v \in Version : Accept(c, v, Creation(k), "saving")
    BY <1>1 DEF IssueReplay, Issued, TypeOK, State
  <2> QED
    BY <1>0, <1>1, <2>1, <2>2
       DEF IssueReplay, Accept, Goto, TypeOK, Busy, objectVars, replayVars, observers
<1>2. ASSUME NEW k \in IssueKey, NEW h \in Hash, IssueNew(c, k, h)
      PROVE  TypeOK' /\ Busy'
  <2>1. Creation(k) \in Request
    BY DEF Creation, Request, Key
  <2>2. minted + 1 \in Version /\ minted + 1 \in 0..MaxVersions
    BY <1>2, IssueNewMemory
  <2>3. store' \in State
    BY <1>2, IssueNewMemory
  <2>4. Accept(c, minted + 1, Creation(k), "saving")
    BY <1>2 DEF IssueNew
  <2> QED
    BY <1>0, <1>2, <2>1, <2>2, <2>3, <2>4
       DEF IssueNew, Accept, Goto, TypeOK, Busy, objectVars, replayVars, observers
<1>3. ASSUME NEW v \in Version, NEW r \in Request, CompleteStart(c, v, r)
      PROVE  TypeOK' /\ Busy'
  BY <1>0, <1>3
     DEF CompleteStart, Accept, Goto, TypeOK, Busy, objectVars, replayVars, observers
<1> QED
  BY <1>1, <1>2, <1>3 DEF CallBegins

\* What a call that goes on leaves alone, however it goes on.
LEMMA ToldTyped ==
  ASSUME TypeOK, NEW r \in Request, NEW v \in Version, NEW what \in {"issued", "completed"}
  PROVE  Tell(what, r, v) \subseteq [what : {"issued", "completed"}, key : Key, version : Version]
  BY DEF Tell, TypeOK, Request

LEMMA CallGoesOnTyped ==
  ASSUME TypeOK, Busy, NEW c \in Client, NEW r \in req[c], CallGoesOn(c, r)
  PROVE  TypeOK' /\ Busy'
PROOF
<1>0. c \in Actor /\ r \in Request /\ "idle" \in Labels
  BY DEF Actor, TypeOK, Labels
<1>1. pc[c] # "idle" /\ at[c] \in Version
  BY <1>0
     DEF CallGoesOn, IssueSaves, CompleteDuplicate, CompleteAccepted, CompleteRefused,
         Canonicalized, CompleteFinish, Goto, Busy
<1>2. CASE IssueSaves(c, r) \/ CompleteFinish(c, r)
  <2>1. told' \subseteq [what : {"issued", "completed"}, key : Key, version : Version]
    BY <1>0, <1>1, <1>2, ToldTyped DEF IssueSaves, CompleteFinish
  <2> QED
    BY <1>0, <1>2, <2>1
       DEF IssueSaves, CompleteFinish, Save, Leave, TypeOK, Busy, objectVars, replayVars
<1>3. CASE CompleteDuplicate(c, r)
  <2>1. store' \in State
    BY <1>1, <1>3, CompletedSet DEF CompleteDuplicate, TypeOK
  <2>2. pc' \in [Actor -> Labels] /\ \A a \in Actor : pc'[a] # "idle" => pc[a] # "idle"
    BY <1>0, <1>1, <1>3 DEF CompleteDuplicate, Goto, AfterCompletion, TypeOK, Labels, Publishing
  <2> QED
    BY <1>3, <2>1, <2>2
       DEF CompleteDuplicate, TypeOK, Busy, Labels, objectVars, replayVars, observers
<1>4. CASE CompleteAccepted(c, r)
  <2>1. store' \in State
    BY <1>1, <1>4, LifeSet DEF CompleteAccepted, TypeOK, Life
  <2>2. pc' \in [Actor -> Labels] /\ \A a \in Actor : pc'[a] # "idle" => pc[a] # "idle"
    BY <1>0, <1>1, <1>4 DEF CompleteAccepted, Goto, TypeOK, Labels
  <2> QED
    BY <1>4, <2>1, <2>2
       DEF CompleteAccepted, TypeOK, Busy, Labels, objectVars, replayVars, observers
<1>5. CASE CompleteRefused(c, r)
  <2>1. store' \in State /\ file' = store'
    BY <1>1, <1>5, LifeSet DEF CompleteRefused, Save, TypeOK, Life
  <2> QED
    BY <1>0, <1>5, <2>1
       DEF CompleteRefused, Leave, TypeOK, Busy, objectVars, replayVars, observers
<1>6. CASE Canonicalized(c, r)
  <2>1. store' \in State
    BY <1>1, <1>6, CanonicalizedMemory
  <2>2. pc' \in [Actor -> Labels] /\ \A a \in Actor : pc'[a] # "idle" => pc[a] # "idle"
    BY <1>0, <1>1, <1>6 DEF Canonicalized, Goto, AfterCompletion, TypeOK, Labels, Publishing
  <2> QED
    BY <1>6, <2>1, <2>2
       DEF Canonicalized, TypeOK, Busy, Labels, objectVars, replayVars, observers
<1> QED
  BY <1>2, <1>3, <1>4, <1>5, <1>6 DEF CallGoesOn

LEMMA FaultTyped ==
  ASSUME TypeOK, NEW kind \in {"restart", "torn", "publication"}, Fault(kind)
  PROVE  /\ faults' \in [{"restart", "torn", "publication"} -> Nat]
         /\ faults'["torn"] >= faults["torn"]
         /\ faults["torn"] \in Nat
         /\ kind = "torn" => faults'["torn"] > 0
         /\ kind # "torn" => faults'["torn"] = faults["torn"]
  BY DEF Fault, TypeOK

LEMMA PublicationTyped ==
  ASSUME TypeOK, Busy, NEW a \in Actor, Publication(a) \/ PublicationThrows(a)
  PROVE  TypeOK' /\ Busy'
PROOF
<1>1. pc[a] # "idle" /\ at[a] \in Version
  BY DEF Publication, Begin, PutDerivative, PutManifest, Publish, Published, Goto,
         PublicationThrows, Busy, Publishing
<1>2. CASE Begin(a)
  <2>1. store' \in State /\ file' = store'
    BY <1>1, <1>2, LifeSet DEF Begin, Save, TypeOK, Life
  <2>2. pc' \in [Actor -> Labels] /\ \A b \in Actor : pc'[b] # "idle" => pc[b] # "idle"
    BY <1>1, <1>2 DEF Begin, Goto, TypeOK, Labels, Publishing
  <2> QED
    BY <1>2, <2>1, <2>2 DEF Begin, TypeOK, Busy, Labels, objectVars, replayVars, observers
<1>3. CASE PutDerivative(a) \/ PutManifest(a)
  <2>1. pc' \in [Actor -> Labels] /\ \A b \in Actor : pc'[b] # "idle" => pc[b] # "idle"
    BY <1>1, <1>3 DEF PutDerivative, PutManifest, Goto, TypeOK, Labels, Publishing
  <2> QED
    BY <1>1, <1>3, <2>1
       DEF PutDerivative, PutManifest, TypeOK, Busy, Labels, replayVars, observers
<1>4. CASE Publish(a)
  <2>1. store' \in State /\ file' = store'
    BY <1>1, <1>4, PublishedMemory DEF Publish
  <2>2. /\ pc' \in [Actor -> Labels] /\ at' \in [Actor -> Version \union {0}]
        /\ \A b \in Actor : pc'[b] # "idle" => pc[b] # "idle" /\ at'[b] = at[b]
    BY <1>1, <1>4 DEF Publish, Published, Goto, TypeOK, Labels, Publishing
  <2> QED
    BY <1>4, <2>1, <2>2 DEF Publish, TypeOK, Busy, Labels, objectVars, replayVars, observers
<1>5. CASE PublicationThrows(a)
  <2>1. faults' \in [{"restart", "torn", "publication"} -> Nat]
    BY <1>5, FaultTyped DEF PublicationThrows
  <2>2. store' \in State /\ file' \in State /\ todo' \subseteq Generic
        /\ replay' \in {"running", "done", "failed"}
    BY <1>5 DEF PublicationThrows, Save, TypeOK, replayVars
  <2>3. /\ pc' \in [Actor -> Labels] /\ at' \in [Actor -> Version \union {0}]
        /\ req' \in [Actor -> SUBSET Request]
        /\ \A b \in Actor : pc'[b] # "idle" => pc[b] # "idle" /\ at'[b] = at[b]
    BY <1>5 DEF PublicationThrows, Leave, TypeOK, Labels
  <2> QED
    BY <1>5, <2>1, <2>2, <2>3 DEF PublicationThrows, TypeOK, Busy, Labels, objectVars, observers
<1> QED
  BY <1>2, <1>3, <1>4, <1>5 DEF Publication

LEMMA StartedTyped ==
  ASSUME TypeOK, NEW s \in State, Started(s)
  PROVE  /\ store' \in State /\ file' \in State /\ todo' \subseteq Generic
         /\ replay' \in {"running", "done", "failed"}
         /\ pc' \in [Actor -> Labels] /\ at' \in [Actor -> Version \union {0}]
         /\ req' \in [Actor -> SUBSET Request] /\ Busy'
         /\ UNCHANGED <<minted, late, observers>>
  BY DEF Started, Save, Pending, Labels, Busy

LEMMA RuntimeTyped ==
  ASSUME TypeOK, Busy, Replay \/ Restart \/ RestartAfterTornSave
  PROVE  TypeOK' /\ Busy'
PROOF
<1>1. Boot \in Actor /\ Generic \subseteq Version
  BY LocalAssumption DEF Actor
<1>2. CASE ReplayNext
  BY <1>1, <1>2 DEF ReplayNext, Goto, TypeOK, Busy, Publishing, objectVars, observers
<1>3. CASE ReplayEnds
  BY <1>3 DEF ReplayEnds, TypeOK, Busy, objectVars, callVars, observers
<1>4. CASE Restart
  <2>1. Started(file) /\ file \in State
    BY <1>4 DEF Restart, TypeOK
  <2>2. faults' \in [{"restart", "torn", "publication"} -> Nat]
    BY <1>4, FaultTyped DEF Restart
  <2> QED
    BY <1>4, <2>1, <2>2, StartedTyped DEF Restart, TypeOK, Labels, objectVars, observers
<1>5. CASE RestartAfterTornSave
  <2>1. faults' \in [{"restart", "torn", "publication"} -> Nat]
    BY <1>5, FaultTyped DEF RestartAfterTornSave
  <2>2. PICK s \in State : Started(s)
    BY <1>5, EmptyTyped DEF RestartAfterTornSave, TypeOK
  <2>3. staged' \subseteq Version /\ derived' \subseteq Version /\ manifests' \subseteq Version
    BY <1>5 DEF RestartAfterTornSave, TypeOK, objectVars
  <2> QED
    BY <2>1, <2>2, <2>3, StartedTyped DEF TypeOK, Labels, observers
<1> QED
  BY <1>2, <1>3, <1>4, <1>5 DEF Replay

LEMMA NextTyped ==
  ASSUME TypeOK, Busy, Next
  PROVE  TypeOK' /\ Busy'
PROOF
<1>1. ASSUME NEW v \in Version, Put(v) \/ Read(v) \/ Expire(v)
      PROVE  TypeOK' /\ Busy'
  BY <1>1
     DEF Put, Read, Expire, TypeOK, Busy, objectVars, callVars, replayVars, observers
<1> QED
  BY <1>1, CallBeginsTyped, CallGoesOnTyped, PublicationTyped, RuntimeTyped DEF Next

LEMMA Typed == Spec => [](TypeOK /\ Busy)
PROOF
<1>1. Init => TypeOK /\ Busy
  BY EmptyTyped, LocalAssumption DEF Init, TypeOK, Busy
<1>2. TypeOK /\ Busy /\ UNCHANGED vars => TypeOK' /\ Busy'
  BY DEF vars, TypeOK, Busy, objectVars, callVars, replayVars, observers
<1>3. TypeOK /\ Busy /\ [Next]_vars => TypeOK' /\ Busy'
  BY <1>2, NextTyped
<1> QED
  BY <1>1, <1>3, PTL DEF Spec

\* Memory, files, objects and calls of the runtime are well formed, whatever is lost or torn.
THEOREM TypeCorrect == Spec => []TypeOK
  BY Typed, PTL

-------------------------------------------------------------------------------
(* The invariant of a runtime whose files are whole. *)

\* What holds of memory and of the file alike.
Snapshot(s) ==
  /\ \A v \in Version : Servable(s, v)
  /\ \A i \in s.created : s.life[i.version] # "absent"
  /\ \A i, j \in s.created : i.key = j.key => i.version = j.version
  /\ \A k \in CompleteKey : s.completed[k] # 0 => s.dispatch[s.completed[k]] # "none"

\* The one is an earlier state of the other.
Forward(s, t) ==
  /\ s.created \subseteq t.created
  /\ \A v \in Version : /\ s.life[v] # "absent" => t.life[v] # "absent"
                        /\ s.dispatch[v] # "none" => t.dispatch[v] # "none"

\* Rows are saved with the change that makes them, and memory has no dispatch of a version
\* the file has not heard of.
FileIsOlder ==
  /\ Forward(file, store)
  /\ file.rows = store.rows
  /\ \A v \in Version : store.dispatch[v] # "none" => file.life[v] # "absent"

\* What an actor may count on where it is.
ActorSound(a) ==
  /\ pc[a] = "saving" =>
       \A r \in req[a] : \E i \in store.created : i.key = r.key /\ i.version = at[a]
  /\ pc[a] \in {"completing", "canonicalizing"} =>
       file.life[at[a]] # "absent" /\ \A r \in req[a] : r.key \in CompleteKey
  /\ pc[a] \in Publishing \union {"finish"} => store.dispatch[at[a]] # "none"
  /\ pc[a] \in Publishing \ {"begin"} => file.dispatch[at[a]] # "none"
  /\ pc[a] \in {"manifest", "publish"} => at[a] \in derived
  /\ pc[a] = "publish" => at[a] \in manifests

\* What was told was saved.
TellSound(t) ==
  /\ file.life[t.version] # "absent"
  /\ t.what = "issued" => \E i \in file.created : i.key = t.key /\ i.version = t.version
  /\ t.what = "completed" => file.dispatch[t.version] # "none"

RuntimeSound ==
  /\ Snapshot(store) /\ Snapshot(file) /\ FileIsOlder
  /\ \A a \in Actor : ActorSound(a)
  /\ \A t \in told : TellSound(t)
  /\ read \subseteq file.rows
  /\ \A v \in todo : store.dispatch[v] # "none"

RuntimeInv == Intact => RuntimeSound

-------------------------------------------------------------------------------
\* An actor that does nothing may count on what it did before.
LEMMA ActorKept ==
  ASSUME TypeOK, Busy, NEW a \in Actor, ActorSound(a),
         Forward(store, store'), Forward(file, file'),
         derived \subseteq derived', manifests \subseteq manifests',
         pc'[a] = pc[a], at'[a] = at[a], req'[a] = req[a]
  PROVE  ActorSound(a)'
PROOF
<1>1. pc[a] # "idle" => at[a] \in Version
  BY DEF Busy
<1> QED
  BY <1>1 DEF ActorSound, Forward, Publishing

\* What a step other than a restart has to show: it takes memory forward, leaves it sound,
\* publishes what the file knows to be dispatched, saves all of memory or nothing, and what
\* its actor and its caller go by is there.
Carried(c) ==
  /\ Forward(store, store') /\ Snapshot(store)'
  /\ derived \subseteq derived' /\ manifests \subseteq manifests'
  /\ \A v \in Version : store'.dispatch[v] # "none" => file.life[v] # "absent"
  /\ store.rows \subseteq store'.rows
  /\ \A v \in store'.rows \ store.rows : file.dispatch[v] # "none"
  /\ \/ file' = file /\ store'.rows = store.rows
     \/ file' = store'
  /\ \A a \in Actor \ {c} : pc'[a] = pc[a] /\ at'[a] = at[a] /\ req'[a] = req[a]
  /\ ActorSound(c)'
  /\ told \subseteq told' /\ \A t \in told' \ told : TellSound(t)'
  /\ read \subseteq read' /\ read' \subseteq read \union file.rows
  /\ todo' \subseteq todo

LEMMA CarriedKeeps ==
  ASSUME TypeOK, TypeOK', Busy, RuntimeSound, NEW c \in Actor, Carried(c)
  PROVE  RuntimeSound'
PROOF
<1>1. Forward(file, file')
  BY DEF RuntimeSound, FileIsOlder, Carried, Forward
<1>2. Snapshot(file)'
  <2>1. CASE file' = file
    BY <2>1 DEF RuntimeSound, Carried, Snapshot, Servable
  <2>2. CASE file' = store'
    BY <2>2 DEF Carried, Snapshot, Servable
  <2> QED
    BY <2>1, <2>2 DEF Carried
<1>3. FileIsOlder'
  BY DEF RuntimeSound, FileIsOlder, Carried, Forward
<1>4. \A a \in Actor : ActorSound(a)'
  BY <1>1, ActorKept DEF RuntimeSound, Carried
<1>5. \A t \in told' : TellSound(t)'
  <2> SUFFICES ASSUME NEW t \in told', t \in told
               PROVE  TellSound(t)'
    BY DEF Carried
  <2>1. t.version \in Version
    BY DEF TypeOK
  <2> QED
    BY <1>1, <2>1 DEF RuntimeSound, TellSound, Forward
<1>6. \A v \in todo' : store'.dispatch[v] # "none"
  BY LocalAssumption DEF RuntimeSound, Carried, Forward, TypeOK
<1>7. read' \subseteq file'.rows
  BY DEF RuntimeSound, FileIsOlder, Carried
<1> QED
  BY <1>2, <1>3, <1>4, <1>5, <1>6, <1>7 DEF RuntimeSound, Carried

-------------------------------------------------------------------------------
(* Every step but a restart carries memory on. *)

\* A step that only moves actor c, which works on a version then.
LEMMA MoveCarries ==
  ASSUME TypeOK, RuntimeSound, NEW c \in Actor,
         UNCHANGED <<store, file, told>>,
         read \subseteq read', read' \subseteq read \union file.rows,
         derived \subseteq derived', manifests \subseteq manifests', todo' \subseteq todo,
         \A a \in Actor \ {c} : pc'[a] = pc[a] /\ at'[a] = at[a] /\ req'[a] = req[a],
         ActorSound(c)'
  PROVE  Carried(c)
  BY DEF RuntimeSound, Carried, Forward, FileIsOlder, Snapshot, Servable

LEMMA CallBeginsCarries ==
  ASSUME TypeOK, TypeOK', Busy, RuntimeSound, NEW c \in Client, CallBegins(c)
  PROVE  Carried(c)
PROOF
<1>0. c \in Actor
  BY DEF Actor
<1>1. ASSUME NEW k \in IssueKey, NEW h \in Hash, IssueReplay(c, k, h)
      PROVE  Carried(c)
  <2>1. PICK i \in store.created : i.key = k /\ Accept(c, i.version, Creation(k), "saving")
    BY <1>1 DEF IssueReplay, Issued
  <2>2. /\ pc'[c] = "saving" /\ at'[c] = i.version /\ req'[c] = {Creation(k)}
        /\ \A a \in Actor \ {c} : pc'[a] = pc[a] /\ at'[a] = at[a] /\ req'[a] = req[a]
    BY <1>0, <2>1 DEF Accept, Goto, TypeOK
  <2>3. ActorSound(c)'
    BY <1>1, <2>1, <2>2 DEF IssueReplay, ActorSound, Creation, Publishing
  <2> QED
    BY <1>0, <1>1, <2>2, <2>3, MoveCarries DEF IssueReplay, objectVars, replayVars, observers
<1>2. ASSUME NEW k \in IssueKey, NEW h \in Hash, IssueNew(c, k, h)
      PROVE  Carried(c)
  <2> DEFINE v == minted + 1
             new == [key |-> k, hash |-> h, version |-> v]
  <2>1. v \in Version
    BY <1>2, IssueNewMemory
  <2>2. /\ store'.life = [store.life EXCEPT ![v] = "session_created"]
        /\ store'.dispatch = store.dispatch /\ store'.rows = store.rows
        /\ store'.completed = store.completed
        /\ store'.created = store.created \union {[key |-> k, hash |-> h, version |-> v]}
    BY <1>2, IssueNewMemory
  <2>3. Accept(c, v, Creation(k), "saving")
    BY <1>2 DEF IssueNew
  <2>4. /\ pc'[c] = "saving" /\ at'[c] = v /\ req'[c] = {Creation(k)}
        /\ \A a \in Actor \ {c} : pc'[a] = pc[a] /\ at'[a] = at[a] /\ req'[a] = req[a]
    BY <1>0, <2>3 DEF Accept, Goto, TypeOK
  <2> HIDE DEF v
  <2>5. Forward(store, store')
    BY <2>1, <2>2 DEF Forward, TypeOK, State
  <2>6. Snapshot(store)'
    <3>1. \A w \in Version : Servable(store, w)'
      BY <1>2, <2>1, <2>2
         DEF RuntimeSound, Snapshot, Servable, IssueNew, objectVars, TypeOK, State
    <3>2. \A i \in store'.created : store'.life[i.version] # "absent"
      BY <2>1, <2>2 DEF RuntimeSound, Snapshot, TypeOK, State
    <3>3. \A i \in store.created : i.key # k
      BY <1>2 DEF IssueNew, Issued
    <3>4. \A i, j \in store'.created : i.key = j.key => i.version = j.version
      BY <2>2, <3>3 DEF RuntimeSound, Snapshot
    <3> QED
      BY <2>2, <3>1, <3>2, <3>4 DEF RuntimeSound, Snapshot
  <2>7. ActorSound(c)'
    <3>1. new \in store'.created /\ new.key = Creation(k).key /\ new.version = v
      BY <2>2 DEF Creation
    <3> QED
      BY <2>4, <3>1 DEF ActorSound, Publishing
  <2> QED
    BY <1>2, <2>2, <2>4, <2>5, <2>6, <2>7
       DEF IssueNew, Carried, RuntimeSound, FileIsOlder, objectVars, replayVars, observers
<1>3. ASSUME NEW v \in Version, NEW r \in Request, CompleteStart(c, v, r)
      PROVE  Carried(c)
  <2>1. Accept(c, v, r, "completing") /\ Known(v) /\ r.key \in CompleteKey
    BY <1>3 DEF CompleteStart
  <2>2. /\ pc'[c] = "completing" /\ at'[c] = v /\ req'[c] = {r}
        /\ \A a \in Actor \ {c} : pc'[a] = pc[a] /\ at'[a] = at[a] /\ req'[a] = req[a]
    BY <1>0, <2>1 DEF Accept, Goto, TypeOK
  <2>3. file.life[v] # "absent"
    BY <2>1 DEF Known, RuntimeSound, TellSound
  <2>4. ActorSound(c)'
    BY <1>3, <2>1, <2>2, <2>3 DEF CompleteStart, ActorSound, Publishing
  <2> QED
    BY <1>0, <1>3, <2>2, <2>4, MoveCarries DEF CompleteStart, objectVars, replayVars, observers
<1> QED
  BY <1>1, <1>2, <1>3 DEF CallBegins

\* A call that does not stop: where it goes, and the others stay.
LEMMA GotoMoves ==
  ASSUME TypeOK, NEW a \in Actor, NEW from, NEW to, Goto(a, from, to)
  PROVE  /\ pc[a] = from /\ pc'[a] = to
         /\ \A b \in Actor \ {a} : pc'[b] = pc[b]
  BY DEF Goto, TypeOK

LEMMA LeaveMoves ==
  ASSUME TypeOK, NEW a \in Actor, Leave(a)
  PROVE  /\ ActorSound(a)'
         /\ \A b \in Actor \ {a} : pc'[b] = pc[b] /\ at'[b] = at[b] /\ req'[b] = req[b]
  BY DEF Leave, TypeOK, ActorSound, Publishing

\* Memory after one version has moved to a state other than published.
LEMMA MovedSnapshot ==
  ASSUME TypeOK, RuntimeSound, NEW v \in Version, NEW l \in Life \ {"absent", "published"},
         store'.life = [store.life EXCEPT ![v] = l],
         store'.dispatch = store.dispatch, store'.rows = store.rows,
         store'.created = store.created, store'.completed = store.completed,
         UNCHANGED objectVars
  PROVE  Forward(store, store') /\ Snapshot(store)'
PROOF
<1>1. Forward(store, store')
  BY DEF Forward, TypeOK, State
<1>2. \A w \in Version : Servable(store, w)'
  BY DEF RuntimeSound, Snapshot, Servable, objectVars, TypeOK, State
<1>3. \A i \in store'.created : store'.life[i.version] # "absent"
  BY DEF RuntimeSound, Snapshot, TypeOK, State
<1> QED
  BY <1>1, <1>2, <1>3 DEF RuntimeSound, Snapshot

LEMMA CallGoesOnCarries ==
  ASSUME TypeOK, TypeOK', Busy, RuntimeSound, NEW c \in Client, NEW r \in req[c],
         CallGoesOn(c, r)
  PROVE  Carried(c)
PROOF
<1>0. c \in Actor /\ r \in Request /\ ActorSound(c)
  BY DEF Actor, TypeOK, RuntimeSound
<1>1. at[c] \in Version
  BY <1>0
     DEF CallGoesOn, IssueSaves, CompleteDuplicate, CompleteAccepted, CompleteRefused,
         Canonicalized, CompleteFinish, Goto, Busy
<1>2. CASE IssueSaves(c, r)
  <2>1. /\ store' = store /\ file' = store /\ told' = Tell("issued", r, at[c])
        /\ ActorSound(c)'
        /\ \A b \in Actor \ {c} : pc'[b] = pc[b] /\ at'[b] = at[b] /\ req'[b] = req[b]
    BY <1>0, <1>2, LeaveMoves DEF IssueSaves, Save
  <2>2. PICK i \in store.created : i.key = r.key /\ i.version = at[c]
    BY <1>0, <1>2 DEF ActorSound, IssueSaves
  <2>3. store.life[at[c]] # "absent"
    BY <2>2 DEF RuntimeSound, Snapshot
  <2>4. \A t \in told' \ told : TellSound(t)'
    <3> SUFFICES ASSUME NEW t \in told', t \notin told
                 PROVE  TellSound(t)'
      OBVIOUS
    <3>1. t = [what |-> "issued", key |-> r.key, version |-> at[c]]
      BY <2>1 DEF Tell
    <3> QED
      BY <2>1, <2>2, <2>3, <3>1 DEF TellSound
  <2>5. told \subseteq told'
    BY <2>1 DEF Tell
  <2> QED
    BY <1>2, <2>1, <2>4, <2>5
       DEF IssueSaves, Carried, RuntimeSound, Forward, FileIsOlder, Snapshot, Servable,
           objectVars, replayVars
<1>3. CASE CompleteFinish(c, r)
  <2>1. /\ store' = store /\ file' = store /\ told' = Tell("completed", r, at[c])
        /\ ActorSound(c)'
        /\ \A b \in Actor \ {c} : pc'[b] = pc[b] /\ at'[b] = at[b] /\ req'[b] = req[b]
    BY <1>0, <1>3, LeaveMoves DEF CompleteFinish, Save
  <2>2. store.dispatch[at[c]] # "none"
    BY <1>0, <1>3 DEF ActorSound, CompleteFinish
  <2>3. store.life[at[c]] # "absent"
    BY <1>1, <2>2 DEF RuntimeSound, FileIsOlder, Forward
  <2>4. \A t \in told' \ told : TellSound(t)'
    <3> SUFFICES ASSUME NEW t \in told', t \notin told
                 PROVE  TellSound(t)'
      OBVIOUS
    <3>1. t = [what |-> "completed", key |-> r.key, version |-> at[c]]
      BY <2>1 DEF Tell
    <3> QED
      BY <2>1, <2>2, <2>3, <3>1 DEF TellSound
  <2>5. told \subseteq told'
    BY <2>1 DEF Tell
  <2> QED
    BY <1>3, <2>1, <2>4, <2>5
       DEF CompleteFinish, Carried, RuntimeSound, Forward, FileIsOlder, Snapshot, Servable,
           objectVars, replayVars
<1>4. CASE CompleteRefused(c, r)
  <2>1. /\ file' = store' /\ ActorSound(c)'
        /\ \A b \in Actor \ {c} : pc'[b] = pc[b] /\ at'[b] = at[b] /\ req'[b] = req[b]
    BY <1>0, <1>4, LeaveMoves DEF CompleteRefused, Save
  <2>2. \/ store' = store
        \/ store' = [store EXCEPT !.life[at[c]] = "failed_validation"]
    BY <1>4 DEF CompleteRefused, Save
  <2>3. Forward(store, store') /\ Snapshot(store)'
      /\ store'.dispatch = store.dispatch /\ store'.rows = store.rows
    <3>1. CASE store' = store
      BY <1>4, <3>1
         DEF CompleteRefused, RuntimeSound, Forward, Snapshot, Servable, objectVars
    <3>2. CASE store' = [store EXCEPT !.life[at[c]] = "failed_validation"]
      <4>1. /\ store'.life = [store.life EXCEPT ![at[c]] = "failed_validation"]
            /\ store'.dispatch = store.dispatch /\ store'.rows = store.rows
            /\ store'.created = store.created /\ store'.completed = store.completed
        BY <1>1, <3>2, LifeSet DEF TypeOK, Life
      <4> QED
        BY <1>1, <1>4, <4>1, MovedSnapshot DEF CompleteRefused, Life
    <3> QED
      BY <2>2, <3>1, <3>2
  <2> QED
    BY <1>4, <2>1, <2>3
       DEF CompleteRefused, Carried, RuntimeSound, FileIsOlder, objectVars, replayVars, observers
<1>5. CASE CompleteDuplicate(c, r)
  <2>1. r.key \in CompleteKey
    BY <1>0, <1>5 DEF ActorSound, CompleteDuplicate, Goto
  <2>2. /\ store'.life = store.life /\ store'.dispatch = store.dispatch
        /\ store'.rows = store.rows /\ store'.created = store.created
        /\ store'.completed = [store.completed EXCEPT ![r.key] = at[c]]
    BY <1>1, <1>5, CompletedSet DEF CompleteDuplicate, TypeOK
  <2>3. store.dispatch[at[c]] # "none"
    BY <1>1, <1>5, <2>1
       DEF CompleteDuplicate, Duplicate, Recorded, RuntimeSound, Snapshot, Version
  <2>4. Forward(store, store')
    BY <2>2 DEF Forward
  <2>5. Snapshot(store)'
    BY <1>1, <1>5, <2>1, <2>2, <2>3
       DEF CompleteDuplicate, RuntimeSound, Snapshot, Servable, objectVars, TypeOK, State
  <2>6. /\ pc'[c] \in {"begin", "finish"} /\ at' = at /\ req' = req
        /\ \A b \in Actor \ {c} : pc'[b] = pc[b]
    BY <1>0, <1>5, GotoMoves DEF CompleteDuplicate, AfterCompletion
  <2>7. ActorSound(c)'
    BY <2>2, <2>3, <2>6 DEF ActorSound, Publishing
  <2> QED
    BY <1>5, <2>2, <2>4, <2>5, <2>6, <2>7
       DEF CompleteDuplicate, Carried, RuntimeSound, FileIsOlder, objectVars, replayVars,
           observers
<1>6. CASE CompleteAccepted(c, r)
  <2>1. /\ store'.life = [store.life EXCEPT ![at[c]] = "canonicalizing"]
        /\ store'.dispatch = store.dispatch /\ store'.rows = store.rows
        /\ store'.created = store.created /\ store'.completed = store.completed
    BY <1>1, <1>6, LifeSet DEF CompleteAccepted, TypeOK, Life
  <2>2. Forward(store, store') /\ Snapshot(store)'
    BY <1>1, <1>6, <2>1, MovedSnapshot DEF CompleteAccepted, Life
  <2>3. /\ pc[c] = "completing" /\ pc'[c] = "canonicalizing" /\ at' = at /\ req' = req
        /\ \A b \in Actor \ {c} : pc'[b] = pc[b]
    BY <1>0, <1>6, GotoMoves DEF CompleteAccepted
  <2>4. ActorSound(c)'
    BY <1>0, <1>6, <2>3 DEF CompleteAccepted, ActorSound, Publishing
  <2> QED
    BY <1>6, <2>1, <2>2, <2>3, <2>4
       DEF CompleteAccepted, Carried, RuntimeSound, FileIsOlder, objectVars, replayVars,
           observers
<1>7. CASE Canonicalized(c, r)
  <2>1. /\ store'.life = [store.life EXCEPT ![at[c]] = "canonical"]
        /\ store'.dispatch = [store.dispatch EXCEPT ![at[c]] = "pending"]
        /\ store'.completed = [store.completed EXCEPT ![r.key] = at[c]]
        /\ store'.rows = store.rows /\ store'.created = store.created
    BY <1>1, <1>7, CanonicalizedMemory
  <2>2. /\ pc[c] = "canonicalizing" /\ pc'[c] \in {"begin", "finish"}
        /\ at' = at /\ req' = req
        /\ \A b \in Actor \ {c} : pc'[b] = pc[b]
    BY <1>0, <1>7, GotoMoves DEF Canonicalized, AfterCompletion
  <2>3. r.key \in CompleteKey /\ file.life[at[c]] # "absent"
    BY <1>0, <2>2 DEF ActorSound
  <2>4. Forward(store, store')
    BY <1>1, <2>1 DEF Forward, TypeOK, State
  <2>5. Snapshot(store)'
    <3>1. \A w \in Version : Servable(store, w)'
      BY <1>1, <1>7, <2>1
         DEF Canonicalized, RuntimeSound, Snapshot, Servable, objectVars, TypeOK, State
    <3>2. \A i \in store'.created : store'.life[i.version] # "absent"
      BY <1>1, <2>1 DEF RuntimeSound, Snapshot, TypeOK, State
    <3>3. \A k \in CompleteKey :
            store'.completed[k] # 0 => store'.dispatch[store'.completed[k]] # "none"
      BY <1>1, <2>1, <2>3 DEF RuntimeSound, Snapshot, TypeOK, State
    <3> QED
      BY <2>1, <3>1, <3>2, <3>3 DEF RuntimeSound, Snapshot
  <2>6. ActorSound(c)'
    BY <1>1, <2>1, <2>2 DEF ActorSound, Publishing, TypeOK, State
  <2>7. \A v \in Version : store'.dispatch[v] # "none" => file.life[v] # "absent"
    BY <1>1, <2>1, <2>3 DEF RuntimeSound, FileIsOlder, TypeOK, State
  <2> QED
    BY <1>7, <2>1, <2>2, <2>4, <2>5, <2>6, <2>7
       DEF Canonicalized, Carried, objectVars, replayVars, observers
<1> QED
  BY <1>2, <1>3, <1>4, <1>5, <1>6, <1>7 DEF CallGoesOn

LEMMA PublicationCarries ==
  ASSUME TypeOK, TypeOK', Busy, RuntimeSound, NEW a \in Actor,
         Publication(a) \/ PublicationThrows(a)
  PROVE  Carried(a)
PROOF
<1>1. pc[a] \in Publishing /\ at[a] \in Version /\ ActorSound(a)
  BY DEF Publication, Begin, PutDerivative, PutManifest, Publish, Published, Goto,
         PublicationThrows, Busy, Publishing, RuntimeSound
<1>2. store.dispatch[at[a]] # "none"
  BY <1>1 DEF ActorSound
<1>3. CASE Begin(a)
  <2>1. /\ store'.life = [store.life EXCEPT ![at[a]] = "processing"] /\ file' = store'
        /\ store'.dispatch = store.dispatch /\ store'.rows = store.rows
        /\ store'.created = store.created /\ store'.completed = store.completed
    BY <1>1, <1>3, LifeSet DEF Begin, Save, TypeOK, Life
  <2>2. Forward(store, store') /\ Snapshot(store)'
    BY <1>1, <1>3, <2>1, MovedSnapshot DEF Begin, Life
  <2>3. pc'[a] = "derive" /\ at' = at /\ req' = req /\ \A b \in Actor \ {a} : pc'[b] = pc[b]
    BY <1>3, GotoMoves DEF Begin
  <2>4. ActorSound(a)'
    BY <1>2, <2>1, <2>3 DEF ActorSound, Publishing
  <2> QED
    BY <1>3, <2>1, <2>2, <2>3, <2>4
       DEF Begin, Carried, RuntimeSound, FileIsOlder, objectVars, replayVars, observers
<1>4. CASE PutDerivative(a)
  <2>1. /\ pc[a] = "derive" /\ pc'[a] = "manifest" /\ at' = at /\ req' = req
        /\ \A b \in Actor \ {a} : pc'[b] = pc[b]
    BY <1>4, GotoMoves DEF PutDerivative
  <2>2. ActorSound(a)'
    BY <1>1, <1>2, <1>4, <2>1 DEF PutDerivative, ActorSound, Publishing
  <2> QED
    BY <1>4, <2>1, <2>2, MoveCarries DEF PutDerivative, replayVars, observers
<1>5. CASE PutManifest(a)
  <2>1. /\ pc[a] = "manifest" /\ pc'[a] = "publish" /\ at' = at /\ req' = req
        /\ \A b \in Actor \ {a} : pc'[b] = pc[b]
    BY <1>5, GotoMoves DEF PutManifest
  <2>2. ActorSound(a)'
    BY <1>1, <1>2, <1>5, <2>1 DEF PutManifest, ActorSound, Publishing
  <2> QED
    BY <1>5, <2>1, <2>2, MoveCarries DEF PutManifest, replayVars, observers
<1>6. CASE Publish(a)
  <2>1. /\ file' = store'
        /\ store'.life = [store.life EXCEPT ![at[a]] = "published"]
        /\ store'.dispatch = [store.dispatch EXCEPT ![at[a]] = "completed"]
        /\ store'.rows = store.rows \union {at[a]}
        /\ store'.completed = store.completed /\ store'.created = store.created
    BY <1>1, <1>6, PublishedMemory DEF Publish
  <2>2. /\ pc[a] = "publish" /\ pc'[a] \in {"idle", "finish"} /\ req' = req
        /\ \A b \in Actor \ {a} : pc'[b] = pc[b] /\ at'[b] = at[b]
        /\ pc'[a] = "finish" => at'[a] = at[a]
    BY <1>6, GotoMoves DEF Publish, Published, TypeOK
  <2>3. at[a] \in derived /\ at[a] \in manifests /\ file.dispatch[at[a]] # "none"
    BY <1>1, <2>2 DEF ActorSound, Publishing
  <2>4. Forward(store, store')
    BY <1>1, <2>1 DEF Forward, TypeOK, State
  <2>5. Snapshot(store)'
    <3>1. \A w \in Version : Servable(store, w)'
      BY <1>1, <1>6, <2>1, <2>3
         DEF Publish, RuntimeSound, Snapshot, Servable, objectVars, TypeOK, State
    <3>2. \A i \in store'.created : store'.life[i.version] # "absent"
      BY <1>1, <2>1 DEF RuntimeSound, Snapshot, TypeOK, State
    <3>3. \A k \in CompleteKey :
            store'.completed[k] # 0 => store'.dispatch[store'.completed[k]] # "none"
      BY <1>1, <2>1 DEF RuntimeSound, Snapshot, TypeOK, State
    <3> QED
      BY <2>1, <3>1, <3>2, <3>3 DEF RuntimeSound, Snapshot
  <2>6. ActorSound(a)'
    BY <1>1, <2>1, <2>2 DEF ActorSound, Publishing, TypeOK, State
  <2>7. \A v \in Version : store'.dispatch[v] # "none" => file.life[v] # "absent"
    BY <1>1, <1>2, <2>1 DEF RuntimeSound, FileIsOlder, TypeOK, State
  <2> QED
    BY <1>6, <2>1, <2>2, <2>3, <2>4, <2>5, <2>6, <2>7
       DEF Publish, Carried, objectVars, replayVars, observers
<1>7. CASE PublicationThrows(a)
  <2>1. /\ ActorSound(a)'
        /\ \A b \in Actor \ {a} : pc'[b] = pc[b] /\ at'[b] = at[b] /\ req'[b] = req[b]
    BY <1>7, LeaveMoves DEF PublicationThrows
  <2>2. /\ store' = store /\ (file' = file \/ file' = store')
        /\ todo' \subseteq todo
    BY <1>7 DEF PublicationThrows, Save, replayVars
  <2> QED
    BY <1>7, <2>1, <2>2
       DEF PublicationThrows, Carried, RuntimeSound, Forward, FileIsOlder, Snapshot, Servable,
           objectVars, observers
<1> QED
  BY <1>3, <1>4, <1>5, <1>6, <1>7 DEF Publication

LEMMA ReplayCarries ==
  ASSUME TypeOK, TypeOK', Busy, RuntimeSound, Replay
  PROVE  Carried(Boot)
PROOF
<1>0. Boot \in Actor
  BY DEF Actor
<1>1. CASE ReplayNext
  <2>1. PICK v \in todo :
          /\ Goto(Boot, "idle", "begin") /\ at' = [at EXCEPT ![Boot] = v] /\ todo' = todo \ {v}
    BY <1>1 DEF ReplayNext
  <2>2. /\ pc'[Boot] = "begin" /\ at'[Boot] = v
        /\ \A b \in Actor \ {Boot} : pc'[b] = pc[b] /\ at'[b] = at[b]
    BY <1>0, <2>1, GotoMoves DEF TypeOK
  <2>3. store.dispatch[v] # "none"
    BY DEF RuntimeSound
  <2>4. ActorSound(Boot)'
    BY <1>1, <2>2, <2>3 DEF ReplayNext, ActorSound, Publishing
  <2> QED
    BY <1>0, <1>1, <2>1, <2>2, <2>4, MoveCarries DEF ReplayNext, objectVars, observers
<1>2. CASE ReplayEnds
  <2>1. ActorSound(Boot)'
    BY <1>0, <1>2 DEF ReplayEnds, RuntimeSound, ActorSound, objectVars, callVars
  <2> QED
    BY <1>0, <1>2, <2>1, MoveCarries DEF ReplayEnds, objectVars, callVars, observers
<1> QED
  BY <1>1, <1>2 DEF Replay

\* PATCH, a read and the clock touch nothing the invariant is about.
LEMMA OthersCarry ==
  ASSUME TypeOK, TypeOK', Busy, RuntimeSound, NEW v \in Version, Put(v) \/ Read(v) \/ Expire(v)
  PROVE  Carried(Boot)
PROOF
<1>0. Boot \in Actor
  BY DEF Actor
<1>1. /\ UNCHANGED <<store, file, told, derived, manifests, pc, at, req, todo>>
  BY DEF Put, Read, Expire, objectVars, callVars, replayVars, observers
<1>2. ActorSound(Boot)'
  BY <1>0, <1>1 DEF RuntimeSound, ActorSound
<1>3. read \subseteq read' /\ read' \subseteq read \union file.rows
  BY DEF Put, Read, Expire, observers, RuntimeSound, FileIsOlder
<1> QED
  BY <1>0, <1>1, <1>2, <1>3, MoveCarries

LEMMA RestartKeeps ==
  ASSUME TypeOK, TypeOK', RuntimeSound, Restart
  PROVE  RuntimeSound'
PROOF
<1>1. /\ store' = file /\ file' = file /\ derived' = derived /\ manifests' = manifests
      /\ told' = told /\ todo' = Pending(file)
      /\ \A a \in Actor : pc'[a] = "idle"
  BY DEF Restart, Started, Save, objectVars, observers
<1>2. Snapshot(store)' /\ Snapshot(file)'
  BY <1>1 DEF RuntimeSound, Snapshot, Servable
<1>3. FileIsOlder'
  BY <1>1 DEF RuntimeSound, FileIsOlder, Forward
<1>4. \A a \in Actor : ActorSound(a)'
  BY <1>1 DEF ActorSound, Publishing
<1>5. \A t \in told' : TellSound(t)'
  BY <1>1 DEF RuntimeSound, TellSound
<1>6. \A v \in todo' : store'.dispatch[v] # "none"
  BY <1>1 DEF Pending
<1>7. read' \subseteq file'.rows
  BY DEF RuntimeSound, Restart, Started, Save, observers
<1> QED
  BY <1>2, <1>3, <1>4, <1>5, <1>6, <1>7 DEF RuntimeSound

\* After a torn save nothing is promised, ever.
LEMMA FaultsGrow ==
  ASSUME TypeOK, Next, Intact'
  PROVE  Intact /\ ~RestartAfterTornSave
PROOF
<1>1. CASE UNCHANGED faults
  <2>1. ~RestartAfterTornSave
    BY <1>1 DEF RestartAfterTornSave, Fault, TypeOK
  <2> QED
    BY <1>1, <2>1 DEF Intact
<1>2. CASE Fault("torn")
  BY <1>2, FaultTyped DEF Intact
<1>3. CASE (Fault("restart") \/ Fault("publication")) /\ ~Fault("torn")
  BY <1>3, FaultTyped DEF Intact, RestartAfterTornSave
<1>4. UNCHANGED faults \/ Fault("torn") \/ Fault("restart") \/ Fault("publication")
  BY DEF Next, CallBegins, IssueReplay, IssueNew, CompleteStart, CallGoesOn, IssueSaves,
         CompleteDuplicate, CompleteAccepted, CompleteRefused, Canonicalized, CompleteFinish,
         Publication, Begin, PutDerivative, PutManifest, Publish, PublicationThrows,
         Replay, ReplayNext, ReplayEnds, Put, Read, Expire, Restart, RestartAfterTornSave
<1> QED
  BY <1>1, <1>2, <1>3, <1>4

LEMMA NextCarries ==
  ASSUME TypeOK, TypeOK', Busy, RuntimeSound, Next, ~RestartAfterTornSave
  PROVE  (\E c \in Actor : Carried(c)) \/ Restart
PROOF
<1>1. Client \subseteq Actor /\ Boot \in Actor
  BY DEF Actor
<1> QED
  BY <1>1, CallBeginsCarries, CallGoesOnCarries, PublicationCarries, ReplayCarries, OthersCarry
     DEF Next

\* While no save is torn, the file is a state that memory was in, what was told is in it, and
\* published versions have their rows and objects.
THEOREM RuntimeInvariant == Spec => []RuntimeInv
PROOF
<1>1. Init => RuntimeInv
  BY DEF Init, RuntimeInv, RuntimeSound, Snapshot, Servable, FileIsOlder, Forward, ActorSound,
         TellSound, Empty, Publishing
<1>2. TypeOK /\ Busy /\ RuntimeInv /\ [Next]_vars /\ TypeOK' => RuntimeInv'
  <2> SUFFICES ASSUME TypeOK, Busy, RuntimeInv, [Next]_vars, TypeOK', Intact'
               PROVE  RuntimeSound'
    BY DEF RuntimeInv
  <2>1. CASE UNCHANGED vars
    BY <2>1
       DEF vars, objectVars, callVars, replayVars, observers, Intact, RuntimeInv, RuntimeSound,
           Snapshot, Servable, FileIsOlder, ActorSound, TellSound
  <2>2. CASE Next
    <3>1. RuntimeSound /\ ~RestartAfterTornSave
      BY <2>2, FaultsGrow DEF RuntimeInv
    <3> QED
      BY <2>2, <3>1, NextCarries, CarriedKeeps, RestartKeeps
  <2> QED
    BY <2>1, <2>2
<1> QED
  BY <1>1, <1>2, Typed, TypeCorrect, PTL DEF Spec

\* What a reader is sent to is there, in memory and on disk.
THEOREM PublishedAreServable == Spec => []PublishedIsServable
PROOF
<1>1. RuntimeInv => PublishedIsServable
  BY DEF RuntimeInv, RuntimeSound, Snapshot, PublishedIsServable
<1> QED
  BY <1>1, RuntimeInvariant, PTL

\* One key creates one session, across restarts and the half-done saves of other calls.
THEOREM CreationsConverge == Spec => []RetriesConverge
PROOF
<1>1. RuntimeInv => RetriesConverge
  <2> SUFFICES ASSUME RuntimeInv, Intact, NEW s \in told, NEW t \in told,
                      s.what = "issued", t.what = "issued", s.key = t.key
               PROVE  s.version = t.version
    BY DEF RetriesConverge
  <2>1. /\ \E i \in file.created : i.key = s.key /\ i.version = s.version
        /\ \E i \in file.created : i.key = t.key /\ i.version = t.version
    BY DEF RuntimeInv, RuntimeSound, TellSound
  <2> QED
    BY <2>1 DEF RuntimeInv, RuntimeSound, Snapshot
<1> QED
  BY <1>1, RuntimeInvariant, PTL

-------------------------------------------------------------------------------
(* The runtime implements VersionContract. *)

\* A step other than a restart: the file advances at most one stage per version.
LEMMA CarriedAdvances ==
  ASSUME TypeOK, TypeOK', RuntimeSound, RuntimeSound', NEW c \in Actor, Carried(c),
         NEW v \in Version
  PROVE  Stage(v)' \in {Stage(v), Stage(v) + 1} /\ Stage(v)' <= 3
PROOF
<1>1. CASE file' = file
  BY <1>1 DEF Stage
<1>2. CASE file' = store'
  <2>1. /\ file.life[v] # "absent" => store'.life[v] # "absent"
        /\ file.dispatch[v] # "none" => store'.dispatch[v] # "none"
        /\ v \in file.rows => v \in store'.rows
        /\ v \in store'.rows => v \in file.rows \/ file.dispatch[v] # "none"
        /\ store'.dispatch[v] # "none" => file.life[v] # "absent"
    BY DEF Carried, Forward, RuntimeSound, FileIsOlder
  <2> QED
    BY <1>2, <2>1 DEF Stage
<1> QED
  BY <1>1, <1>2 DEF Carried

LEMMA NextKeepsPromise ==
  ASSUME TypeOK, TypeOK', Busy, RuntimeSound, RuntimeSound', Intact, Intact', Next
  PROVE  Contract!Keep
PROOF
<1>1. (\E c \in Actor : Carried(c)) \/ Restart
  BY FaultsGrow, NextCarries
<1>2. told \subseteq told' /\ read \subseteq read'
  BY <1>1 DEF Carried, Restart, Started, observers
<1> SUFFICES ASSUME NEW v \in Version
             PROVE  Contract!Advance(v) /\ Contract!Tell(v)
  BY DEF Contract!Keep
<1>3. Stage(v)' \in {Stage(v), Stage(v) + 1} /\ Stage(v)' <= 3
  <2>1. CASE Restart
    BY <2>1 DEF Restart, Started, Save, Stage
  <2> QED
    BY <1>1, <2>1, CarriedAdvances
<1>4. StagesTold(v)' \subseteq 1..Stage(v)'
  <2>1. \A t \in told' : t.version = v /\ t.what = "issued" => 1 \in 1..Stage(v)'
    BY DEF RuntimeSound, TellSound, Stage
  <2>2. \A t \in told' : t.version = v /\ t.what = "completed" => 2 \in 1..Stage(v)'
    BY DEF RuntimeSound, TellSound, Stage
  <2>3. v \in read' => 3 \in 1..Stage(v)'
    BY DEF RuntimeSound, Stage
  <2> QED
    BY <2>1, <2>2, <2>3 DEF StagesTold
<1>5. StagesTold(v) \subseteq StagesTold(v)'
  BY <1>2 DEF StagesTold
<1> QED
  BY <1>3, <1>4, <1>5 DEF Contract!Advance, Contract!Tell, Contract!Delivered, Contract!Issued

\* VersionContract: whatever calls overlap, retry or die half done, a version in the file only
\* ever advances, one stage at a time, and nobody is told of more than the file holds, until a
\* save is torn.
THEOREM RuntimeImplementsContract == Spec => ImplementsContract
PROOF
<1>1. Init => Contract!CInit
  BY DEF Init, Contract!CInit, Contract!None, Stage, StagesTold, Empty, Intact
<1>2. TypeOK /\ Busy /\ RuntimeInv /\ [Next]_vars /\ TypeOK' /\ RuntimeInv'
        => [Contract!CNext]_(Contract!contractVars)
  <2> SUFFICES ASSUME TypeOK, Busy, RuntimeInv, [Next]_vars, TypeOK', RuntimeInv'
               PROVE  [Contract!CNext]_(Contract!contractVars)
    OBVIOUS
  <2>1. CASE UNCHANGED vars
    BY <2>1 DEF vars, observers, Contract!contractVars, Stage, StagesTold, Intact
  <2>2. CASE Next /\ ~Intact'
    BY <2>2 DEF Contract!CNext, Contract!Lose, Intact
  <2>3. CASE Next /\ Intact'
    BY <2>3, FaultsGrow, NextKeepsPromise DEF RuntimeInv, Contract!CNext
  <2> QED
    BY <2>1, <2>2, <2>3
<1> QED
  BY <1>1, <1>2, Typed, TypeCorrect, RuntimeInvariant, PTL
     DEF Spec, ImplementsContract, Contract!CSpec

-------------------------------------------------------------------------------
(* A pending dispatch is attended to, whatever is restarted or torn. *)

\* What makes Pending list every dispatch that a restart interrupts: a pending version is in
\* one of the two states it asks for.  Versions not made yet have nothing.
Lively(s) ==
  \A v \in Version :
    /\ s.dispatch[v] = "pending" => s.life[v] \in {"canonical", "processing"}
    /\ s.life[v] \in {"absent", "session_created"} => s.dispatch[v] = "none"
    /\ v > minted => s.life[v] = "absent"

PendingInv ==
  /\ Lively(store) /\ Lively(file)
  /\ \A a \in Actor : pc[a] = "canonicalizing" => at[a] <= minted
  /\ PendingIsAttended

IsPending(v) == "pending" \in {store.dispatch[v], file.dispatch[v]}

\* A step that leaves the dispatches and the minting alone, or is answerable for those it
\* makes pending.
LEMMA AttendedKept ==
  ASSUME TypeOK, PendingIsAttended, faults'["publication"] = 0 => faults["publication"] = 0,
         \A v \in Generic :
           IsPending(v)' => Attended(v)' \/ (IsPending(v) /\ (Attended(v) => Attended(v)'))
  PROVE  PendingIsAttended'
PROOF
<1> SUFFICES ASSUME NEW v \in Generic, IsPending(v)', faults'["publication"] = 0
             PROVE  Attended(v)'
  BY DEF PendingIsAttended, IsPending
<1>1. IsPending(v) => Attended(v)
  BY DEF PendingIsAttended, IsPending
<1> QED
  BY <1>1

\* An actor that was not publishing, or publishes on, takes nobody's attention away.
LEMMA AttentionKept ==
  ASSUME NEW c \in Actor, todo \subseteq todo',
         \A a \in Actor \ {c} : pc'[a] = pc[a] /\ at'[a] = at[a],
         pc[c] \in Publishing => pc'[c] \in Publishing /\ at'[c] = at[c]
  PROVE  \A v : Attended(v) => Attended(v)'
  BY DEF Attended

\* Memory after one version has moved to another state.
LEMMA MovedLively ==
  ASSUME TypeOK, Lively(store), NEW v \in Version, NEW l \in Life \ {"absent", "session_created"},
         store'.life = [store.life EXCEPT ![v] = l], store'.dispatch = store.dispatch,
         minted' = minted, v <= minted,
         store.dispatch[v] = "pending" => l \in {"canonical", "processing"}
  PROVE  Lively(store)'
PROOF
<1>1. /\ store'.life[v] = l
      /\ \A w \in Version \ {v} : store'.life[w] = store.life[w]
  BY DEF TypeOK, State
<1>2. ~(v > minted)
  BY DEF TypeOK, Version
<1> QED
  BY <1>1, <1>2 DEF Lively

\* What a step other than a restart has to show.
LEMMA PendingKept ==
  ASSUME TypeOK, PendingInv, NEW c \in Actor,
         minted <= minted', minted' \in Nat, Lively(store)',
         file' = file \/ file' = store',
         \A a \in Actor \ {c} : pc'[a] = pc[a] /\ at'[a] = at[a],
         pc'[c] = "canonicalizing" => at'[c] <= minted',
         faults'["publication"] = 0 => faults["publication"] = 0,
         \A v \in Generic :
           IsPending(v)' => Attended(v)' \/ (IsPending(v) /\ (Attended(v) => Attended(v)'))
  PROVE  PendingInv'
PROOF
<1>1. Lively(file)'
  <2>1. \A v \in Version : v > minted' => v > minted
    BY DEF TypeOK, Version
  <2> QED
    BY <2>1 DEF PendingInv, Lively
<1>2. \A a \in Actor : pc'[a] = "canonicalizing" => at'[a] <= minted'
  <2> SUFFICES ASSUME NEW a \in Actor \ {c}, pc'[a] = "canonicalizing"
               PROVE  at'[a] <= minted'
    OBVIOUS
  <2>1. at[a] <= minted /\ at'[a] = at[a] /\ at[a] \in Nat /\ minted \in Nat
    BY DEF PendingInv, TypeOK, Version
  <2> QED
    BY <2>1
<1> QED
  BY <1>1, <1>2, AttendedKept DEF PendingInv

LEMMA CallBeginsPending ==
  ASSUME TypeOK, TypeOK', PendingInv, NEW c \in Client, CallBegins(c)
  PROVE  PendingInv'
PROOF
<1>0. c \in Actor /\ pc[c] = "idle" /\ faults' = faults /\ todo' = todo /\ file' = file
  BY DEF Actor, CallBegins, IssueReplay, IssueNew, CompleteStart, Accept, Goto, replayVars
<1>1. /\ pc'[c] # "canonicalizing"
      /\ \A a \in Actor \ {c} : pc'[a] = pc[a] /\ at'[a] = at[a]
  BY <1>0 DEF CallBegins, IssueReplay, IssueNew, CompleteStart, Accept, Goto, TypeOK
<1>2. \A v : Attended(v) => Attended(v)'
  BY <1>0, <1>1, AttentionKept DEF Publishing
<1>3. ASSUME NEW k \in IssueKey, NEW h \in Hash, IssueNew(c, k, h)
      PROVE  PendingInv'
  <2>1. /\ minted + 1 \in Version /\ minted' = minted + 1
        /\ store'.life = [store.life EXCEPT ![minted + 1] = "session_created"]
        /\ store'.dispatch = store.dispatch
    BY <1>3, IssueNewMemory DEF IssueNew
  <2>2. store.dispatch[minted + 1] = "none" /\ minted \in Nat
    BY <2>1 DEF PendingInv, Lively, TypeOK
  <2>3. Lively(store)'
    BY <2>1, <2>2 DEF PendingInv, Lively, TypeOK, State, Version
  <2>4. \A v \in Generic : IsPending(v)' => IsPending(v)
    BY <1>0, <2>1 DEF IsPending
  <2> QED
    BY <1>0, <1>1, <1>2, <2>1, <2>2, <2>3, <2>4, PendingKept
<1>4. CASE UNCHANGED <<store, minted>>
  <2>1. Lively(store)' /\ minted \in Nat
    BY <1>4 DEF PendingInv, Lively, TypeOK
  <2>2. \A v \in Generic : IsPending(v)' => IsPending(v)
    BY <1>0, <1>4 DEF IsPending
  <2> QED
    BY <1>0, <1>1, <1>2, <1>4, <2>1, <2>2, PendingKept
<1> QED
  BY <1>3, <1>4 DEF CallBegins, IssueReplay, CompleteStart

\* Where a call that goes on leaves its actor: it was not publishing.
LEMMA CallGoesOnMoves ==
  ASSUME TypeOK, NEW c \in Client, NEW r \in req[c], CallGoesOn(c, r)
  PROVE  /\ c \in Actor
         /\ pc[c] \in {"saving", "completing", "canonicalizing", "finish"}
         /\ \A a \in Actor \ {c} : pc'[a] = pc[a] /\ at'[a] = at[a]
         /\ UNCHANGED <<todo, minted, faults>>
         /\ minted \in Nat
  BY DEF CallGoesOn, IssueSaves, CompleteDuplicate, CompleteAccepted, CompleteRefused,
         Canonicalized, CompleteFinish, Goto, Leave, TypeOK, Actor, replayVars

LEMMA CallGoesOnPending ==
  ASSUME TypeOK, TypeOK', Busy, PendingInv, NEW c \in Client, NEW r \in req[c],
         CallGoesOn(c, r)
  PROVE  PendingInv'
PROOF
<1>0. /\ c \in Actor
      /\ pc[c] \in {"saving", "completing", "canonicalizing", "finish"}
      /\ \A a \in Actor \ {c} : pc'[a] = pc[a] /\ at'[a] = at[a]
      /\ UNCHANGED <<todo, minted, faults>>
      /\ minted \in Nat
  BY CallGoesOnMoves
<1>a. at[c] \in Version
  BY <1>0 DEF Busy
<1>b. \A v : Attended(v) => Attended(v)'
  BY <1>0, AttentionKept DEF Publishing
<1>1. ASSUME Lively(store)', file' = file \/ file' = store',
             pc'[c] = "canonicalizing" => at'[c] <= minted',
             \A v \in Generic : store'.dispatch[v] = "pending" => Attended(v)' \/ IsPending(v)
      PROVE  PendingInv'
  <2>1. \A v \in Generic :
          IsPending(v)' => Attended(v)' \/ (IsPending(v) /\ (Attended(v) => Attended(v)'))
    BY <1>1, <1>b DEF IsPending
  <2> QED
    BY <1>0, <1>1, <2>1, PendingKept
<1>2. CASE IssueSaves(c, r) \/ CompleteFinish(c, r)
  <2>1. store' = store /\ file' = store' /\ pc'[c] = "idle"
    BY <1>0, <1>2 DEF IssueSaves, CompleteFinish, Save, Leave, TypeOK
  <2>2. Lively(store)'
    BY <1>0, <2>1 DEF PendingInv, Lively
  <2> QED
    BY <1>1, <2>1, <2>2 DEF IsPending
<1>3. CASE CompleteDuplicate(c, r)
  <2>1. store'.life = store.life /\ store'.dispatch = store.dispatch /\ file' = file
    BY <1>3, <1>a, CompletedSet DEF CompleteDuplicate, TypeOK
  <2>2. Lively(store)'
    BY <1>0, <2>1 DEF PendingInv, Lively
  <2>3. pc'[c] # "canonicalizing"
    BY <1>0, <1>3 DEF CompleteDuplicate, Goto, AfterCompletion, TypeOK
  <2> QED
    BY <1>1, <2>1, <2>2, <2>3 DEF IsPending
<1>4. ASSUME NEW l \in {"canonicalizing", "failed_validation"}, Completable(r, at[c]),
             store' = [store EXCEPT !.life[at[c]] = l]
      PROVE  Lively(store)' /\ store'.dispatch = store.dispatch /\ at[c] <= minted
  <2>1. /\ store'.life = [store.life EXCEPT ![at[c]] = l]
        /\ store'.dispatch = store.dispatch
    BY <1>4, <1>a, LifeSet DEF TypeOK, Life
  <2>2. store.life[at[c]] = "session_created"
    BY <1>4 DEF Completable
  <2>3. store.dispatch[at[c]] = "none" /\ at[c] <= minted
    BY <1>0, <1>a, <2>2 DEF PendingInv, Lively, Version
  <2> QED
    BY <1>0, <1>a, <1>4, <2>1, <2>3, MovedLively DEF PendingInv, Life
<1>5. CASE CompleteAccepted(c, r)
  <2>1. Lively(store)' /\ store'.dispatch = store.dispatch /\ at[c] <= minted
    BY <1>4, <1>5 DEF CompleteAccepted
  <2>2. file' = file /\ at' = at
    BY <1>5 DEF CompleteAccepted
  <2> QED
    BY <1>0, <1>1, <2>1, <2>2 DEF IsPending
<1>6. CASE CompleteRefused(c, r)
  <2>1. file' = store' /\ pc'[c] = "idle"
    BY <1>0, <1>6 DEF CompleteRefused, Save, Leave, TypeOK
  <2>2. Lively(store)' /\ store'.dispatch = store.dispatch
    <3>1. CASE Completable(r, at[c])
      BY <1>4, <1>6, <3>1 DEF CompleteRefused, Save
    <3>2. CASE ~Completable(r, at[c])
      BY <1>0, <1>6, <3>2 DEF CompleteRefused, Save, PendingInv, Lively
    <3> QED
      BY <3>1, <3>2
  <2> QED
    BY <1>1, <2>1, <2>2 DEF IsPending
<1>7. CASE Canonicalized(c, r)
  <2>1. /\ store'.life = [store.life EXCEPT ![at[c]] = "canonical"]
        /\ store'.dispatch = [store.dispatch EXCEPT ![at[c]] = "pending"]
    BY <1>7, <1>a, CanonicalizedMemory
  <2>2. /\ file' = file /\ at' = at /\ pc[c] = "canonicalizing"
        /\ pc'[c] = AfterCompletion(at[c])
    BY <1>0, <1>7 DEF Canonicalized, Goto, TypeOK
  <2>3. ~(at[c] > minted)
    BY <1>0, <1>a, <2>2 DEF PendingInv, Version
  <2>4. Lively(store)'
    BY <1>0, <1>a, <2>1, <2>3 DEF PendingInv, Lively, TypeOK, State
  <2>5. at[c] \in Generic => Attended(at[c])'
    BY <1>0, <2>2 DEF Attended, AfterCompletion, Publishing
  <2>6. \A v \in Generic : store'.dispatch[v] = "pending" => Attended(v)' \/ IsPending(v)
    BY <1>a, <2>1, <2>2, <2>5, LocalAssumption DEF IsPending, TypeOK, State
  <2>7. pc'[c] # "canonicalizing"
    BY <2>2 DEF AfterCompletion
  <2> QED
    BY <1>1, <2>2, <2>4, <2>6, <2>7
<1> QED
  BY <1>2, <1>3, <1>5, <1>6, <1>7 DEF CallGoesOn

LEMMA PublicationPending ==
  ASSUME TypeOK, TypeOK', Busy, PendingInv, NEW a \in Actor, Publication(a)
  PROVE  PendingInv'
PROOF
<1>0. /\ pc[a] \in Publishing /\ minted' = minted /\ minted \in Nat
      /\ UNCHANGED <<todo, faults>>
      /\ \A b \in Actor \ {a} : pc'[b] = pc[b] /\ at'[b] = at[b]
      /\ pc'[a] # "canonicalizing"
  BY DEF Publication, Begin, PutDerivative, PutManifest, Publish, Published, Goto, Publishing,
         TypeOK, replayVars
<1>a. at[a] \in Version
  BY <1>0 DEF Busy, Publishing
<1>1. CASE Begin(a)
  <2>1. /\ store'.life = [store.life EXCEPT ![at[a]] = "processing"]
        /\ store'.dispatch = store.dispatch /\ file' = store'
    BY <1>1, <1>a, LifeSet DEF Begin, Save, TypeOK, Life
  <2>2. at[a] <= minted
    BY <1>0, <1>1, <1>a DEF Begin, PendingInv, Lively, Version
  <2>3. Lively(store)'
    BY <1>0, <1>a, <2>1, <2>2, MovedLively DEF PendingInv, Life
  <2>4. \A v : Attended(v) => Attended(v)'
    BY <1>0, <1>1, AttentionKept DEF Begin, Goto, Publishing, TypeOK
  <2> QED
    BY <1>0, <2>1, <2>3, <2>4, PendingKept DEF IsPending
<1>2. CASE PutDerivative(a) \/ PutManifest(a)
  <2>1. UNCHANGED <<store, file>>
    BY <1>2 DEF PutDerivative, PutManifest
  <2>2. Lively(store)'
    BY <1>0, <2>1 DEF PendingInv, Lively
  <2>3. \A v : Attended(v) => Attended(v)'
    BY <1>0, <1>2, AttentionKept DEF PutDerivative, PutManifest, Goto, Publishing, TypeOK
  <2> QED
    BY <1>0, <2>1, <2>2, <2>3, PendingKept DEF IsPending
<1>3. CASE Publish(a)
  <2>1. /\ file' = store'
        /\ store'.life = [store.life EXCEPT ![at[a]] = "published"]
        /\ store'.dispatch = [store.dispatch EXCEPT ![at[a]] = "completed"]
    BY <1>3, <1>a, PublishedMemory DEF Publish
  <2>2. ~(at[a] > minted)
    BY <1>0, <1>3, <1>a DEF Publish, PendingInv, Lively
  <2>3. Lively(store)'
    BY <1>0, <1>a, <2>1, <2>2 DEF PendingInv, Lively, TypeOK, State
  <2>4. \A v \in Generic : IsPending(v)' => v # at[a] /\ IsPending(v)
    BY <1>a, <2>1, LocalAssumption DEF IsPending, TypeOK, State
  <2>5. \A v \in Generic : v # at[a] => (Attended(v) => Attended(v)')
    BY <1>0 DEF Attended
  <2> QED
    BY <1>0, <2>1, <2>3, <2>4, <2>5, PendingKept
<1> QED
  BY <1>1, <1>2, <1>3 DEF Publication

LEMMA ThrowsPending ==
  ASSUME TypeOK, TypeOK', Busy, PendingInv, NEW a \in Actor, PublicationThrows(a)
  PROVE  PendingInv'
PROOF
<1>1. /\ store' = store /\ (file' = file \/ file' = store') /\ minted' = minted
      /\ minted \in Nat
  BY DEF PublicationThrows, Save, TypeOK
<1>2. /\ pc'[a] = "idle" /\ \A b \in Actor \ {a} : pc'[b] = pc[b] /\ at'[b] = at[b]
  BY DEF PublicationThrows, Leave, TypeOK
<1>3. faults'["publication"] # 0
  BY DEF PublicationThrows, Fault, TypeOK
<1>4. Lively(store)' /\ Lively(file)'
  BY <1>1 DEF PendingInv, Lively
<1>5. \A b \in Actor : pc'[b] = "canonicalizing" => at'[b] <= minted'
  BY <1>1, <1>2 DEF PendingInv
<1> QED
  BY <1>3, <1>4, <1>5 DEF PendingInv, PendingIsAttended

LEMMA ReplayPending ==
  ASSUME TypeOK, TypeOK', PendingInv, Replay
  PROVE  PendingInv'
PROOF
<1>0. /\ Boot \in Actor /\ pc[Boot] = "idle" /\ minted \in Nat
      /\ UNCHANGED <<store, file, minted, faults>>
  BY DEF Replay, ReplayNext, ReplayEnds, Goto, Actor, TypeOK
<1>1. Lively(store)'
  BY <1>0 DEF PendingInv, Lively
<1>2. /\ pc'[Boot] # "canonicalizing"
      /\ \A b \in Actor \ {Boot} : pc'[b] = pc[b] /\ at'[b] = at[b]
      /\ \A v : Attended(v) => Attended(v)'
  <2>1. CASE ReplayNext
    <3>1. PICK v \in todo : /\ Goto(Boot, "idle", "begin") /\ at' = [at EXCEPT ![Boot] = v]
                            /\ todo' = todo \ {v}
      BY <2>1 DEF ReplayNext
    <3>2. /\ pc'[Boot] = "begin" /\ at'[Boot] = v
          /\ \A b \in Actor \ {Boot} : pc'[b] = pc[b] /\ at'[b] = at[b]
      BY <1>0, <3>1 DEF Goto, TypeOK
    <3> QED
      BY <1>0, <3>1, <3>2 DEF Attended, Publishing
  <2>2. CASE ReplayEnds
    BY <1>0, <2>2 DEF ReplayEnds, callVars, Attended
  <2> QED
    BY <2>1, <2>2 DEF Replay
<1> QED
  BY <1>0, <1>1, <1>2, PendingKept DEF IsPending

\* A restart lists what it finds pending, all of it.
LEMMA RestartPending ==
  ASSUME TypeOK, TypeOK', PendingInv, Restart \/ RestartAfterTornSave
  PROVE  PendingInv'
PROOF
<1>1. Lively(Empty)
  BY DEF Lively, Empty
<1>2. PICK s \in {file, Empty} : Started(s)
  BY DEF Restart, RestartAfterTornSave
<1>3. /\ store' = s /\ file' = s /\ todo' = Pending(s) /\ minted' = minted
      /\ \A a \in Actor : pc'[a] = "idle"
  BY <1>2 DEF Started, Save
<1>4. Lively(s)
  BY <1>1 DEF PendingInv
<1>5. Lively(store)' /\ Lively(file)'
  BY <1>3, <1>4 DEF Lively
<1>6. \A v \in Generic : IsPending(v)' => v \in todo'
  BY <1>3, <1>4, LocalAssumption DEF IsPending, Lively, Pending
<1> QED
  BY <1>3, <1>5, <1>6 DEF PendingInv, PendingIsAttended, IsPending, Attended

\* The safety half of PendingIsDelivered, torn saves included: unless a publication throws,
\* every dispatch that is pending, in memory or on disk, is being published or on the list
\* of the replay.
THEOREM PendingAttended == Spec => []PendingIsAttended
PROOF
<1>1. Init => PendingInv
  BY LocalAssumption DEF Init, PendingInv, Lively, Empty, PendingIsAttended
<1>2. TypeOK /\ Busy /\ PendingInv /\ [Next]_vars /\ TypeOK' => PendingInv'
  <2> SUFFICES ASSUME TypeOK, Busy, PendingInv, [Next]_vars, TypeOK'
               PROVE  PendingInv'
    OBVIOUS
  <2>1. CASE UNCHANGED vars \/ \E v \in Version : Put(v) \/ Read(v) \/ Expire(v)
    <3>1. UNCHANGED <<store, file, minted, pc, at, todo, faults>>
      BY <2>1 DEF vars, Put, Read, Expire, callVars, replayVars
    <3> QED
      BY <3>1 DEF PendingInv, Lively, PendingIsAttended, Attended
  <2>2. CASE Next
    BY <2>1, <2>2, CallBeginsPending, CallGoesOnPending, PublicationPending, ThrowsPending,
       ReplayPending, RestartPending DEF Next
  <2> QED
    BY <2>1, <2>2
<1>3. PendingInv => PendingIsAttended
  BY DEF PendingInv
<1> QED
  BY <1>1, <1>2, <1>3, Typed, TypeCorrect, PTL DEF Spec

===============================================================================
