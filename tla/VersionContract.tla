---------------------------- MODULE VersionContract ----------------------------
(***************************************************************************)
(* What the platform promises about asset versions, whichever store keeps  *)
(* them: how far each has durably come, which only ever goes forward and   *)
(* one stage at a time, and what callers have been told of it, which is    *)
(* never more than that.  Nothing is said of calls, transactions, files,   *)
(* crashes or lifecycle states.  The promise is void once the medium       *)
(* itself has been lost.                                                   *)
(***************************************************************************)
EXTENDS Naturals

CONSTANT Version

VARIABLES stage,    \* how far each version has durably come
          told,     \* the stages of each that callers have been told of
          intact    \* nothing that was stored has been lost

contractVars == <<stage, told, intact>>

None == 0        \* no version
Issued == 1      \* a version with its upload session
Canonical == 2   \* a durable source and a dispatch intent
Delivered == 3   \* published derivatives and manifest

CInit ==
  /\ stage = [v \in Version |-> None]
  /\ told = [v \in Version |-> {}]
  /\ intact = TRUE

\* The next stage follows the one before.
Advance(v) == stage'[v] \in {stage[v], stage[v] + 1} /\ stage'[v] <= Delivered

\* A caller may be told of any stage that has been reached, also by the same step.
Tell(v) == told[v] \subseteq told'[v] /\ told'[v] \subseteq told[v] \union Issued..stage'[v]

Keep == intact /\ intact' /\ \A v \in Version : Advance(v) /\ Tell(v)

\* The medium is lost; after that anything goes.
Lose == intact' = FALSE

CNext == Keep \/ Lose

CSpec == CInit /\ [][CNext]_contractVars
===============================================================================
