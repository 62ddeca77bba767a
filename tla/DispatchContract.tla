--------------------------- MODULE DispatchContract ---------------------------
(***************************************************************************)
(* What the workflow-dispatch outbox promises, whoever drains it: the      *)
(* lifecycle table of one intent, and the relation between that lifecycle  *)
(* and what the workflow engine accepted.  Nothing is said of dispatchers, *)
(* claims, tokens, batches or failures; WorkflowDispatch implements this.  *)
(***************************************************************************)
CONSTANTS Dispatch,      \* the outbox rows that may ever be created
          Unregistered   \* those whose workflow template nobody registered

VARIABLES state,         \* the lifecycle state of each intent
          accepted       \* the intents whose start the engine has accepted

contractVars == <<state, accepted>>

CInit ==
  /\ state = [d \in Dispatch |-> "absent"]
  /\ accepted = {}

Intend(d) ==
  /\ state[d] = "absent"
  /\ state' = [state EXCEPT ![d] = "pending"]
  /\ UNCHANGED accepted

\* A claim takes a whole batch to "starting" at once.
Claim(S) ==
  /\ \A d \in S : state[d] \in {"pending", "failed_retryable"}
  /\ state' = [d \in Dispatch |-> IF d \in S THEN "starting" ELSE state[d]]
  /\ UNCHANGED accepted

\* The engine accepts a start only for a registered intent that is being attempted.
Accept(d) ==
  /\ state[d] = "starting"
  /\ d \notin Unregistered
  /\ accepted' = accepted \union {d}
  /\ UNCHANGED state

Settle(d) ==
  /\ state[d] = "starting"
  /\ \/ d \in accepted /\ state' = [state EXCEPT ![d] = "started"]
     \/ d \in accepted /\ state' = [state EXCEPT ![d] = "duplicate"]
     \/ state' = [state EXCEPT ![d] = "failed_retryable"]
     \/ /\ d \in Unregistered
        /\ state' = [state EXCEPT ![d] = "failed_terminal"]
  /\ UNCHANGED accepted

CNext ==
  \/ \E d \in Dispatch : Intend(d) \/ Accept(d) \/ Settle(d)
  \/ \E S \in SUBSET Dispatch : Claim(S)

CSpec == CInit /\ [][CNext]_contractVars
===============================================================================
