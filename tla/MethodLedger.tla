---------------------------- MODULE MethodLedger ----------------------------
(***************************************************************************)
(* What the method store promises its owner, without files, locks or       *)
(* workers: a method leaves the host only with the owner's consent, as one *)
(* intent under a policy the owner reviewed; the service decides on it     *)
(* once, and what it admitted may be withdrawn; and the status the owner   *)
(* sees never gets ahead of what happened, nor back behind a decision,     *)
(* save that a new registration may find no worker and say so.             *)
(* MethodCapture implements this specification.                            *)
(***************************************************************************)
CONSTANTS
  Methods,
  Policies

VARIABLES
  consented, \* methods whose owner gave standing consent
  offered,   \* offered[m]: the intents the service has received for m
  decision,  \* decision[m]: the service's verdict, "open" or "withdrawn"
  shown      \* shown[m]: the status the owner sees, or "none"

vars == <<consented, offered, decision, shown>>

Verdicts == {"active", "rejected"}
Setbacks == {"retryable", "policy-attention"}

Init ==
  /\ consented = {}
  /\ offered = [m \in Methods |-> {}]
  /\ decision = [m \in Methods |-> "open"]
  /\ shown = [m \in Methods |-> "none"]

Consent(m) ==
  /\ consented' = consented \cup {m}
  /\ UNCHANGED <<offered, decision, shown>>

\* An intent is offered once; offering it again changes nothing.
Offer(m, intent) ==
  /\ m \in consented
  /\ offered[m] = {}
  /\ intent.reviewed = intent.policy
  /\ offered' = [offered EXCEPT ![m] = {intent}]
  /\ UNCHANGED <<consented, decision, shown>>

Decide(m) ==
  /\ offered[m] # {}
  /\ decision[m] = "open"
  /\ \E v \in Verdicts : decision' = [decision EXCEPT ![m] = v]
  /\ UNCHANGED <<consented, offered, shown>>

Withdraw(m) ==
  /\ decision[m] = "active"
  /\ decision' = [decision EXCEPT ![m] = "withdrawn"]
  /\ UNCHANGED <<consented, offered, shown>>

\* The verdict v was given, whatever became of it.
Given(m, v) == decision[m] = v \/ (v = "active" /\ decision[m] = "withdrawn")

Show(m, s) ==
  /\ shown' = [shown EXCEPT ![m] = s]
  /\ UNCHANGED <<consented, offered, decision>>

ShowProgress(m) ==
  /\ shown[m] \notin Verdicts
  /\ \/ offered[m] # {} /\ Show(m, "submitted")
     \/ \E v \in Verdicts : Given(m, v) /\ Show(m, v)
     \/ m \in consented /\ \E s \in Setbacks : Show(m, s)

\* A registration that could not start a worker.
ShowNoWorker(m) == m \in consented /\ Show(m, "retryable")

Next ==
  \E m \in Methods :
    \/ Consent(m) \/ Decide(m) \/ Withdraw(m) \/ ShowProgress(m) \/ ShowNoWorker(m)
    \/ \E p, r \in Policies : Offer(m, [policy |-> p, reviewed |-> r])

Spec == Init /\ [][Next]_vars
=============================================================================
