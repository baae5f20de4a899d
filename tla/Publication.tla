---------------------------- MODULE Publication -----------------------------
(***************************************************************************)
(* Publishing a draft (publication.py) through ServiceConnector: processes *)
(* prepare one signed intent in a state file, accept the policy, negotiate *)
(* a plan, upload what it requires and report, or follow up and revoke.    *)
(* Any call may be repeated, killed, or lose an answer the service gave;   *)
(* meanwhile the owner edits the draft and the source file it names, and   *)
(* the service (external) rotates its policy and decides on admission.     *)
(*                                                                         *)
(* A draft names one source file, read a chunk at a time: here two pieces. *)
(* An intent is the draft, content and policy it was signed for and stands *)
(* for its digest and submissionRef.                                       *)
(***************************************************************************)
EXTENDS Integers, FiniteSets

CONSTANTS
  Publishers,  \* processes with the same draft and state path
  Pieces,      \* what each half of the source file may hold
  None,
  MaxPolicies, \* bound: policies the service advertises in turn
  MaxDrafts,   \* bound: versions of the draft
  MaxEdits     \* bound: edits of draft and source

ASSUME BoundsAssumption ==
  {MaxPolicies, MaxDrafts} \subseteq Nat \ {0} /\ MaxEdits \in Nat

Policies == 1..MaxPolicies
Drafts == 1..MaxDrafts
Contents == [1..2 -> Pieces]
Intents == [draft : Drafts, content : Contents, policy : Policies]

ASSUME NoneAssumption == None \notin Intents \cup Pieces

AdmissionStates ==
  {"observed", "pending", "active", "quarantined", "rejected", "retired", "revoked"}

VARIABLES
  draft, source,  \* the owner's draft and source file
  saved,          \* the state file: the prepared intent, or None
  policy,         \* the policy the service advertises
  accepted,       \* policies the publisher has accepted
  known,          \* contents the service holds
  admission,      \* of each intent: its admission state, or "absent"
  call,           \* of each publisher; `first` is the piece it has read
  edits

vars == <<draft, source, saved, policy, accepted, known, admission, call, edits>>
owner == <<draft, source, edits>>
service == <<policy, accepted, known, admission>>

-----------------------------------------------------------------------------
NewCall == [step |-> "idle", op |-> "publish", draft |-> 1, reviewed |-> 1, intent |-> None,
            first |-> None, plan |-> "none", status |-> "none"]

Ended == {"idle", "done", "failed"}

Ends(step) == [NewCall EXCEPT !.step = step]

Goes(p, step) == call' = [call EXCEPT ![p].step = step]

Fails(p) == call' = [call EXCEPT ![p] = Ends("failed")]

Init ==
  /\ draft = 1 /\ source \in Contents /\ edits = 0
  /\ saved = None
  /\ policy = 1 /\ accepted = {} /\ known = {}
  /\ admission = [i \in Intents |-> "absent"]
  /\ call = [p \in Publishers |-> NewCall]

\* publish_draft with the policy digest the owner reviewed: read the draft,
\* inspect, and go on only while that is the policy advertised.
Publish(p) ==
  /\ call[p].step \in Ended
  /\ call' = [call EXCEPT ![p] = [NewCall EXCEPT !.step = "prepare", !.draft = draft,
                                    !.reviewed = policy]]
  /\ UNCHANGED <<owner, saved, service>>

\* _state: the saved intent is for this draft and this policy.
Resumable(p) == saved.draft = call[p].draft /\ saved.policy = call[p].reviewed

\* The saved intent is resumed, or a new one is signed.
Prepare(p) ==
  /\ call[p].step = "prepare"
  /\ IF saved = None THEN Goes(p, "sign")
     ELSE IF Resumable(p)
       THEN call' = [call EXCEPT ![p].step = "accept", ![p].intent = saved]
     ELSE Fails(p)
  /\ UNCHANGED <<owner, saved, service>>

\* The source is read to sign its digest, to find it in the plan and to send
\* it, each time from the start.
ReadFirst(p) ==
  /\ call[p].step \in {"sign", "hash", "stream"} /\ call[p].first = None
  /\ call' = [call EXCEPT ![p].first = source[1]]
  /\ UNCHANGED <<owner, saved, service>>

\* What a call reads with the second piece: perhaps no content the file had.
Read(p) == [source EXCEPT ![1] = call[p].first]

\* _source_descriptor, _new_state.
Sign(p) ==
  /\ call[p].step = "sign" /\ call[p].first # None
  /\ call' = [call EXCEPT ![p].step = "create", ![p].first = None,
                ![p].intent = [draft |-> call[p].draft, content |-> Read(p),
                               policy |-> call[p].reviewed]]
  /\ UNCHANGED <<owner, saved, service>>

\* A mutated form: the state file is replaced.
CreateReplacing(p) ==
  /\ call[p].step = "create"
  /\ saved' = call[p].intent /\ Goes(p, "accept")
  /\ UNCHANGED <<owner, service>>

\* write_new_json: one process creates the file, every other one fails.
Create(p) ==
  /\ call[p].step = "create"
  /\ IF saved = None THEN saved' = call[p].intent /\ Goes(p, "accept")
     ELSE UNCHANGED saved /\ Fails(p)
  /\ UNCHANGED <<owner, service>>

-----------------------------------------------------------------------------
\* Requests: each may also fail before or after the service has dealt with
\* it (Lose).  All but the status and the revocation inspect the service first.

\* The acceptance names the policy that was reviewed; connector and service
\* want the one that is advertised.
Acceptable(p) == call[p].reviewed = policy

Accept(p) ==
  /\ call[p].step = "accept"
  /\ IF Acceptable(p)
       THEN accepted' = accepted \cup {policy} /\ Goes(p, "negotiate")
     ELSE UNCHANGED accepted /\ Fails(p)
  /\ UNCHANGED <<owner, saved, policy, known, admission>>

\* build_submission_plan: content is required unless the service holds it.
Plans(i) == IF i.content \in known THEN {"accepted", "rejected"} ELSE {"needs-content", "rejected"}

\* The service takes the intent up when it first sees it.
Observed(i) ==
  [admission EXCEPT ![i] =
     IF @ # "absent" THEN @ ELSE IF i.content \in known THEN "pending" ELSE "observed"]

After(plan) == IF plan = "needs-content" THEN "authorize" ELSE "status"

Negotiate(p, plan) ==
  LET i == call[p].intent IN
  /\ call[p].step = "negotiate"
  /\ plan \in Plans(i)
  /\ IF i.policy = policy /\ policy \in accepted
       THEN /\ admission' = Observed(i)
            /\ call' = [call EXCEPT ![p].step = After(plan), ![p].plan = plan]
     ELSE UNCHANGED admission /\ Fails(p)
  /\ UNCHANGED <<owner, saved, policy, accepted, known>>

Authorize(p) ==
  /\ call[p].step = "authorize"
  /\ Goes(p, "hash")
  /\ UNCHANGED <<owner, saved, service>>

\* The open source is hashed before it is streamed ...
Hash(p) ==
  /\ call[p].step = "hash" /\ call[p].first # None
  /\ IF Read(p) = call[p].intent.content
       THEN call' = [call EXCEPT ![p].step = "stream", ![p].first = None]
     ELSE Fails(p)
  /\ UNCHANGED <<owner, saved, service>>

\* A mutated form: the hash before the transfer is enough.
TransfersHashed(p) == policy \in accepted

\* ... and while it is: what was edited in between has left when the digest of
\* the last piece differs, and is refused, by the transport and the service.
Transfers(p) == Read(p) = call[p].intent.content /\ policy \in accepted

\* The service holds what it was sent.
Holds(p) ==
  /\ known' = known \cup {Read(p)}
  /\ admission' = [admission EXCEPT ![call[p].intent] = IF @ = "observed" THEN "pending" ELSE @]

Stream(p) ==
  /\ call[p].step = "stream" /\ call[p].first # None
  /\ IF Transfers(p)
       THEN Holds(p) /\ call' = [call EXCEPT ![p].step = "status", ![p].first = None]
     ELSE UNCHANGED <<known, admission>> /\ Fails(p)
  /\ UNCHANGED <<owner, saved, policy, accepted>>

\* A mutated form: the admission status alone counts.
ConfirmedByStatus(plan, status) == TRUE

\* An active admission counts only with a plan that requires nothing more.
Confirmed(plan, status) == status = "active" => plan = "accepted"

\* What publish_draft does with the admission status.
Follows(p, k) ==
  IF k.plan = "needs-content"
    THEN IF k.status \in {"active", "pending"}
           THEN call' = [call EXCEPT ![p] = [k EXCEPT !.step = "renegotiate"]]
         ELSE IF k.status \in {"quarantined", "rejected"}
           THEN call' = [call EXCEPT ![p] = [k EXCEPT !.step = "done"]]
         ELSE Fails(p)
  ELSE IF Confirmed(k.plan, k.status)
    THEN call' = [call EXCEPT ![p] = [k EXCEPT !.step = "done"]]
  ELSE Fails(p)

Status(p) ==
  LET k == [call[p] EXCEPT !.status = admission[call[p].intent]] IN
  /\ call[p].step = "status"
  /\ IF k.status = "absent" THEN Fails(p)
     ELSE IF k.op = "publish" THEN Follows(p, k)
     ELSE IF k.op = "status" \/ k.status = "revoked" THEN call' = [call EXCEPT ![p] = [k EXCEPT !.step = "done"]]
     ELSE IF k.status = "active" THEN call' = [call EXCEPT ![p] = [k EXCEPT !.step = "revoke"]]
     ELSE Fails(p)
  /\ UNCHANGED <<owner, saved, service>>

Renegotiate(p, plan) ==
  LET i == call[p].intent IN
  /\ call[p].step = "renegotiate"
  /\ plan \in Plans(i)
  /\ IF i.policy = policy /\ policy \in accepted /\ Confirmed(plan, call[p].status)
       THEN call' = [call EXCEPT ![p].step = "done", ![p].plan = plan]
     ELSE Fails(p)
  /\ UNCHANGED <<owner, saved, service>>

\* publication_status and revoke_publication follow up on the saved intent.
FollowUp(p, op) ==
  /\ call[p].step \in Ended
  /\ saved # None
  /\ call' = [call EXCEPT ![p] = [NewCall EXCEPT !.op = op, !.step = "status",
                                    !.intent = saved]]
  /\ UNCHANGED <<owner, saved, service>>

Revoke(p) ==
  LET i == call[p].intent IN
  /\ call[p].step = "revoke"
  /\ IF admission[i] \in {"active", "revoked"}
       THEN /\ admission' = [admission EXCEPT ![i] = "revoked"]
            /\ call' = [call EXCEPT ![p].step = "done", ![p].status = "revoked"]
     ELSE UNCHANGED admission /\ Fails(p)
  /\ UNCHANGED <<owner, saved, policy, accepted, known>>

Request(p) ==
  \/ Accept(p) \/ Authorize(p) \/ Stream(p) \/ Status(p) \/ Revoke(p)
  \/ \E plan \in {"accepted", "needs-content", "rejected"} :
       Negotiate(p, plan) \/ Renegotiate(p, plan)

\* The process is killed or the request never arrives.
Stop(p) ==
  /\ call[p].step \notin Ended
  /\ Fails(p)
  /\ UNCHANGED <<owner, saved, service>>

\* The service dealt with the request, and the answer is lost.
Lose(p) ==
  LET i == call[p].intent IN
  /\ \/ /\ call[p].step = "accept" /\ Acceptable(p)
        /\ accepted' = accepted \cup {policy}
        /\ UNCHANGED <<known, admission>>
     \/ /\ call[p].step = "negotiate"
        /\ i.policy = policy /\ policy \in accepted
        /\ admission' = Observed(i)
        /\ UNCHANGED <<accepted, known>>
     \/ /\ call[p].step = "stream" /\ call[p].first # None
        /\ Transfers(p) /\ Holds(p)
        /\ UNCHANGED accepted
     \/ /\ call[p].step = "revoke" /\ admission[i] = "active"
        /\ admission' = [admission EXCEPT ![i] = "revoked"]
        /\ UNCHANGED <<accepted, known>>
  /\ Fails(p)
  /\ UNCHANGED <<owner, saved, policy>>

-----------------------------------------------------------------------------
\* The owner and the service.

Edit(d, content) ==
  /\ edits < MaxEdits
  /\ <<d, content>> # <<draft, source>>
  /\ draft' = d /\ source' = content /\ edits' = edits + 1
  /\ UNCHANGED <<saved, service, call>>

Rotate ==
  /\ policy < MaxPolicies
  /\ policy' = policy + 1
  /\ UNCHANGED <<owner, saved, accepted, known, admission, call>>

Decide(i) ==
  /\ admission[i] = "pending"
  /\ \E decision \in {"active", "quarantined", "rejected"} :
       admission' = [admission EXCEPT ![i] = decision]
  /\ UNCHANGED <<owner, saved, policy, accepted, known, call>>

Retire(i) ==
  /\ admission[i] = "active"
  /\ admission' = [admission EXCEPT ![i] = "retired"]
  /\ UNCHANGED <<owner, saved, policy, accepted, known, call>>

Next ==
  \/ \E p \in Publishers :
       \/ Publish(p) \/ FollowUp(p, "status") \/ FollowUp(p, "revoke") \/ Prepare(p)
       \/ ReadFirst(p) \/ Sign(p) \/ Create(p) \/ Hash(p)
       \/ Request(p) \/ Stop(p) \/ Lose(p)
  \/ \E d \in Drafts, content \in Contents : Edit(d, content)
  \/ Rotate
  \/ \E i \in Intents : Decide(i) \/ Retire(i)

Spec == Init /\ [][Next]_vars

-----------------------------------------------------------------------------
(* Properties.                                                              *)

Steps == Ended \cup {"prepare", "sign", "create", "accept", "negotiate", "authorize", "hash",
                     "stream", "status", "renegotiate", "revoke"}

\* The files, the service and the calls keep their types.
TypeOK ==
  /\ draft \in Drafts /\ source \in Contents /\ edits \in 0..MaxEdits
  /\ saved \in Intents \cup {None}
  /\ policy \in Policies /\ accepted \subseteq Policies /\ known \subseteq Contents
  /\ admission \in [Intents -> AdmissionStates \cup {"absent"}]
  /\ call \in [Publishers ->
       [step : Steps, op : {"publish", "status", "revoke"}, draft : Drafts,
        reviewed : Policies, intent : Intents \cup {None},
        first : Pieces \cup {None}, plan : {"none", "accepted", "needs-content", "rejected"},
        status : AdmissionStates \cup {"none"}]]

\* What a call reports is what the service holds, or held before it moved
\* on: an active publication is complete at the service under the prepared
\* intent, however many retries, lost answers and rival calls led there, and
\* a revoked one is revoked.  (publication.py: publish_draft,
\* publication_status, revoke_publication.)
ReportIsTrue ==
  \A p \in Publishers : call[p].step = "done" =>
    LET k == call[p] IN
    /\ k.intent = saved
    /\ k.status = "active" => /\ k.op = "publish" => k.plan = "accepted"
                              /\ k.intent.content \in known
                              /\ admission[k.intent] \in {"active", "retired", "revoked"}
    /\ k.op = "revoke" => admission[k.intent] = "revoked"

\* Whatever is edited and rotated meanwhile, the service holds nothing but
\* what was prepared under a policy the publisher accepted, and only the
\* prepared intent is ever taken up.  (publication.py: _new_state, _state.)
OnlyPreparedIsHeld ==
  /\ \A i \in Intents : admission[i] # "absent" => i = saved /\ i.policy \in accepted
  /\ known \subseteq (IF saved = None THEN {} ELSE {saved.content})
=============================================================================
