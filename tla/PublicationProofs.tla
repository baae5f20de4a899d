--------------------------- MODULE PublicationProofs ---------------------------
(***************************************************************************)
(* Theorems about Publication, for any number of publishers, contents,     *)
(* policies and drafts and every bound.                                    *)
(*                                                                         *)
(* The state file is written once, so every call that follows the prepared *)
(* intent follows the same one.  The service takes up nothing else, and it *)
(* decides on an intent only once it holds its content; from then on the   *)
(* admission only moves on, so a report stays true of what was decided.    *)
(***************************************************************************)
EXTENDS Publication, TLAPS

Calls == [step : Steps, op : {"publish", "status", "revoke"}, draft : Drafts,
          reviewed : Policies, intent : Intents \cup {None},
          first : Pieces \cup {None}, plan : {"none", "accepted", "needs-content", "rejected"},
          status : AdmissionStates \cup {"none"}]

\* An admission that was decided in the publisher's favour, then or before.
Past == {"active", "retired", "revoked"}

\* The steps of a publication, and those that follow the prepared intent.
Publishing ==
  {"prepare", "sign", "create", "accept", "negotiate", "authorize", "hash", "stream",
   "renegotiate"}
Uploading == {"authorize", "hash", "stream"}
Following == Steps \ {"idle", "failed", "prepare", "sign", "create"}

WorldOK ==
  /\ draft \in Drafts /\ source \in Contents /\ edits \in 0..MaxEdits
  /\ saved \in Intents \cup {None}
  /\ policy \in Policies /\ accepted \subseteq Policies /\ known \subseteq Contents
  /\ admission \in [Intents -> AdmissionStates \cup {"absent"}]

\* Only the prepared intent is held, and nothing is decided without content.
HeldOK ==
  /\ \A i \in Intents : admission[i] # "absent" => i = saved /\ i.policy \in accepted
  /\ \A i \in Intents : admission[i] \notin {"absent", "observed"} => i.content \in known
  /\ \A c \in known : saved # None /\ c = saved.content

CallOK(k) ==
  /\ k.step = "create" => k.intent \in Intents
  /\ k.step \in Following => k.intent = saved /\ saved # None
  /\ k.step \in Publishing => k.op = "publish"
  /\ k.step = "revoke" => k.op = "revoke"
  /\ k.step \in Uploading => admission[k.intent] # "absent"
  /\ k.step \in {"renegotiate", "done"} /\ k.status = "active" => admission[k.intent] \in Past
  /\ k.step = "done" /\ k.status = "active" /\ k.op = "publish" => k.plan = "accepted"
  /\ k.step = "done" /\ k.op = "revoke" => admission[k.intent] = "revoked"

CallsOK ==
  /\ call \in [Publishers -> Calls]
  /\ \A p \in Publishers : CallOK(call[p])

PubInv == WorldOK /\ HeldOK /\ CallsOK

\* What a step may do to what calls have seen.
Onward ==
  /\ saved' = saved \/ saved = None
  /\ \A i \in Intents :
       /\ admission[i] # "absent" => admission'[i] # "absent"
       /\ admission[i] \in Past => admission'[i] \in Past
       /\ admission[i] = "revoked" => admission'[i] = "revoked"

World == <<draft, source, saved, policy, accepted, known, admission, edits>>

-----------------------------------------------------------------------------
(* A call and what happens around it.                                       *)

LEMMA CallStays ==
  ASSUME WorldOK, Onward, NEW k \in Calls, CallOK(k)
  PROVE  CallOK(k)'
<1>1. CASE k.step \notin Following
  BY <1>1 DEF CallOK, Following, Uploading, Steps, Ended
<1>2. CASE k.step \in Following
  <2>1. k.intent = saved /\ saved # None /\ saved' = saved /\ k.intent \in Intents
    BY <1>2 DEF CallOK, Onward, WorldOK
  <2> QED BY <2>1 DEF CallOK, Onward
<1> QED BY <1>1, <1>2

LEMMA CallOf ==
  ASSUME PubInv, NEW p \in Publishers
  PROVE  /\ call[p] \in Calls /\ CallOK(call[p]) /\ call \in [Publishers -> Calls]
         /\ WorldOK /\ HeldOK
  BY DEF PubInv, CallsOK

\* A publisher takes a step, and its call is right afterwards.
LEMMA CallerStep ==
  ASSUME PubInv, WorldOK', HeldOK', Onward,
         NEW p \in Publishers, NEW k \in Calls, call' = [call EXCEPT ![p] = k],
         CallOK(k)'
  PROVE  PubInv'
<1>1. /\ call' \in [Publishers -> Calls] /\ call'[p] = k
      /\ \A q \in Publishers \ {p} : call'[q] = call[q]
  BY DEF PubInv, CallsOK
<1>2. ASSUME NEW q \in Publishers PROVE CallOK(call[q])'
  <2>1. CASE q = p
    <3>1. call'[q] = k BY <1>1, <2>1
    <3> QED BY <3>1 DEF CallOK
  <2>2. CASE q # p
    <3>1. PICK m \in Calls : m = call[q] /\ m = call'[q] /\ CallOK(m)
      BY <1>1, <2>2 DEF PubInv, CallsOK
    <3>2. CallOK(m)' BY <3>1, CallStays DEF PubInv
    <3> QED BY <3>1, <3>2
  <2> QED BY <2>1, <2>2
<1> QED BY <1>1, <1>2 DEF PubInv, CallsOK

LEMMA NewCallOK ==
  /\ NewCall \in Calls /\ CallOK(NewCall)
  /\ Ends("failed") \in Calls /\ CallOK(Ends("failed"))
<1>1. 1 \in Drafts /\ 1 \in Policies BY BoundsAssumption DEF Drafts, Policies
<1>2. NewCall \in Calls BY <1>1 DEF NewCall, Calls, Steps, Ended
<1>3. Ends("failed") \in Calls BY <1>2 DEF Ends, Calls, Steps, Ended
<1>4. CallOK(NewCall) /\ CallOK(Ends("failed"))
  BY DEF CallOK, NewCall, Ends, Following, Publishing, Uploading, Steps, Ended
<1> QED BY <1>2, <1>3, <1>4

LEMMA FailsStep ==
  ASSUME PubInv, WorldOK', HeldOK', Onward, NEW p \in Publishers, Fails(p)
  PROVE  PubInv'
<1>1. PICK k \in Calls : k = Ends("failed") BY NewCallOK
<1>2. call' = [call EXCEPT ![p] = k] BY <1>1 DEF Fails
<1>3. k.step = "failed" BY <1>1 DEF Ends, NewCall
<1>4. CallOK(k)' BY <1>3 DEF CallOK, Following, Publishing, Uploading, Steps, Ended
<1> QED BY <1>2, <1>4, CallerStep

\* A call that follows the prepared intent goes on to follow it, with what it
\* may have read of the source.
LEMMA AdvanceStep ==
  ASSUME PubInv, WorldOK', HeldOK', Onward, NEW p \in Publishers,
         call[p].step \in Following \cap Publishing,
         NEW s \in (Following \cap Publishing) \cup {"status"}, s # "renegotiate",
         s \in Uploading => call[p].step \in Uploading,
         NEW first \in Pieces \cup {None},
         call' = [call EXCEPT ![p].step = s, ![p].first = first]
  PROVE  PubInv'
<1>1. s \in Steps BY DEF Following, Steps
<1>2. PICK k \in Calls : k = [call[p] EXCEPT !.step = s, !.first = first]
  BY <1>1, CallOf DEF Calls
<1>3. call' = [call EXCEPT ![p] = k] BY <1>2, CallOf
<1>4. k.step = s /\ k.intent = call[p].intent /\ k.op = call[p].op BY <1>2, CallOf DEF Calls
<1>5. k.intent = saved /\ saved # None /\ k.op = "publish" BY <1>4, CallOf DEF CallOK
<1>6. saved' = saved /\ saved \in Intents BY <1>5, CallOf DEF Onward, WorldOK
<1>7. k.step \notin {"create", "revoke", "renegotiate", "done"}
  BY <1>4 DEF Following, Publishing, Steps, Ended
<1>8. k.step \in Uploading => admission'[k.intent] # "absent"
  BY <1>4, <1>5, <1>6, CallOf DEF CallOK, Onward
<1>9. CallOK(k)' BY <1>4, <1>5, <1>6, <1>7, <1>8 DEF CallOK
<1> QED BY <1>3, <1>9, CallerStep

LEMMA GoesStep ==
  ASSUME PubInv, WorldOK', HeldOK', Onward, NEW p \in Publishers,
         call[p].step \in Following \cap Publishing,
         NEW s \in (Following \cap Publishing) \cup {"status"}, s # "renegotiate",
         s \in Uploading => call[p].step \in Uploading,
         Goes(p, s)
  PROVE  PubInv'
<1>1. PICK first \in Pieces \cup {None} : first = call[p].first BY CallOf DEF Calls
<1>2. call' = [call EXCEPT ![p].step = s, ![p].first = first] BY <1>1, CallOf DEF Goes, Calls
<1> QED BY <1>1, <1>2, AdvanceStep

\* A call before the state file goes on, with what it may have read.
LEMMA EarlyStep ==
  ASSUME PubInv, UNCHANGED World, NEW p \in Publishers,
         call[p].op = "publish",
         NEW first \in Pieces \cup {None},
         call' = [call EXCEPT ![p].step = "sign", ![p].first = first]
  PROVE  PubInv'
<1>1. PICK k \in Calls : k = [call[p] EXCEPT !.step = "sign", !.first = first]
  BY CallOf DEF Calls, Steps
<1>2. call' = [call EXCEPT ![p] = k] BY <1>1, CallOf
<1>3. k.step = "sign" /\ k.op = "publish" BY <1>1, CallOf DEF Calls
<1>4. CallOK(k)' BY <1>3 DEF CallOK, Following, Uploading
<1>5. WorldOK' /\ HeldOK' /\ Onward BY DEF PubInv, WorldOK, HeldOK, Onward, World
<1> QED BY <1>2, <1>4, <1>5, CallerStep

-----------------------------------------------------------------------------
(* What the service and the owner do.                                       *)

LEMMA NothingMoves ==
  ASSUME PubInv, UNCHANGED World
  PROVE  WorldOK' /\ HeldOK' /\ Onward
  BY DEF PubInv, WorldOK, HeldOK, Onward, World

LEMMA AcceptMoves ==
  ASSUME PubInv, accepted' = accepted \cup {policy},
         UNCHANGED <<owner, saved, policy, known, admission>>
  PROVE  WorldOK' /\ HeldOK' /\ Onward
<1>1. UNCHANGED <<draft, source, edits, saved, policy, known, admission>> BY DEF owner
<1>2. WorldOK' BY <1>1 DEF PubInv, WorldOK
<1>3. HeldOK' BY <1>1 DEF PubInv, HeldOK
<1>4. Onward BY <1>1 DEF Onward
<1> QED BY <1>2, <1>3, <1>4

\* One admission moves on, perhaps with the content that was sent for it.
LEMMA AdmissionMoves ==
  ASSUME PubInv, NEW i \in Intents, NEW s \in AdmissionStates,
         admission' = [admission EXCEPT ![i] = s],
         UNCHANGED <<draft, source, edits, saved, policy, accepted>>,
         admission[i] # "absent" \/ (i = saved /\ i.policy \in accepted),
         known' = known \/ (i = saved /\ known' = known \cup {i.content}),
         s = "observed" \/ i.content \in known',
         admission[i] \in Past => s \in Past,
         admission[i] = "revoked" => s = "revoked"
  PROVE  WorldOK' /\ HeldOK' /\ Onward
<1>1. /\ admission'[i] = s /\ \A j \in Intents \ {i} : admission'[j] = admission[j]
      /\ admission' \in [Intents -> AdmissionStates \cup {"absent"}]
  BY DEF PubInv, WorldOK
<1>2. known \subseteq known' BY SetExtensionality
<1>3. known' \subseteq Contents BY DEF PubInv, WorldOK, Intents
<1>4. WorldOK' BY <1>1, <1>3 DEF PubInv, WorldOK
<1>5. i = saved /\ i.policy \in accepted BY DEF PubInv, HeldOK
<1>6. \A j \in Intents : admission'[j] # "absent" => j = saved /\ j.policy \in accepted
  BY <1>1, <1>5 DEF PubInv, HeldOK
<1>7. \A j \in Intents : admission'[j] \notin {"absent", "observed"} => j.content \in known'
  BY <1>1, <1>2 DEF PubInv, HeldOK
<1>8. \A c \in known' : saved # None /\ c = saved.content
  BY <1>5, NoneAssumption DEF PubInv, HeldOK
<1>9. HeldOK' BY <1>6, <1>7, <1>8 DEF HeldOK
<1>10. Onward BY <1>1 DEF Onward, AdmissionStates
<1> QED BY <1>4, <1>9, <1>10

LEMMA ObserveMoves ==
  ASSUME PubInv, NEW i \in Intents, i = saved, i.policy \in accepted,
         admission' = Observed(i), UNCHANGED <<owner, saved, policy, accepted, known>>
  PROVE  WorldOK' /\ HeldOK' /\ Onward
<1> DEFINE s == IF admission[i] # "absent" THEN admission[i]
                ELSE IF i.content \in known THEN "pending" ELSE "observed"
<1>1. admission' = [admission EXCEPT ![i] = s] BY DEF Observed
<1>2. s \in AdmissionStates BY DEF PubInv, WorldOK, AdmissionStates
<1>3. s = "observed" \/ i.content \in known BY DEF PubInv, HeldOK
<1>4. /\ admission[i] \in Past => s \in Past
      /\ admission[i] = "revoked" => s = "revoked"
  BY DEF Past
<1>5. UNCHANGED <<draft, source, edits, saved, policy, accepted, known>> BY DEF owner
<1> HIDE DEF s
<1> QED BY <1>1, <1>2, <1>3, <1>4, <1>5, AdmissionMoves

\* What a call has read of the source.
LEMMA ReadOK ==
  ASSUME PubInv, NEW p \in Publishers, call[p].first # None
  PROVE  Read(p) \in Contents
<1>1. call[p].first \in Pieces /\ source \in [1..2 -> Pieces]
  BY CallOf DEF Calls, WorldOK, Contents
<1> QED BY <1>1 DEF Read, Contents

LEMMA StreamMoves ==
  ASSUME PubInv, NEW p \in Publishers, NEW i \in Intents, i = saved, i = call[p].intent,
         Transfers(p), Holds(p),
         UNCHANGED <<owner, saved, policy, accepted>>, admission[i] # "absent"
  PROVE  WorldOK' /\ HeldOK' /\ Onward
<1> DEFINE s == IF admission[i] = "observed" THEN "pending" ELSE admission[i]
<1>1. admission' = [admission EXCEPT ![i] = s] BY DEF Holds
<1>2. s \in AdmissionStates BY DEF PubInv, WorldOK, AdmissionStates
<1>3. known' = known \cup {i.content} /\ i.content \in known' BY DEF Transfers, Holds
<1>4. /\ admission[i] \in Past => s \in Past
      /\ admission[i] = "revoked" => s = "revoked"
  BY DEF Past
<1>5. UNCHANGED <<draft, source, edits, saved, policy, accepted>> BY DEF owner
<1> HIDE DEF s
<1> QED BY <1>1, <1>2, <1>3, <1>4, <1>5, AdmissionMoves

LEMMA RevokeMoves ==
  ASSUME PubInv, NEW i \in Intents, admission[i] \in {"active", "revoked"},
         admission' = [admission EXCEPT ![i] = "revoked"],
         UNCHANGED <<owner, saved, policy, accepted, known>>
  PROVE  WorldOK' /\ HeldOK' /\ Onward
<1>1. UNCHANGED <<draft, source, edits, saved, policy, accepted, known>> BY DEF owner
<1>2. "revoked" \in AdmissionStates /\ "revoked" \in Past BY DEF AdmissionStates, Past
<1>3. i.content \in known' BY <1>1 DEF PubInv, HeldOK
<1> QED BY <1>1, <1>2, <1>3, AdmissionMoves

-----------------------------------------------------------------------------
(* The steps of a publisher.                                                *)

LEMMA InitPubInv == Init => PubInv
<1> SUFFICES ASSUME Init PROVE PubInv OBVIOUS
<1>1. 1 \in Drafts /\ 1 \in Policies BY BoundsAssumption DEF Drafts, Policies
<1>2. WorldOK BY <1>1, BoundsAssumption DEF Init, WorldOK
<1>3. HeldOK BY DEF Init, HeldOK
<1>4. CallsOK BY NewCallOK DEF Init, CallsOK
<1> QED BY <1>2, <1>3, <1>4 DEF PubInv

LEMMA PublishStep ==
  ASSUME PubInv, NEW p \in Publishers, Publish(p)
  PROVE  PubInv'
<1>1. UNCHANGED World BY DEF Publish, World, owner, service
<1>2. PICK k \in Calls :
        k = [NewCall EXCEPT !.step = "prepare", !.draft = draft, !.reviewed = policy]
  BY NewCallOK, CallOf DEF Calls, WorldOK, Steps
<1>3. call' = [call EXCEPT ![p] = k] BY <1>2 DEF Publish
<1>4. k.step = "prepare" /\ k.op = "publish" BY <1>2 DEF NewCall
<1>5. CallOK(k)' BY <1>4 DEF CallOK, Following, Uploading
<1> QED BY <1>1, <1>3, <1>5, NothingMoves, CallerStep

LEMMA PrepareStep ==
  ASSUME PubInv, NEW p \in Publishers, Prepare(p)
  PROVE  PubInv'
<1>1. UNCHANGED World BY DEF Prepare, World, owner, service
<1>2. call[p].step = "prepare" /\ call[p].op = "publish"
  BY CallOf DEF Prepare, CallOK, Publishing
<1>3. CASE saved = None
  <2>1. PICK first \in Pieces \cup {None} : first = call[p].first BY CallOf DEF Calls
  <2>2. call' = [call EXCEPT ![p].step = "sign", ![p].first = first]
    BY <1>3, <2>1, CallOf DEF Prepare, Goes, Calls
  <2> QED BY <1>1, <1>2, <2>1, <2>2, EarlyStep
<1>4. CASE saved # None /\ Resumable(p)
  <2>1. PICK k \in Calls : k = [call[p] EXCEPT !.step = "accept", !.intent = saved]
    BY CallOf DEF Calls, WorldOK, Steps
  <2>2. call' = [call EXCEPT ![p] = k] BY <1>4, <2>1, CallOf DEF Prepare
  <2>3. k.step = "accept" /\ k.intent = saved /\ k.op = "publish"
    BY <1>2, <2>1, CallOf DEF Calls
  <2>4. saved' = saved BY <1>1 DEF World
  <2>5. CallOK(k)' BY <1>4, <2>3, <2>4 DEF CallOK, Uploading
  <2> QED BY <1>1, <2>2, <2>5, NothingMoves, CallerStep
<1>5. CASE Fails(p) BY <1>1, <1>5, NothingMoves, FailsStep
<1> QED BY <1>3, <1>4, <1>5 DEF Prepare

\* The first piece is read, before the state file or when it is sent.
LEMMA ReadFirstStep ==
  ASSUME PubInv, NEW p \in Publishers, ReadFirst(p)
  PROVE  PubInv'
<1>1. UNCHANGED World BY DEF ReadFirst, World, owner, service
<1>2. PICK first \in Pieces \cup {None} : first = source[1]
  BY CallOf DEF WorldOK, Contents
<1>3. PICK s \in {"sign", "hash", "stream"} : s = call[p].step BY DEF ReadFirst
<1>4. call' = [call EXCEPT ![p].step = s, ![p].first = first]
  BY <1>2, <1>3, CallOf DEF ReadFirst, Calls
<1>5. CASE s = "sign"
  <2>1. call[p].op = "publish" BY <1>3, <1>5, CallOf DEF CallOK, Publishing
  <2> QED BY <1>1, <1>2, <1>4, <1>5, <2>1, EarlyStep
<1>6. CASE s # "sign"
  <2>1. /\ s \in Following \cap Publishing \cap Uploading /\ s # "renegotiate"
    BY <1>6 DEF Following, Publishing, Uploading, Steps, Ended
  <2> QED BY <1>1, <1>2, <1>3, <1>4, <2>1, NothingMoves, AdvanceStep
<1> QED BY <1>5, <1>6

LEMMA SignStep ==
  ASSUME PubInv, NEW p \in Publishers, Sign(p)
  PROVE  PubInv'
<1>1. UNCHANGED World BY DEF Sign, World, owner, service
<1>2. call[p].op = "publish" BY CallOf DEF Sign, CallOK, Publishing
<1>3. PICK i \in Intents :
        i = [draft |-> call[p].draft, content |-> Read(p), policy |-> call[p].reviewed]
  BY ReadOK, CallOf DEF Sign, Calls, Intents
<1>4. PICK k \in Calls : k = [call[p] EXCEPT !.step = "create", !.first = None, !.intent = i]
  BY CallOf DEF Calls, Steps
<1>5. call' = [call EXCEPT ![p] = k] BY <1>3, <1>4, CallOf DEF Sign
<1>6. k.step = "create" /\ k.intent = i /\ k.op = "publish" BY <1>2, <1>4, CallOf DEF Calls
<1>7. CallOK(k)' BY <1>6 DEF CallOK, Following, Uploading
<1> QED BY <1>1, <1>5, <1>7, NothingMoves, CallerStep

\* The state file is written where there is none: nobody follows it yet.
LEMMA CreateStep ==
  ASSUME PubInv, NEW p \in Publishers, Create(p)
  PROVE  PubInv'
<1>1. /\ call[p].step = "create" /\ call[p].intent \in Intents /\ call[p].op = "publish"
      /\ UNCHANGED <<draft, source, edits, policy, accepted, known, admission>>
  BY CallOf DEF Create, CallOK, Publishing, owner, service
<1>2. CASE saved = None /\ saved' = call[p].intent /\ Goes(p, "accept")
  <2>1. WorldOK' BY <1>1, <1>2 DEF PubInv, WorldOK
  <2>2. HeldOK'
    <3>1. \A i \in Intents : admission[i] = "absent" BY <1>2, NoneAssumption DEF PubInv, HeldOK
    <3>2. known = {} BY <1>2 DEF PubInv, HeldOK
    <3> QED BY <1>1, <3>1, <3>2 DEF HeldOK
  <2>3. Onward BY <1>1, <1>2 DEF Onward
  <2>4. PICK k \in Calls : k = [call[p] EXCEPT !.step = "accept"]
    BY CallOf DEF Calls, Steps
  <2>5. call' = [call EXCEPT ![p] = k] BY <1>2, <2>4 DEF Goes
  <2>6. k.step = "accept" /\ k.intent = saved' /\ k.op = "publish" /\ saved' # None
    BY <1>1, <1>2, <2>4, CallOf, NoneAssumption DEF Calls
  <2>7. CallOK(k)' BY <2>6 DEF CallOK, Uploading
  <2> QED BY <2>1, <2>2, <2>3, <2>5, <2>7, CallerStep
<1>3. CASE UNCHANGED saved /\ Fails(p)
  <2>1. UNCHANGED World BY <1>1, <1>3 DEF World
  <2> QED BY <1>3, <2>1, NothingMoves, FailsStep
<1> QED BY <1>2, <1>3 DEF Create

\* A call that is at one of the steps of a publication after the preparation.
LEMMA FollowsSaved ==
  ASSUME PubInv, NEW p \in Publishers, call[p].step \in Following
  PROVE  call[p].intent = saved /\ saved \in Intents
  BY CallOf DEF CallOK, WorldOK

LEMMA AcceptStep ==
  ASSUME PubInv, NEW p \in Publishers, Accept(p)
  PROVE  PubInv'
<1>1. call[p].step \in Following \cap Publishing
  BY DEF Accept, Following, Publishing, Steps, Ended
<1>2. CASE accepted' = accepted \cup {policy} /\ Goes(p, "negotiate")
  <2>1. WorldOK' /\ HeldOK' /\ Onward BY <1>2, AcceptMoves DEF Accept
  <2>2. "negotiate" \in (Following \cap Publishing) \ Uploading
    BY DEF Following, Publishing, Uploading, Steps, Ended
  <2> QED BY <1>1, <1>2, <2>1, <2>2, GoesStep
<1>3. CASE UNCHANGED accepted /\ Fails(p)
  <2>1. UNCHANGED World BY <1>3 DEF Accept, World, owner
  <2> QED BY <1>3, <2>1, NothingMoves, FailsStep
<1> QED BY <1>2, <1>3 DEF Accept

\* The plan says whether the call goes on to upload or to ask for the status.
LEMMA NegotiateStep ==
  ASSUME PubInv, NEW p \in Publishers,
         NEW plan \in {"accepted", "needs-content", "rejected"}, Negotiate(p, plan)
  PROVE  PubInv'
<1>1. PICK i \in Intents : i = call[p].intent /\ i = saved
  BY FollowsSaved DEF Negotiate, Following, Steps, Ended
<1>2. call[p].step = "negotiate" /\ call[p].op = "publish"
  BY CallOf DEF Negotiate, CallOK, Publishing
<1>3. CASE /\ i.policy = policy /\ policy \in accepted /\ admission' = Observed(i)
           /\ call' = [call EXCEPT ![p].step = After(plan), ![p].plan = plan]
  <2>1. WorldOK' /\ HeldOK' /\ Onward /\ saved' = saved
    BY <1>1, <1>3, ObserveMoves DEF Negotiate
  <2>2. After(plan) \in {"authorize", "status"} BY DEF After
  <2>3. PICK k \in Calls : k = [call[p] EXCEPT !.step = After(plan), !.plan = plan]
    BY <2>2, CallOf DEF Calls, Steps, Ended
  <2>4. call' = [call EXCEPT ![p] = k] BY <1>3, <2>3, CallOf
  <2>5. k.step \in {"authorize", "status"} /\ k.intent = saved /\ k.op = "publish"
    BY <1>1, <1>2, <2>2, <2>3, CallOf DEF Calls
  <2>6. admission'[i] # "absent" BY <1>3, CallOf DEF Observed, WorldOK
  <2>7. CallOK(k)' BY <1>1, <2>1, <2>5, <2>6, NoneAssumption DEF CallOK
  <2> QED BY <2>1, <2>4, <2>7, CallerStep
<1>4. CASE UNCHANGED admission /\ Fails(p)
  <2>1. UNCHANGED World BY <1>4 DEF Negotiate, World, owner
  <2> QED BY <1>4, <2>1, NothingMoves, FailsStep
<1> QED BY <1>1, <1>3, <1>4 DEF Negotiate

LEMMA AuthorizeStep ==
  ASSUME PubInv, NEW p \in Publishers, Authorize(p)
  PROVE  PubInv'
<1>1. UNCHANGED World BY DEF Authorize, World, owner, service
<1>2. call[p].step \in Following \cap Publishing \cap Uploading
  BY DEF Authorize, Following, Publishing, Uploading, Steps, Ended
<1>3. "hash" \in Following \cap Publishing BY DEF Following, Publishing, Steps, Ended
<1>4. Goes(p, "hash") BY DEF Authorize
<1> QED BY <1>1, <1>2, <1>3, <1>4, NothingMoves, GoesStep

LEMMA HashStep ==
  ASSUME PubInv, NEW p \in Publishers, Hash(p)
  PROVE  PubInv'
<1>1. UNCHANGED World BY DEF Hash, World, owner, service
<1>2. call[p].step \in Following \cap Publishing \cap Uploading
  BY DEF Hash, Following, Publishing, Uploading, Steps, Ended
<1>3. "stream" \in Following \cap Publishing BY DEF Following, Publishing, Steps, Ended
<1>4. CASE call' = [call EXCEPT ![p].step = "stream", ![p].first = None]
  BY <1>1, <1>2, <1>3, <1>4, NothingMoves, AdvanceStep
<1>5. CASE Fails(p) BY <1>1, <1>5, NothingMoves, FailsStep
<1> QED BY <1>4, <1>5 DEF Hash

LEMMA StreamStep ==
  ASSUME PubInv, NEW p \in Publishers, Stream(p)
  PROVE  PubInv'
<1>1. call[p].step \in Following \cap Publishing \cap Uploading
  BY DEF Stream, Following, Publishing, Uploading, Steps, Ended
<1>2. PICK i \in Intents : i = call[p].intent /\ i = saved /\ admission[i] # "absent"
  BY <1>1, FollowsSaved, CallOf DEF CallOK
<1>3. CASE /\ Transfers(p) /\ Holds(p)
           /\ call' = [call EXCEPT ![p].step = "status", ![p].first = None]
  <2>1. WorldOK' /\ HeldOK' /\ Onward BY <1>2, <1>3, StreamMoves DEF Stream
  <2>2. "status" \notin Uploading BY DEF Uploading
  <2> QED BY <1>1, <1>3, <2>1, <2>2, AdvanceStep
<1>4. CASE UNCHANGED <<known, admission>> /\ Fails(p)
  <2>1. UNCHANGED World BY <1>4 DEF Stream, World, owner
  <2> QED BY <1>4, <2>1, NothingMoves, FailsStep
<1> QED BY <1>2, <1>3, <1>4 DEF Stream

\* What is done with an admission status is settled by the status itself.
LEMMA StatusStep ==
  ASSUME PubInv, NEW p \in Publishers, Status(p)
  PROVE  PubInv'
<1>1. UNCHANGED World BY DEF Status, World, owner, service
<1>2. call[p].step = "status" /\ call[p].step \in Following
  BY DEF Status, Following, Steps, Ended
<1>3. PICK i \in Intents : i = call[p].intent /\ i = saved BY <1>2, FollowsSaved
<1>4. CASE Fails(p) BY <1>1, <1>4, NothingMoves, FailsStep
<1>5. CASE ~Fails(p)
  <2>1. admission[i] \in AdmissionStates BY <1>3, <1>5, CallOf DEF Status, WorldOK
  <2>2. PICK k \in Calls : k = [call[p] EXCEPT !.status = admission[i]]
    BY <2>1, CallOf DEF Calls
  <2>3. k.status = admission[i] /\ k.intent = saved /\ k.op = call[p].op /\ saved # None
    BY <1>2, <1>3, <2>2, CallOf DEF Calls, CallOK
  <2>4. ASSUME NEW s \in {"done", "renegotiate", "revoke"},
               call' = [call EXCEPT ![p] = [k EXCEPT !.step = s]],
               s = "renegotiate" => k.op = "publish",
               s = "revoke" => k.op = "revoke",
               s = "done" /\ k.status = "active" /\ k.op = "publish" => k.plan = "accepted",
               s = "done" /\ k.op = "revoke" => k.status = "revoked"
        PROVE  PubInv'
    <3>1. s \in Steps BY DEF Steps, Ended
    <3>2. PICK m \in Calls : m = [k EXCEPT !.step = s] BY <3>1 DEF Calls
    <3>3. m.step = s /\ m.status = k.status /\ m.intent = saved /\ m.op = k.op /\ m.plan = k.plan
      BY <2>3, <3>2 DEF Calls
    <3>4. saved' = saved /\ admission' = admission BY <1>1 DEF World
    <3>5. admission[saved] = k.status BY <1>3, <2>3
    <3>6. CallOK(m)'
      BY <2>3, <2>4, <3>3, <3>4, <3>5 DEF CallOK, Publishing, Uploading, Past
    <3> QED BY <1>1, <2>4, <3>2, <3>6, NothingMoves, CallerStep
  <2>5. CASE k.op = "publish"
    <3>1. Follows(p, k) BY <1>3, <1>5, <2>2, <2>3, <2>5 DEF Status
    <3>2. CASE call' = [call EXCEPT ![p] = [k EXCEPT !.step = "renegotiate"]]
      BY <2>4, <2>5, <3>2
    <3>3. CASE /\ call' = [call EXCEPT ![p] = [k EXCEPT !.step = "done"]]
               /\ k.status # "active"
      BY <2>4, <2>5, <3>3
    <3>4. CASE /\ call' = [call EXCEPT ![p] = [k EXCEPT !.step = "done"]]
               /\ Confirmed(k.plan, k.status)
      BY <2>4, <2>5, <3>4 DEF Confirmed
    <3> QED BY <1>5, <3>1, <3>2, <3>3, <3>4 DEF Follows
  <2>6. CASE k.op # "publish" /\ call' = [call EXCEPT ![p] = [k EXCEPT !.step = "done"]]
             /\ (k.op = "status" \/ k.status = "revoked")
    BY <2>4, <2>6
  <2>7. CASE k.op = "revoke" /\ call' = [call EXCEPT ![p] = [k EXCEPT !.step = "revoke"]]
    BY <2>4, <2>7
  <2>8. k.op \in {"publish", "status", "revoke"} BY DEF Calls
  <2> QED BY <1>3, <1>5, <2>2, <2>3, <2>5, <2>6, <2>7, <2>8 DEF Status
<1> QED BY <1>4, <1>5

LEMMA RenegotiateStep ==
  ASSUME PubInv, NEW p \in Publishers,
         NEW plan \in {"accepted", "needs-content", "rejected"}, Renegotiate(p, plan)
  PROVE  PubInv'
<1>1. UNCHANGED World BY DEF Renegotiate, World, owner, service
<1>2. call[p].step = "renegotiate" /\ call[p].op = "publish"
  BY CallOf DEF Renegotiate, CallOK, Publishing
<1>3. PICK i \in Intents : i = call[p].intent /\ i = saved
  BY <1>2, FollowsSaved DEF Following, Steps, Ended
<1>4. CASE /\ Confirmed(plan, call[p].status)
           /\ call' = [call EXCEPT ![p].step = "done", ![p].plan = plan]
  <2>1. PICK k \in Calls : k = [call[p] EXCEPT !.step = "done", !.plan = plan]
    BY CallOf DEF Calls, Steps, Ended
  <2>2. call' = [call EXCEPT ![p] = k] BY <1>4, <2>1, CallOf
  <2>3. /\ k.step = "done" /\ k.intent = saved /\ k.op = "publish" /\ k.plan = plan
        /\ k.status = call[p].status
    BY <1>2, <1>3, <2>1, CallOf DEF Calls
  <2>4. k.status = "active" => k.plan = "accepted" /\ admission[saved] \in Past
    BY <1>2, <1>3, <1>4, <2>3, CallOf DEF CallOK, Confirmed
  <2>5. saved' = saved /\ admission' = admission /\ saved # None
    BY <1>1, <1>3, NoneAssumption DEF World
  <2>6. CallOK(k)' BY <2>3, <2>4, <2>5 DEF CallOK, Uploading
  <2> QED BY <1>1, <2>2, <2>6, NothingMoves, CallerStep
<1>5. CASE Fails(p) BY <1>1, <1>5, NothingMoves, FailsStep
<1> QED BY <1>4, <1>5 DEF Renegotiate

LEMMA FollowUpStep ==
  ASSUME PubInv, NEW p \in Publishers, NEW op \in {"status", "revoke"}, FollowUp(p, op)
  PROVE  PubInv'
<1>1. UNCHANGED World /\ saved # None /\ saved \in Intents
  BY CallOf DEF FollowUp, World, owner, service, WorldOK
<1>2. PICK k \in Calls :
        k = [NewCall EXCEPT !.op = op, !.step = "status", !.intent = saved]
  BY <1>1, NewCallOK DEF Calls, Steps
<1>3. call' = [call EXCEPT ![p] = k] BY <1>2 DEF FollowUp
<1>4. k.step = "status" /\ k.intent = saved /\ saved' = saved
  BY <1>1, <1>2 DEF NewCall, World
<1>5. CallOK(k)' BY <1>1, <1>4 DEF CallOK, Publishing, Uploading
<1> QED BY <1>1, <1>3, <1>5, NothingMoves, CallerStep

LEMMA RevokeStep ==
  ASSUME PubInv, NEW p \in Publishers, Revoke(p)
  PROVE  PubInv'
<1>1. call[p].step = "revoke" /\ call[p].op = "revoke" BY CallOf DEF Revoke, CallOK
<1>2. PICK i \in Intents : i = call[p].intent /\ i = saved
  BY <1>1, FollowsSaved DEF Following, Steps, Ended
<1>3. CASE /\ admission[i] \in {"active", "revoked"}
           /\ admission' = [admission EXCEPT ![i] = "revoked"]
           /\ call' = [call EXCEPT ![p].step = "done", ![p].status = "revoked"]
  <2>1. WorldOK' /\ HeldOK' /\ Onward /\ saved' = saved
    BY <1>3, RevokeMoves DEF Revoke
  <2>2. PICK k \in Calls : k = [call[p] EXCEPT !.step = "done", !.status = "revoked"]
    BY CallOf DEF Calls, Steps, Ended, AdmissionStates
  <2>3. call' = [call EXCEPT ![p] = k] BY <1>3, <2>2, CallOf
  <2>4. k.step = "done" /\ k.intent = saved /\ k.status = "revoked" /\ k.op = "revoke"
    BY <1>1, <1>2, <2>2, CallOf DEF Calls
  <2>5. admission'[saved] = "revoked" BY <1>2, <1>3, CallOf DEF WorldOK
  <2>6. CallOK(k)' BY <1>2, <2>1, <2>4, <2>5, NoneAssumption DEF CallOK, Publishing, Uploading
  <2> QED BY <2>1, <2>3, <2>6, CallerStep
<1>4. CASE UNCHANGED admission /\ Fails(p)
  <2>1. UNCHANGED World BY <1>4 DEF Revoke, World, owner
  <2> QED BY <1>4, <2>1, NothingMoves, FailsStep
<1> QED BY <1>2, <1>3, <1>4 DEF Revoke

LEMMA StopStep ==
  ASSUME PubInv, NEW p \in Publishers, Stop(p)
  PROVE  PubInv'
<1>1. UNCHANGED World BY DEF Stop, World, owner, service
<1> QED BY <1>1, NothingMoves, FailsStep DEF Stop

\* The service has moved; the call learns nothing of it.
LEMMA LoseStep ==
  ASSUME PubInv, NEW p \in Publishers, Lose(p)
  PROVE  PubInv'
<1>1. call[p].step \in {"accept", "negotiate", "stream", "revoke"} BY DEF Lose
<1>2. PICK i \in Intents : i = call[p].intent /\ i = saved
  BY <1>1, FollowsSaved DEF Following, Steps, Ended
<1>3. Fails(p) /\ UNCHANGED <<owner, saved, policy>> BY DEF Lose
<1>4. CASE accepted' = accepted \cup {policy} /\ UNCHANGED <<known, admission>>
  <2>1. WorldOK' /\ HeldOK' /\ Onward BY <1>3, <1>4, AcceptMoves
  <2> QED BY <1>3, <2>1, FailsStep
<1>5. CASE /\ i.policy = policy /\ policy \in accepted /\ admission' = Observed(i)
           /\ UNCHANGED <<accepted, known>>
  <2>1. WorldOK' /\ HeldOK' /\ Onward BY <1>2, <1>3, <1>5, ObserveMoves
  <2> QED BY <1>3, <2>1, FailsStep
<1>6. CASE call[p].step = "stream" /\ Transfers(p) /\ Holds(p) /\ UNCHANGED accepted
  <2>1. admission[i] # "absent" BY <1>2, <1>6, CallOf DEF CallOK, Uploading
  <2>2. WorldOK' /\ HeldOK' /\ Onward BY <1>2, <1>3, <1>6, <2>1, StreamMoves
  <2> QED BY <1>3, <2>2, FailsStep
<1>7. CASE /\ admission[i] = "active" /\ admission' = [admission EXCEPT ![i] = "revoked"]
           /\ UNCHANGED <<accepted, known>>
  <2>1. WorldOK' /\ HeldOK' /\ Onward BY <1>3, <1>7, RevokeMoves
  <2> QED BY <1>3, <2>1, FailsStep
<1> QED BY <1>2, <1>4, <1>5, <1>6, <1>7 DEF Lose

-----------------------------------------------------------------------------
(* The steps of the owner and of the service.                               *)

\* No call moves: what the world does is onward for all of them.
LEMMA OthersStep ==
  ASSUME PubInv, WorldOK', HeldOK', Onward, UNCHANGED call
  PROVE  PubInv'
<1>1. ASSUME NEW p \in Publishers PROVE CallOK(call[p])'
  <2>1. PICK k \in Calls : k = call[p] /\ k = call'[p] /\ CallOK(k) BY CallOf
  <2>2. CallOK(k)' BY <2>1, CallStays, CallOf
  <2> QED BY <2>1, <2>2
<1> QED BY <1>1 DEF PubInv, CallsOK

LEMMA EditStep ==
  ASSUME PubInv, NEW d \in Drafts, NEW content \in Contents, Edit(d, content)
  PROVE  PubInv'
<1>1. edits' \in 0..MaxEdits BY BoundsAssumption DEF Edit, PubInv, WorldOK
<1>2. WorldOK' BY <1>1 DEF Edit, service, PubInv, WorldOK
<1>3. HeldOK' /\ Onward BY DEF Edit, service, PubInv, HeldOK, Onward
<1> QED BY <1>2, <1>3, OthersStep DEF Edit

LEMMA RotateStep ==
  ASSUME PubInv, Rotate
  PROVE  PubInv'
<1>1. policy' \in Policies BY BoundsAssumption DEF Rotate, PubInv, WorldOK, Policies
<1>2. WorldOK' BY <1>1 DEF Rotate, owner, PubInv, WorldOK
<1>3. HeldOK' /\ Onward BY DEF Rotate, PubInv, HeldOK, Onward
<1> QED BY <1>2, <1>3, OthersStep DEF Rotate

LEMMA DecideStep ==
  ASSUME PubInv, NEW i \in Intents, Decide(i) \/ Retire(i)
  PROVE  PubInv'
<1>1. /\ admission[i] \in {"pending", "active"}
      /\ UNCHANGED <<draft, source, edits, saved, policy, accepted, known, call>>
  BY DEF Decide, Retire, owner
<1>2. PICK s \in {"active", "quarantined", "rejected", "retired"} :
        /\ admission' = [admission EXCEPT ![i] = s]
        /\ admission[i] = "active" => s = "retired"
  BY DEF Decide, Retire
<1>3. s \in AdmissionStates BY DEF AdmissionStates
<1>4. i.content \in known' BY <1>1, CallOf DEF HeldOK, PubInv
<1>5. admission[i] \in Past => s \in Past BY <1>1, <1>2 DEF Past
<1>6. WorldOK' /\ HeldOK' /\ Onward BY <1>1, <1>2, <1>3, <1>4, <1>5, AdmissionMoves
<1> QED BY <1>1, <1>6, OthersStep

LEMMA NextPubInv == PubInv /\ [Next]_vars => PubInv'
<1> SUFFICES ASSUME PubInv, [Next]_vars PROVE PubInv' OBVIOUS
<1>1. ASSUME NEW p \in Publishers,
             \/ Publish(p) \/ FollowUp(p, "status") \/ FollowUp(p, "revoke") \/ Prepare(p)
             \/ ReadFirst(p) \/ Sign(p) \/ Create(p) \/ Hash(p) \/ Stop(p) \/ Lose(p)
      PROVE PubInv'
  BY <1>1, PublishStep, FollowUpStep, PrepareStep, ReadFirstStep, SignStep, CreateStep,
     HashStep, StopStep, LoseStep
<1>2. ASSUME NEW p \in Publishers, Request(p) PROVE PubInv'
  BY <1>2, AcceptStep, AuthorizeStep, StreamStep, StatusStep, RevokeStep, NegotiateStep,
     RenegotiateStep DEF Request
<1>3. CASE \E d \in Drafts, content \in Contents : Edit(d, content) BY <1>3, EditStep
<1>4. CASE Rotate BY <1>4, RotateStep
<1>5. CASE \E i \in Intents : Decide(i) \/ Retire(i) BY <1>5, DecideStep
<1>6. CASE UNCHANGED vars
  <2>1. UNCHANGED World /\ UNCHANGED call BY <1>6 DEF vars, World
  <2> QED BY <2>1, NothingMoves, OthersStep
<1> QED BY <1>1, <1>2, <1>3, <1>4, <1>5, <1>6 DEF Next

LEMMA AlwaysPubInv == Spec => []PubInv
BY InitPubInv, NextPubInv, PTL DEF Spec

-----------------------------------------------------------------------------
(* The theorems.                                                            *)

\* The files, the service and the calls keep their types, for every number
\* of publishers and every bound.  (publication.py)
THEOREM PublicationTypes == Spec => []TypeOK
<1>1. PubInv => TypeOK
  BY DEF PubInv, WorldOK, CallsOK, Calls, TypeOK
<1> QED BY <1>1, AlwaysPubInv, PTL

\* What a call reports is what the service holds or held before it moved on,
\* however many publishers retry, lose answers and revoke.  (publication.py:
\* publish_draft, publication_status, revoke_publication.)
THEOREM ReportIsAlwaysTrue == Spec => []ReportIsTrue
<1>1. PubInv => ReportIsTrue
  <2> SUFFICES ASSUME PubInv, NEW p \in Publishers, call[p].step = "done"
               PROVE  /\ call[p].intent = saved
                      /\ call[p].status = "active" =>
                           /\ call[p].op = "publish" => call[p].plan = "accepted"
                           /\ call[p].intent.content \in known
                           /\ admission[call[p].intent] \in {"active", "retired", "revoked"}
                      /\ call[p].op = "revoke" => admission[call[p].intent] = "revoked"
    BY DEF ReportIsTrue
  <2>1. call[p].intent = saved /\ saved \in Intents
    BY FollowsSaved DEF Following, Steps, Ended
  <2>2. CallOK(call[p]) /\ HeldOK BY CallOf
  <2>3. call[p].status = "active" => admission[call[p].intent] \in Past BY <2>2 DEF CallOK
  <2>4. call[p].status = "active" => call[p].intent.content \in known
    BY <2>1, <2>2, <2>3 DEF HeldOK, Past
  <2> QED BY <2>1, <2>2, <2>3, <2>4 DEF CallOK, Past
<1> QED BY <1>1, AlwaysPubInv, PTL

\* The service holds nothing but what was prepared under a policy that was
\* accepted, whatever is edited and rotated meanwhile.  (publication.py:
\* _new_state, _state.)
THEOREM OnlyPreparedIsAlwaysHeld == Spec => []OnlyPreparedIsHeld
<1>1. PubInv => OnlyPreparedIsHeld
  <2> SUFFICES ASSUME PubInv PROVE OnlyPreparedIsHeld OBVIOUS
  <2>1. known \subseteq (IF saved = None THEN {} ELSE {saved.content})
    BY DEF PubInv, HeldOK
  <2> QED BY <2>1 DEF PubInv, HeldOK, OnlyPreparedIsHeld
<1> QED BY <1>1, AlwaysPubInv, PTL
================================================================================
