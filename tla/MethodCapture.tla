--------------------------- MODULE MethodCapture ---------------------------
(***************************************************************************)
(* The method store: method_capture.register_method and sync_methods, with *)
(* publication.publish_draft as the step that talks to the service.        *)
(*                                                                         *)
(* A registration holds .register.lock and writes up to three files of a   *)
(* method's folder, each create-then-fill: a crash between the two leaves  *)
(* a torn file.  Under standing consent it spawns a detached worker.  A    *)
(* worker takes .sync.lock or exits at once, lists the folders and         *)
(* publishes at most Limit of those that are not settled.  Each lock has   *)
(* one holder, whose local state is reg or sync; whoever waits for         *)
(* .register.lock has done nothing yet.  The files are shared.             *)
(***************************************************************************)
EXTENDS Naturals, FiniteSets

CONSTANTS
  NumMethods,   \* methods 1..NumMethods, in the order of their digests
  NumPolicies,  \* publication policies, in the order they are advertised
  Limit,        \* sync_methods(limit): methods one batch may process
  MaxRecords,   \* _MAX_RECORDS: folders the store may hold
  MaxWaiting,   \* bound: spawned workers of one policy yet to try the lock
  MaxCrashes,   \* bound: registrations or workers killed
  MayUpgrade    \* bound: whether the client may be upgraded meanwhile

ASSUME NumMethodsAssumption == NumMethods \in Nat
ASSUME NumPoliciesAssumption == NumPolicies \in Nat \ {0}
ASSUME LimitAssumption ==
  {Limit, MaxRecords, MaxWaiting, MaxCrashes} \subseteq Nat /\ MayUpgrade \in BOOLEAN

Methods  == 1..NumMethods
Policies == 1..NumPolicies
NoPolicy == 0  \* public_policy_digest=None: the method stays local

VARIABLES
  folders,    \* methods that have a folder
  record,     \* record[m][f]: file f of m's folder
  status,     \* status[m]: submission-status.json, or "none"
  prepared,   \* prepared[m]: publication.json.state.json, or NoState
  reg,        \* the registration that holds .register.lock
  sync,       \* the worker that holds .sync.lock
  waiting,    \* waiting[p]: spawned workers with policy p
  upgraded,   \* methods whose publication draft an earlier release wrote
  replaced,   \* readers whose status file was replaced after their lstat
  advertised, \* service: the policy its discovery advertises
  admission,  \* service: what it made of m's submission
  seen,       \* service: the intents it ever received for m
  consented,  \* history: methods registered under a policy
  crashes

store   == <<folders, record, consented>>
service == <<advertised, admission, seen>>
host    == <<waiting, upgraded, crashes>>
vars == <<store, status, prepared, reg, sync, replaced, service, host>>

Names    == 1..3  \* capture.json, method.json, publication.json
Contents == {"absent", "torn", "whole"}
Terminal == {"active", "rejected"}
Admissions == {"unknown", "incomplete", "pending", "withdrawn"} \cup Terminal
Statuses == {"none", "retryable", "policy-attention", "submitted"} \cup Terminal

NoState  == [policy |-> NoPolicy, nonce |-> 0]
States   == [policy : Policies, nonce : Nat] \cup {NoState}
Intents  == [policy : Policies, nonce : Nat, reviewed : Policies]

Free     == {"idle", "returned", "raised"}  \* .register.lock is free
IdleReg  == [pc |-> "idle", m |-> 0, consent |-> NoPolicy, at |-> 1]
IdleSync == [pc |-> "idle", reviewed |-> NoPolicy, todo |-> {}, m |-> 0,
             processed |-> 0, result |-> "none"]

Registrations ==
  [pc : {"record", "write", "schedule", "scheduleRead", "spawn", "unavailable",
         "reply", "replyRead"} \cup Free,
   m : Methods \cup {0}, consent : Policies \cup {NoPolicy}, at : 1..4]
Workers ==
  [pc : {"idle", "next", "read", "publish", "prepare", "accept", "negotiate",
         "upload", "poll", "report"},
   reviewed : Policies \cup {NoPolicy}, todo : SUBSET Methods,
   m : Methods \cup {0}, processed : Nat, result : Statuses]

Published(m) == record[m][3] # "absent"  \* publication.json exists
Whole(m)     == record[m][1] = "whole" /\ record[m][2] = "whole"

Init ==
  /\ folders = {}
  /\ record = [m \in Methods |-> [f \in Names |-> "absent"]]
  /\ status = [m \in Methods |-> "none"]
  /\ prepared = [m \in Methods |-> NoState]
  /\ reg = IdleReg
  /\ sync = IdleSync
  /\ waiting = [p \in Policies |-> 0]
  /\ upgraded = {}
  /\ replaced = {}
  /\ advertised = 1
  /\ admission = [m \in Methods |-> "unknown"]
  /\ seen = [m \in Methods |-> {}]
  /\ consented = {}
  /\ crashes = 0

\* A mutated form: a settled method is processed again.
NeverSettled(m) == FALSE

\* A mutated form: a submission that waits for admission counts as settled.
SettledOrSubmitted(m) == status[m] \in Terminal \cup {"submitted"}

Settled(m) == status[m] \in Terminal

\* _write_status: an atomic replacement.  A reader between its lstat and its
\* open finds another inode and raises.
WriteStatus(m, s) ==
  /\ status' = [status EXCEPT ![m] = s]
  /\ replaced' = replaced
       \cup (IF reg.pc \in {"scheduleRead", "replyRead"} /\ reg.m = m
             THEN {"register"} ELSE {})
       \cup (IF sync.pc = "read" /\ sync.m = m THEN {"sync"} ELSE {})

\* subprocess.Popen of a worker for policy p.
Spawn(p) == /\ waiting[p] < MaxWaiting
            /\ waiting' = [waiting EXCEPT ![p] = @ + 1]

-----------------------------------------------------------------------------
(* Registration, under .register.lock.                                      *)

\* The lock is taken and the folder made, unless the store is full.
Begin(m, c) ==
  /\ reg.pc \in Free
  /\ m \in folders \/ Cardinality(folders) < MaxRecords
  /\ folders' = folders \cup {m}
  /\ reg' = [pc |-> "record", m |-> m, consent |-> c, at |-> 1]
  /\ consented' = IF c = NoPolicy THEN consented ELSE consented \cup {m}
  /\ UNCHANGED <<record, status, prepared, sync, replaced, service, host>>

\* register_method raises and releases the lock.
Raise == reg' = [reg EXCEPT !.pc = "raised"]

\* A mutated form: a draft is prepared whether or not the owner consented.
EveryName == 3

\* Only consent adds publication.json to the files of a record.
LastName == IF reg.consent = NoPolicy THEN 2 ELSE 3

\* A mutated form: an existing file is taken as it is, not compared.
MatchesIfThere(m, f) == record[m][f] # "absent"

\* The draft names the release that wrote it (_publication: buildContext), so
\* an upgraded client finds another one than it would write.
Matches(m, f) == record[m][f] = "whole" /\ (f = 3 => m \notin upgraded)

SetFile(content) ==
  record' = [record EXCEPT ![reg.m] = [@ EXCEPT ![reg.at] = content]]

\* The head of the file loop: what exists must equal the record, what is
\* absent is created empty.
OpenRecord ==
  /\ reg.pc = "record"
  /\ \/ /\ reg.at > LastName
        /\ reg' = [reg EXCEPT !.pc = IF reg.consent = NoPolicy THEN "reply" ELSE "schedule"]
        /\ UNCHANGED record
     \/ /\ reg.at <= LastName
        /\ IF Matches(reg.m, reg.at) THEN reg' = [reg EXCEPT !.at = @ + 1]
           ELSE record[reg.m][reg.at] # "absent" /\ Raise
        /\ UNCHANGED record
     \/ /\ reg.at <= LastName
        /\ record[reg.m][reg.at] = "absent"
        /\ SetFile("torn")
        /\ reg' = [reg EXCEPT !.pc = "write"]
  /\ UNCHANGED <<folders, consented, status, prepared, sync, replaced, service, host>>

\* The bytes are written and synced, or the new file is unlinked again and
\* the error escapes.
WriteRecord ==
  /\ reg.pc = "write"
  /\ \/ /\ SetFile("whole")
        /\ reg' = [reg EXCEPT !.pc = "record", !.at = @ + 1]
     \/ SetFile("absent") /\ Raise
  /\ UNCHANGED <<folders, consented, status, prepared, sync, replaced, service, host>>

\* _status before scheduling and before replying: exists and lstat.
StatStatus ==
  /\ reg.pc \in {"schedule", "reply"}
  /\ IF status[reg.m] = "none"
     THEN reg' = [reg EXCEPT !.pc = IF @ = "reply" THEN "returned" ELSE "spawn"]
     ELSE reg' = [reg EXCEPT !.pc = IF @ = "reply" THEN "replyRead"
                                                   ELSE "scheduleRead"]
  /\ UNCHANGED <<store, status, prepared, sync, replaced, service, host>>

\* ... and the read, which raises when the file was replaced meanwhile.
ReadStatus ==
  /\ reg.pc \in {"scheduleRead", "replyRead"}
  /\ reg' = [reg EXCEPT !.pc =
       IF "register" \in replaced THEN "raised"
       ELSE IF @ = "replyRead" THEN "returned"
       ELSE IF Settled(reg.m) THEN "reply" ELSE "spawn"]
  /\ replaced' = replaced \ {"register"}
  /\ UNCHANGED <<store, status, prepared, sync, service, host>>

\* schedule_submission spawns a worker, or fails and that is recorded: two
\* steps, between which a running worker may settle the method.
Schedule ==
  /\ reg.pc = "spawn"
  /\ \/ Spawn(reg.consent) /\ reg' = [reg EXCEPT !.pc = "reply"]
     \/ UNCHANGED waiting /\ reg' = [reg EXCEPT !.pc = "unavailable"]
  /\ UNCHANGED <<store, status, prepared, sync, replaced, service, upgraded, crashes>>

WorkerUnavailable ==
  /\ reg.pc = "unavailable"
  /\ \/ WriteStatus(reg.m, "retryable") /\ reg' = [reg EXCEPT !.pc = "reply"]
     \/ Raise /\ UNCHANGED <<status, replaced>>
  /\ UNCHANGED <<store, prepared, sync, service, host>>

-----------------------------------------------------------------------------
(* The submission worker, under .sync.lock.                                 *)

\* The owner's --sync command, or an MCP server that starts.
Retry(p) ==
  /\ Spawn(p)
  /\ UNCHANGED <<store, status, prepared, reg, sync, replaced, service, upgraded, crashes>>

\* A worker tries the lock: it lists the folders, or exits because another
\* one holds it.
StartWorker(p) ==
  /\ waiting[p] > 0
  /\ waiting' = [waiting EXCEPT ![p] = @ - 1]
  /\ IF sync.pc = "idle"
     THEN sync' = [pc |-> "next", reviewed |-> p, todo |-> folders, m |-> 0,
                   processed |-> 0, result |-> "none"]
     ELSE UNCHANGED sync
  /\ UNCHANGED <<store, status, prepared, reg, replaced, service, upgraded, crashes>>

Skip(m) == sync' = [sync EXCEPT !.pc = "next", !.todo = @ \ {m}, !.m = 0]
Take(m) == sync' = [sync EXCEPT !.pc = "publish", !.todo = @ \ {m}, !.m = m,
                                !.processed = @ + 1]

\* The folder loop: the batch ends, or the next folder in order is looked at.
NextFolder ==
  /\ sync.pc = "next"
  /\ IF sync.todo = {} \/ sync.processed >= Limit
     THEN sync' = IdleSync
     ELSE \E m \in sync.todo :
            /\ \A n \in sync.todo : m <= n
            /\ \/ ~Published(m) /\ Skip(m)
               \/ Published(m) /\ status[m] = "none" /\ Take(m)
               \/ /\ Published(m) /\ status[m] # "none"
                  /\ sync' = [sync EXCEPT !.pc = "read", !.m = m]
  /\ UNCHANGED <<store, status, prepared, reg, replaced, service, host>>

\* The status of the folder is read; a replaced file ends the whole batch.
ReadFolderStatus ==
  /\ sync.pc = "read"
  /\ IF "sync" \in replaced THEN sync' = IdleSync
     ELSE IF Settled(sync.m) THEN Skip(sync.m) ELSE Take(sync.m)
  /\ replaced' = replaced \ {"sync"}
  /\ UNCHANGED <<store, status, prepared, reg, service, host>>

\* publish_draft ends with result r, which the except clause or the last
\* lines of the try turn into a status.
Outcome(r) == sync' = [sync EXCEPT !.pc = "report", !.result = r]

\* A transport or service failure, an expired session, a state file that
\* cannot be written: anything whose message does not say "policy".
Unavailable ==
  /\ sync.pc \in {"publish", "prepare", "accept", "negotiate", "upload", "poll"}
  /\ Outcome("retryable")
  /\ UNCHANGED <<store, status, prepared, reg, replaced, service, host>>

\* The draft is read and discovery fetched: the advertised policy must be
\* the one this worker's owner reviewed.
Inspect ==
  /\ sync.pc = "publish"
  /\ IF record[sync.m][3] # "whole" THEN Outcome("retryable")
     ELSE IF advertised # sync.reviewed THEN Outcome("policy-attention")
     ELSE sync' = [sync EXCEPT !.pc = "prepare"]
  /\ UNCHANGED <<store, status, prepared, reg, replaced, service, host>>

NewState == [policy |-> sync.reviewed, nonce |-> prepared[sync.m].nonce + 1]

\* A mutated form: a state bound to another policy is prepared again.
NotPreparedNow(m) == prepared[m].policy # sync.reviewed

NotPrepared(m) == prepared[m] = NoState

\* A mutated form: the policy of the saved state is not compared.
PreparedAtAll(m) == prepared[m] # NoState

PreparedHere(m) == prepared[m].policy = sync.reviewed

\* The saved state is resumed if it is this policy's, else the attempt
\* fails; without one a fresh intent is signed and published atomically.
Prepare ==
  /\ sync.pc = "prepare"
  /\ IF NotPrepared(sync.m)
     THEN /\ prepared' = [prepared EXCEPT ![sync.m] = NewState]
          /\ sync' = [sync EXCEPT !.pc = "accept"]
     ELSE /\ IF PreparedHere(sync.m) THEN sync' = [sync EXCEPT !.pc = "accept"]
             ELSE Outcome("retryable")
          /\ UNCHANGED prepared
  /\ UNCHANGED <<store, status, reg, replaced, service, host>>

\* accept_publication_policy and negotiate_submission each inspect again and
\* see the cached discovery or the current one.
Accept ==
  /\ sync.pc = "accept"
  /\ \E p \in {sync.reviewed, advertised} :
       IF p = sync.reviewed THEN sync' = [sync EXCEPT !.pc = "negotiate"]
       ELSE Outcome("policy-attention")
  /\ UNCHANGED <<store, status, prepared, reg, replaced, service, host>>

\* The signed intent reaches the service, which answers with a plan; the
\* answer may be lost (Sent, then a failure).
Sent(m) ==
  /\ seen' = [seen EXCEPT ![m] = @ \cup
       {[policy |-> prepared[m].policy, nonce |-> prepared[m].nonce,
         reviewed |-> sync.reviewed]}]
  /\ admission' = [admission EXCEPT ![m] = IF @ = "unknown" THEN "incomplete" ELSE @]
  /\ UNCHANGED advertised

Negotiate ==
  /\ sync.pc = "negotiate"
  /\ \/ /\ Sent(sync.m)
        /\ \/ sync' = [sync EXCEPT !.pc = IF admission'[sync.m] = "incomplete"
                                          THEN "upload" ELSE "poll"]
           \/ Outcome("retryable")
     \/ advertised # sync.reviewed /\ Outcome("retryable") /\ UNCHANGED service
  /\ UNCHANGED <<store, status, prepared, reg, replaced, host>>

\* The missing object is authorized and uploaded; its answer may be lost.
Upload ==
  /\ sync.pc = "upload"
  /\ admission' = [admission EXCEPT ![sync.m] = IF @ = "incomplete" THEN "pending"
                                                ELSE @]
  /\ sync' = [sync EXCEPT !.pc = "poll"] \/ Outcome("retryable")
  /\ UNCHANGED <<store, status, prepared, reg, replaced, advertised, seen, host>>

\* A mutated form: whatever the service has accepted counts as active.
AcceptedIsActive(m) == IF admission[m] = "rejected" THEN "rejected" ELSE "active"

StateOf(m) == IF admission[m] \in Terminal THEN admission[m] ELSE "submitted"

\* submission_status: the admission state becomes the outcome.  What is
\* withdrawn by then is reported like what is pending, or, right after an
\* upload, as a failure (Unavailable).
Poll ==
  /\ sync.pc = "poll"
  /\ Outcome(StateOf(sync.m))
  /\ UNCHANGED <<store, status, prepared, reg, replaced, service, host>>

\* The status is written.  A write that fails is, for what publish_draft
\* returned, one more failure of the attempt, to be written as such; a
\* failure that cannot be written ends the batch.
Report ==
  /\ sync.pc = "report"
  /\ \/ /\ WriteStatus(sync.m, sync.result)
        /\ sync' = [sync EXCEPT !.pc = "next", !.m = 0, !.result = "none"]
     \/ /\ IF sync.result \in Terminal \cup {"submitted"}
          THEN Outcome("retryable") ELSE sync' = IdleSync
        /\ UNCHANGED <<status, replaced>>
  /\ UNCHANGED <<store, prepared, reg, service, host>>

-----------------------------------------------------------------------------
(* The service, and the host.                                               *)

Decide(m) ==
  /\ admission[m] = "pending"
  /\ \E d \in Terminal : admission' = [admission EXCEPT ![m] = d]
  /\ UNCHANGED <<store, status, prepared, reg, sync, replaced, advertised, seen, host>>

\* An active release is revoked by its owner (service-publication-revoke) or
\* retired by the service.
Withdraw(m) ==
  /\ admission[m] = "active"
  /\ admission' = [admission EXCEPT ![m] = "withdrawn"]
  /\ UNCHANGED <<store, status, prepared, reg, sync, replaced, advertised, seen, host>>

Advertise ==
  /\ advertised < NumPolicies
  /\ advertised' = advertised + 1
  /\ UNCHANGED <<store, status, prepared, reg, sync, replaced, admission, seen, host>>

\* Another release of the client is installed; later registrations run it.
Upgrade ==
  /\ MayUpgrade
  /\ reg.pc \in Free
  /\ upgraded' = {m \in Methods : record[m][3] = "whole"}
  /\ UNCHANGED <<store, status, prepared, reg, sync, replaced, service, waiting, crashes>>

\* A killed process loses its lock and its local state; its files stay.
Crash ==
  /\ crashes < MaxCrashes
  /\ crashes' = crashes + 1
  /\ \/ /\ reg.pc \notin Free
        /\ reg' = IdleReg
        /\ replaced' = replaced \ {"register"}
        /\ UNCHANGED sync
     \/ /\ sync.pc # "idle"
        /\ sync' = IdleSync
        /\ replaced' = replaced \ {"sync"}
        /\ UNCHANGED reg
  /\ UNCHANGED <<store, status, prepared, waiting, upgraded, service>>

Registration ==
  \/ \E m \in Methods, c \in Policies \cup {NoPolicy} : Begin(m, c)
  \/ OpenRecord \/ WriteRecord \/ StatStatus \/ ReadStatus \/ Schedule
  \/ WorkerUnavailable
Worker ==
  \/ \E p \in Policies : StartWorker(p)
  \/ NextFolder \/ ReadFolderStatus \/ Unavailable \/ Inspect \/ Prepare
  \/ Accept \/ Negotiate \/ Upload \/ Poll \/ Report
Environment ==
  \/ \E p \in Policies : Retry(p)
  \/ \E m \in Methods : Decide(m) \/ Withdraw(m)
  \/ Advertise \/ Upgrade \/ Crash

Next == Registration \/ Worker \/ Environment
Spec == Init /\ [][Next]_vars

-----------------------------------------------------------------------------
(* Fairness: a worker runs to its end, the owner keeps retrying under the   *)
(* policy that is advertised, and outages end: from some time on no attempt *)
(* fails that the host and the service could let succeed, files can be      *)
(* written, workers can be spawned, and those that run have the advertised  *)
(* policy reviewed.                                                         *)

MustFail ==
  \/ sync.pc = "publish" /\ record[sync.m][3] # "whole"
  \/ sync.pc = "prepare" /\ ~NotPrepared(sync.m) /\ ~PreparedHere(sync.m)
  \/ sync.pc = "negotiate" /\ advertised # sync.reviewed
Failure ==
  \/ sync.pc # "report" /\ sync'.pc = "report" /\ sync'.result = "retryable" /\ ~MustFail
  \/ sync.pc = "report" /\ sync'.pc # "next"
  \/ reg.pc = "write" /\ reg'.pc = "raised"
  \/ reg'.pc = "unavailable"
  \/ sync.pc = "idle" /\ sync'.reviewed \in Policies \ {advertised}

Fairness ==
  /\ WF_vars(NextFolder \/ ReadFolderStatus \/ Inspect \/ Prepare \/ Accept
               \/ Negotiate \/ Upload \/ Poll \/ Report)
  /\ WF_vars(\E p \in Policies : StartWorker(p))
  /\ WF_vars(Retry(advertised))
  /\ <>[][~Failure]_vars
FairSpec     == Spec /\ Fairness
SettlingSpec == FairSpec /\ \A m \in Methods : WF_vars(Decide(m))

-----------------------------------------------------------------------------
(* Properties.                                                              *)

\* The variables keep to the values the code gives them.
TypeOK ==
  /\ folders \subseteq Methods
  /\ record \in [Methods -> [Names -> Contents]]
  /\ status \in [Methods -> Statuses]
  /\ prepared \in [Methods -> States]
  /\ reg \in Registrations
  /\ reg.pc # "idle" => reg.m \in Methods
  /\ sync \in Workers
  /\ sync.pc # "idle" => sync.reviewed \in Policies
  /\ sync.pc \notin {"idle", "next"} => sync.m \in Methods
  /\ waiting \in [Policies -> Nat]
  /\ upgraded \subseteq Methods
  /\ replaced \subseteq {"register", "sync"}
  /\ advertised \in Policies
  /\ admission \in [Methods -> Admissions]
  /\ seen \in [Methods -> SUBSET Intents]
  /\ consented \subseteq Methods
  /\ crashes \in Nat

\* "A retry reuses that intent and request identity": whatever crashes, lost
\* answers, retries and policy changes happen, the service never receives
\* two different intents for one method, so one capture can never become two
\* releases (publish_draft, _state).
OneIntent == \A m \in Methods : \A i, j \in seen[m] : i = j

\* An intent reaches the service only from a worker whose owner reviewed the
\* very policy the intent binds, a saved state included (_state, line 334).
OnlyReviewedPolicy == \A m \in Methods : \A i \in seen[m] : i.policy = i.reviewed

\* A method leaves the host only if a registration of it carried standing
\* consent, and only once its local record is whole (_register_locked).
OnlyConsentedLeaves ==
  \A m \in Methods : seen[m] # {} => m \in consented /\ Whole(m)

\* The method whose registration returned, and every method with a publication
\* draft, has its capture and method files complete, whatever was killed before
\* (_register_locked: the order of the files, the comparison with what is
\* there).
RecordBeforeReply ==
  /\ reg.pc = "returned" => Whole(reg.m)
  /\ \A m \in Methods : Published(m) => Whole(m)

\* The service decided s on m, whatever has become of the release since.
Decided(m, s) == admission[m] = s \/ (s = "active" /\ admission[m] = "withdrawn")

\* What the local status says was decided is what the service decided, also
\* while the two are written by different processes and outcomes are lost.
\* It is the decision, not what stands now: a settled method is not asked
\* about again (sync_methods, line 321), so "active" outlives a withdrawal.
StatusIsTrue ==
  \A m \in Methods :
    /\ status[m] \in Terminal => Decided(m, status[m])
    /\ status[m] = "submitted" => seen[m] # {}

\* Nothing but a registration that could not start its worker takes a method
\* out of a settled status (sync_methods, line 320).
SettledStays ==
  [][\A m \in Methods : status[m] \in Terminal =>
       status'[m] = status[m] \/ (reg.pc = "unavailable" /\ reg.m = m)]_vars

\* A queued method is offered to the service in the end, for as long as its
\* owner retries: "Retry pending or failed submissions" (sync_methods).
QueuedIsOffered == \A m \in Methods : record[m][3] = "whole" ~> seen[m] # {}

\* A method no retry can settle: its intent is bound to a policy that has
\* been replaced, which takes a new review by the owner; its release was
\* withdrawn before its status said "active"; or its draft is torn.
Stuck(m) ==
  /\ status[m] \notin Terminal
  /\ \/ prepared[m] # NoState /\ prepared[m].policy # advertised
     \/ admission[m] = "withdrawn"
     \/ record[m][3] = "torn"

\* Stuck methods that come first take every place of the batch.
Crowded(m) == Cardinality({n \in 1..(m - 1) : Stuck(n)}) >= Limit

\* Once the service decides what it receives, the local status of a queued
\* method becomes a decision, through kills, lost answers, ended batches and
\* retries, unless it or a batch full of methods before it is stuck for good:
\* those that only wait give their place up in the end (sync_methods, _state).
QueuedIsSettled ==
  \A m \in Methods :
    \/ <>[](Stuck(m) \/ Crowded(m))
    \/ record[m][3] = "whole" ~> status[m] \in Terminal

\* What the owner and the service can see of the store is a run of the ledger:
\* consent before anything leaves, one intent under the reviewed policy, one
\* decision, and a status that follows it (register_method, sync_methods,
\* publish_draft together).
Ledger == INSTANCE MethodLedger WITH
  offered  <- [m \in Methods |-> {[policy |-> i.policy, reviewed |-> i.reviewed] : i \in seen[m]}],
  decision <- [m \in Methods |-> IF admission[m] \in Terminal \cup {"withdrawn"}
                                THEN admission[m] ELSE "open"],
  shown    <- status

ImplementsLedger == Ledger!Spec

=============================================================================
