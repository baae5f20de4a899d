------------------------ MODULE InstallationIdentity ------------------------
(***************************************************************************)
(* The anonymous installation: service_identity.ensure_installation_session*)
(* and installation_publisher_authority, run by several processes of one   *)
(* user over one state file.                                               *)
(*                                                                         *)
(* A process samples the time, inspects the service, waits for the file's  *)
(* lock and then, in one critical section, creates a key if the file has   *)
(* none, registers it, and reuses or opens a session, replacing the file   *)
(* (atomically) after each.  It may be killed anywhere, which frees the    *)
(* lock; the service may refuse, or act and lose the answer.               *)
(***************************************************************************)
EXTENDS Naturals

CONSTANTS
  Processes,
  Services,
  Terms,      \* accepted policy digest and capability list, as one value
  None,       \* no process, service, terms or key
  Keys,       \* keys InstallationSigner.generate may return
  Ttl,        \* lifetime the service gives a session
  Margin,     \* SESSION_REFRESH_MARGIN
  MaxTime     \* bound: the last instant of the clock

ASSUME TimesAssumption == {Ttl, Margin, MaxTime} \subseteq Nat

ASSUME NoneAssumption == None \notin Processes \cup Services \cup Terms \cup Keys

Times     == 0..MaxTime
NoSession == [terms |-> None, issued |-> 0, expires |-> 0]
Sessions  == [terms : Terms, issued : Times, expires : Nat]

NoFile == [service |-> None, key |-> None, attested |-> FALSE,
           session |-> NoSession]
States == [service : Services, key : Keys, attested : BOOLEAN,
           session : Sessions \cup {NoSession}]

VARIABLES
  clock,
  file,       \* the installation state file, or NoFile
  holder,     \* the process that holds the file's lock, or None
  call,       \* call[p]: the running call of process p
  registered, \* registered[s]: keys service s has registered
  opened      \* opened[s]: the sessions service s has opened, with their key

vars == <<clock, file, holder, call, registered, opened>>

\* Where a call can be.  The steps of InLock are inside the critical section.
InLock == {"read", "persist-key", "register", "persist-attestation",
           "token", "open", "persist-session", "authority"}
Failed == {"unavailable", "unverified"}
Ended  == {"idle", "connected", "publisher"} \cup Failed
Steps  == InLock \cup Ended \cup {"inspect", "lock"}

NoCall == [step |-> "idle", service |-> None, terms |-> None,
           op |-> "session", at |-> 0, state |-> NoFile]
Calls   == [step : Steps, service : Services, terms : Terms,
            op : {"session", "authority"}, at : Times, state : States \cup {NoFile}]
NoCalls == {[NoCall EXCEPT !.step = x] : x \in Failed \cup {"idle"}}

TypeOK ==
  /\ clock \in Times
  /\ file \in States \cup {NoFile}
  /\ holder \in Processes \cup {None}
  /\ call \in [Processes -> Calls \cup NoCalls]
  /\ registered \in [Services -> SUBSET Keys]
  /\ opened \in [Services -> SUBSET [key : Keys, session : Sessions]]

Init ==
  /\ clock = 0
  /\ file = NoFile
  /\ holder = None
  /\ call = [p \in Processes |-> NoCall]
  /\ registered = [s \in Services |-> {}]
  /\ opened = [s \in Services |-> {}]

-----------------------------------------------------------------------------
\* Moves of a call.  Every way out of the critical section frees the lock.

At(p, step) == call[p].step = step

Goto(p, step, state) ==
  /\ call' = [call EXCEPT ![p].step = step, ![p].state = state]
  /\ UNCHANGED holder

Fail(p, outcome) ==
  /\ call' = [call EXCEPT ![p] = [NoCall EXCEPT !.step = outcome]]
  /\ holder' = None

Return(p, outcome, state) ==
  /\ call' = [call EXCEPT ![p].step = outcome, ![p].state = state]
  /\ holder' = None

\* A call starts: the time is sampled before anything is waited for.
Begin(p, s, t) ==
  /\ call[p].step \in Ended
  /\ call' = [call EXCEPT ![p] =
       [step |-> "inspect", service |-> s, terms |-> t, op |-> "session",
        at |-> clock, state |-> NoFile]]
  /\ UNCHANGED <<clock, file, holder, registered, opened>>

\* installation_publisher_authority neither looks at the clock nor inspects.
BeginPublisher(p, s, t) ==
  /\ call[p].step \in Ended
  /\ call' = [call EXCEPT ![p] =
       [step |-> "lock", service |-> s, terms |-> t, op |-> "authority",
        at |-> 0, state |-> NoFile]]
  /\ UNCHANGED <<clock, file, holder, registered, opened>>

Inspect(p) ==
  /\ At(p, "inspect")
  /\ \/ Goto(p, "lock", NoFile)
     \/ /\ \E outcome \in Failed :
             call' = [call EXCEPT ![p] = [NoCall EXCEPT !.step = outcome]]
        /\ UNCHANGED holder
  /\ UNCHANGED <<clock, file, registered, opened>>

\* A mutated form: the lock is not looked at.
Unlocked == TRUE
Free     == holder = None

Acquire(p) ==
  /\ At(p, "lock")
  /\ Free
  /\ holder' = p
  /\ call' = [call EXCEPT ![p].step =
       IF call[p].op = "authority" THEN "authority" ELSE "read"]
  /\ UNCHANGED <<clock, file, registered, opened>>

-----------------------------------------------------------------------------
\* The critical section of ensure_installation_session.

\* A mutated form: registers again although attested.
AlwaysRegister(st) == "register"

\* Where the call goes with the file's state st in hand.
NextStep(st) == IF st.attested THEN "token" ELSE "register"

KeysInUse == UNION {registered[s] : s \in Services}
               \cup {call[q].state.key : q \in Processes}

PendingState(s, k) == [NoFile EXCEPT !.service = s, !.key = k]

\* No file: a fresh key.  A file of another service is refused.
ReadState(p) ==
  /\ At(p, "read")
  /\ \/ /\ file = NoFile
        /\ \E k \in Keys \ KeysInUse :
             Goto(p, "persist-key", PendingState(call[p].service, k))
     \/ /\ file # NoFile /\ file.service = call[p].service
        /\ Goto(p, NextStep(file), file)
     \/ /\ file # NoFile /\ file.service # call[p].service
        /\ Fail(p, "unverified")
  /\ UNCHANGED <<clock, file, registered, opened>>

\* _replace_state: an error is reported before the rename (nothing happened)
\* or after it (syncing the directory failed: the new state is there).
Replace(p, next) ==
  \/ file' = call[p].state /\ Goto(p, next, call[p].state)
  \/ file' \in {file, call[p].state} /\ Fail(p, "unverified")

\* A mutated form: the key is only written with its attestation.
PersistKeyLater(p) ==
  /\ At(p, "persist-key")
  /\ Goto(p, "register", call[p].state)
  /\ UNCHANGED <<clock, file, registered, opened>>

PersistKey(p) ==
  /\ At(p, "persist-key")
  /\ Replace(p, "register")
  /\ UNCHANGED <<clock, registered, opened>>

\* A mutated form: attested whatever the service did.
RegisterUnchecked(p) ==
  LET st == call[p].state IN
  /\ At(p, "register")
  /\ registered' \in {registered, [registered EXCEPT ![st.service] = @ \cup {st.key}]}
  /\ Goto(p, "persist-attestation", [st EXCEPT !.attested = TRUE])
  /\ UNCHANGED <<clock, file, opened>>

\* The service registers the key (again, if it knows it) and the verified
\* attestation arrives, or the answer is lost; or it does nothing.
Register(p) ==
  LET st == call[p].state IN
  /\ At(p, "register")
  /\ \/ /\ registered' = [registered EXCEPT ![st.service] = @ \cup {st.key}]
        /\ \/ Goto(p, "persist-attestation",
                   [st EXCEPT !.attested = TRUE, !.session = NoSession])
           \/ Fail(p, "unavailable")
     \/ /\ UNCHANGED registered
        /\ \E outcome \in Failed : Fail(p, outcome)
  /\ UNCHANGED <<clock, file, opened>>

PersistAttestation(p) ==
  /\ At(p, "persist-attestation")
  /\ Replace(p, "token")
  /\ UNCHANGED <<clock, registered, opened>>

\* _cached_token: judged at the time the call began.
Reusable(session, terms, at) ==
  /\ session.terms = terms
  /\ session.expires > at + Margin

ReuseToken(p) ==
  LET session == call[p].state.session IN
  /\ At(p, "token")
  /\ IF session # NoSession /\ Reusable(session, call[p].terms, call[p].at)
       THEN Return(p, "connected", call[p].state)
       ELSE Goto(p, "open", call[p].state)
  /\ UNCHANGED <<clock, file, registered, opened>>

\* The service issues by its own clock, not before the request's issuedAt.
\* validate_installation_session_response(at=now) wants the answer current
\* at the time the call began.
Current(session, at) == session.issued <= at /\ at < session.expires

OpenSession(p) ==
  LET st == call[p].state
      session == [terms |-> call[p].terms, issued |-> clock,
                  expires |-> clock + Ttl]
  IN
  /\ At(p, "open")
  /\ \/ /\ st.key \in registered[st.service]
        /\ opened' = [opened EXCEPT ![st.service] =
             @ \cup {[key |-> st.key, session |-> session]}]
        /\ \/ Current(session, call[p].at)
              /\ Goto(p, "persist-session", [st EXCEPT !.session = session])
           \/ ~Current(session, call[p].at) /\ Fail(p, "unverified")
           \/ Fail(p, "unavailable")
     \/ /\ UNCHANGED opened
        /\ \E outcome \in Failed : Fail(p, outcome)
  /\ UNCHANGED <<clock, file, registered>>

PersistSession(p) ==
  /\ At(p, "persist-session")
  /\ \/ file' = call[p].state /\ Return(p, "connected", call[p].state)
     \/ file' \in {file, call[p].state} /\ Fail(p, "unverified")
  /\ UNCHANGED <<clock, registered, opened>>

\* What installation_publisher_authority asks of the file.
Authority(service) ==
  /\ file # NoFile /\ file.service = service
  /\ file.attested /\ file.session # NoSession

ReadAuthority(p) ==
  /\ At(p, "authority")
  /\ IF Authority(call[p].service)
       THEN Return(p, "publisher", file)
       ELSE Fail(p, "unverified")
  /\ UNCHANGED <<clock, file, registered, opened>>

\* A killed process loses its call and its lock; the file stays as it is.
Kill(p) ==
  /\ call[p].step \notin Ended
  /\ call' = [call EXCEPT ![p] = NoCall]
  /\ holder' = IF holder = p THEN None ELSE holder
  /\ UNCHANGED <<clock, file, registered, opened>>

Tick ==
  /\ clock < MaxTime
  /\ clock' = clock + 1
  /\ UNCHANGED <<file, holder, call, registered, opened>>

Advance(p) ==
  \/ Inspect(p) \/ Acquire(p) \/ ReadState(p) \/ PersistKey(p)
  \/ Register(p) \/ PersistAttestation(p) \/ ReuseToken(p)
  \/ OpenSession(p) \/ PersistSession(p) \/ ReadAuthority(p)

Next ==
  \/ Tick
  \/ \E p \in Processes :
       \/ \E s \in Services, t \in Terms : Begin(p, s, t) \/ BeginPublisher(p, s, t)
       \/ Advance(p)
       \/ Kill(p)

Spec == Init /\ [][Next]_vars

-----------------------------------------------------------------------------
(* Properties.                                                              *)

\* However often registration is retried, by whichever process, after lost
\* answers, kills and failed writes, a service only ever sees the one key
\* that the state file holds: the key is on disk before it is sent.
OneInstallation ==
  \A s \in Services : registered[s] \subseteq
    (IF file # NoFile /\ file.service = s THEN {file.key} ELSE {})

\* What the file claims, the service agreed to: an attested key is
\* registered, and the stored session was opened for that key.
FileIsBacked ==
  file # NoFile =>
    /\ file.attested => file.key \in registered[file.service]
    /\ file.session # NoSession =>
         /\ file.attested
         /\ [key |-> file.key, session |-> file.session] \in opened[file.service]

\* A connector handed to the caller carries a bearer its service opened for
\* this installation, under the terms this caller accepted, and that had
\* not expired when the call began.
TokenFitsCaller ==
  \A p \in Processes : At(p, "connected") =>
    LET st == call[p].state IN
    /\ st.service = call[p].service
    /\ st.session.terms = call[p].terms
    /\ call[p].at < st.session.expires
    /\ [key |-> st.key, session |-> st.session] \in opened[st.service]

\* A publisher signs with a key its service has registered.
PublisherIsRegistered ==
  \A p \in Processes : At(p, "publisher") =>
    call[p].state.key \in registered[call[p].service]

\* Once created the identity is never replaced, and an attestation is never
\* lost, whichever processes write the file in whatever order.
IdentityIsKept ==
  [][file # NoFile =>
       /\ file'.service = file.service
       /\ file'.key = file.key
       /\ file.attested => file'.attested]_vars

\* A session on file is only replaced by one issued no earlier: a slow
\* process cannot put an old bearer back over a fresh one.
SessionsAdvance ==
  [][file.session # NoSession =>
       /\ file'.session # NoSession
       /\ file.session.issued <= file'.session.issued]_vars

\* "an expired session renews through one signed POST": a session the
\* service opened for this request, within the bounds the request allows,
\* is taken: the call that asked for it does not end as unverified.
OpenedSessionIsTaken ==
  [][\A p \in Processes :
       At(p, "open") /\ opened' # opened => call'[p].step # "unverified"]_vars
=============================================================================
