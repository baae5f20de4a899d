--------------------- MODULE InstallationIdentityProofs ---------------------
(***************************************************************************)
(* Theorems of InstallationIdentity for any number of processes, services, *)
(* terms and keys, and any lifetimes.                                      *)
(*                                                                         *)
(* The invariant says what the process in the critical section knows: how  *)
(* the state in its hand relates to the file and to what the service has   *)
(* done.  Nobody else is in a step that reads or writes the file.          *)
(***************************************************************************)
EXTENDS InstallationIdentity, TLAPS

LockOK == \A p \in Processes : call[p].step \in InLock <=> holder = p

\* What call p, in the critical section, knows about its state.
HeldOK(p) ==
  LET st == call[p].state IN
  /\ At(p, "persist-key") =>
       /\ file = NoFile
       /\ st \in States /\ st.service = call[p].service
       /\ ~st.attested /\ st.session = NoSession
  /\ At(p, "register") =>
       /\ file # NoFile /\ st = file
       /\ ~st.attested /\ st.service = call[p].service
  /\ At(p, "persist-attestation") =>
       /\ file # NoFile /\ ~file.attested
       /\ st = [file EXCEPT !.attested = TRUE, !.session = NoSession]
       /\ st.key \in registered[st.service] /\ st.service = call[p].service
  /\ call[p].step \in {"token", "open"} =>
       /\ file # NoFile /\ st = file
       /\ st.attested /\ st.service = call[p].service
  /\ At(p, "persist-session") =>
       /\ file # NoFile /\ file.attested
       /\ st = [file EXCEPT !.session = st.session]
       /\ st.session \in Sessions /\ st.service = call[p].service
       /\ st.session.terms = call[p].terms
       /\ call[p].at < st.session.expires
       /\ file.session.issued <= st.session.issued
       /\ st.session.issued <= clock
       /\ [key |-> st.key, session |-> st.session] \in opened[st.service]

TokenOK(p) ==
  At(p, "connected") =>
    LET st == call[p].state IN
    /\ st.service = call[p].service
    /\ st.session.terms = call[p].terms
    /\ call[p].at < st.session.expires
    /\ [key |-> st.key, session |-> st.session] \in opened[st.service]

PublisherOK(p) ==
  At(p, "publisher") => call[p].state.key \in registered[call[p].service]

ClockOK == file.session.issued <= clock

CallOK(p) == HeldOK(p) /\ TokenOK(p) /\ PublisherOK(p)

IInv ==
  /\ TypeOK
  /\ LockOK
  /\ OneInstallation
  /\ FileIsBacked
  /\ ClockOK
  /\ \A p \in Processes : CallOK(p)

-----------------------------------------------------------------------------
(* Frames.                                                                  *)

\* The service forgets nothing and time does not go back.
Grows ==
  /\ \A s \in Services : registered[s] \subseteq registered'[s]
  /\ \A s \in Services : opened[s] \subseteq opened'[s]
  /\ clock <= clock'

WorldOK ==
  /\ clock \in Times
  /\ file \in States \cup {NoFile}
  /\ registered \in [Services -> SUBSET Keys]
  /\ opened \in [Services -> SUBSET [key : Keys, session : Sessions]]

LEMMA TimesAreNat == Times \subseteq Nat /\ 0 \in Times
  BY TimesAssumption DEF Times

LEMMA SameGrows ==
  ASSUME TypeOK, UNCHANGED <<clock, registered, opened>>
  PROVE  Grows /\ clock' \in Nat
  BY TimesAreNat DEF TypeOK, Grows

LEMMA Running ==
  ASSUME TypeOK, NEW p \in Processes, call[p].step \notin Ended
  PROVE  call[p] \in Calls
<1>1. call[p] \in Calls \cup NoCalls BY DEF TypeOK
<1>2. ASSUME call[p] \in NoCalls PROVE FALSE
  BY <1>2 DEF NoCalls, NoCall, Failed, Ended
<1> QED BY <1>1, <1>2

LEMMA GotoFacts ==
  ASSUME TypeOK, NEW p \in Processes, call[p].step \notin Ended,
         NEW x \in Steps, NEW st \in States \cup {NoFile}, Goto(p, x, st)
  PROVE  /\ holder' = holder
         /\ call' \in [Processes -> Calls \cup NoCalls]
         /\ call'[p].step = x /\ call'[p].state = st
         /\ call'[p].service = call[p].service /\ call'[p].terms = call[p].terms
         /\ call'[p].at = call[p].at
         /\ \A q \in Processes \ {p} : call'[q] = call[q]
<1>1. call[p] \in Calls BY Running
<1>2. call \in [Processes -> Calls \cup NoCalls] BY DEF TypeOK
<1>3. call' = [call EXCEPT ![p] = [call[p] EXCEPT !.step = x, !.state = st]]
  BY <1>1, <1>2 DEF Calls, Goto
<1>4. [call[p] EXCEPT !.step = x, !.state = st] \in Calls BY <1>1 DEF Calls
<1>5. call'[p] = [call[p] EXCEPT !.step = x, !.state = st] BY <1>2, <1>3
<1> QED BY <1>1, <1>2, <1>3, <1>4, <1>5 DEF Calls, Goto

LEMMA FailFacts ==
  ASSUME TypeOK, NEW p \in Processes, NEW x \in Failed \cup {"idle"},
         call' = [call EXCEPT ![p] = [NoCall EXCEPT !.step = x]]
  PROVE  /\ call' \in [Processes -> Calls \cup NoCalls]
         /\ call'[p].step = x
         /\ \A q \in Processes \ {p} : call'[q] = call[q]
  BY DEF TypeOK, NoCalls, NoCall

\* A call that does not move keeps what it knows, unless it is in the
\* critical section and the file changes.
LEMMA Stays ==
  ASSUME TypeOK, TypeOK', Grows, NEW q \in Processes, CallOK(q),
         call'[q] = call[q], file' = file \/ call[q].step \notin InLock
  PROVE  CallOK(q)'
<1> USE DEF At
<1>1. /\ clock \in Nat /\ clock' \in Nat /\ clock <= clock'
  BY DEF TypeOK, Times, Grows
<1>2. CASE call[q] \in NoCalls
  <2>1. call[q].step \in Failed \cup {"idle"} BY <1>2 DEF NoCalls, NoCall
  <2> QED BY <2>1 DEF CallOK, TokenOK, PublisherOK, HeldOK, Failed
<1>3. CASE call[q] \in Calls
  <2>1. call[q].service \in Services /\ call[q].at \in Nat
        /\ call[q].state \in States \cup {NoFile}
    BY <1>3 DEF Calls, Times
  <2>2. HeldOK(q)'
    <3>1. CASE call[q].step \notin InLock BY <3>1 DEF HeldOK, InLock
    <3>2. CASE call[q].step = "persist-key"
      BY <3>2 DEF HeldOK, CallOK, InLock
    <3>3. CASE call[q].step \in {"register", "token", "open", "read", "authority"}
      BY <3>3 DEF HeldOK, CallOK, InLock
    <3>4. CASE call[q].step = "persist-attestation"
      <4>1. call[q].state.service \in Services BY <2>1, <3>4 DEF HeldOK, CallOK
      <4> QED BY <3>4, <4>1 DEF HeldOK, CallOK, InLock, Grows
    <3>5. CASE call[q].step = "persist-session"
      <4>1. call[q].state.service \in Services BY <2>1, <3>5 DEF HeldOK, CallOK
      <4>2. call[q].state.session.issued \in Nat
        BY <3>5 DEF HeldOK, CallOK, Sessions, Times
      <4>3. call[q].state.session.issued <= clock'
        BY <1>1, <3>5, <4>2 DEF HeldOK, CallOK
      <4> QED BY <3>5, <4>1, <4>3 DEF HeldOK, CallOK, InLock, Grows
    <3> QED BY <3>1, <3>2, <3>3, <3>4, <3>5 DEF InLock
  <2>3. TokenOK(q)'
    BY <2>1 DEF CallOK, TokenOK, Grows
  <2>4. PublisherOK(q)'
    BY <2>1 DEF CallOK, PublisherOK, Grows
  <2> QED BY <2>2, <2>3, <2>4 DEF CallOK
<1> QED BY <1>2, <1>3 DEF TypeOK

LEMMA Move ==
  ASSUME IInv, TypeOK', Grows, NEW p \in Processes,
         \A q \in Processes \ {p} : call'[q] = call[q],
         file' = file \/ holder = p,
         \/ /\ call'[p].step \in InLock
            /\ holder' = p /\ holder \in {None, p}
         \/ /\ call'[p].step \notin InLock
            /\ holder' = (IF holder = p THEN None ELSE holder),
         CallOK(p)', OneInstallation', FileIsBacked', ClockOK'
  PROVE  IInv'
<1>1. TypeOK /\ LockOK /\ \A q \in Processes : CallOK(q) BY DEF IInv
<1>2. LockOK' BY <1>1, NoneAssumption DEF LockOK
<1>3. ASSUME NEW q \in Processes PROVE CallOK(q)'
  <2>1. CASE q = p BY <2>1
  <2>2. CASE q # p
    <3>1. file' = file \/ call[q].step \notin InLock BY <1>1, <2>2 DEF LockOK
    <3> QED BY <1>1, <2>2, <3>1, Stays
  <2> QED BY <2>1, <2>2
<1> QED BY <1>2, <1>3 DEF IInv

\* What the file claims stays true while neither it nor the keys change.
LEMMA Backed ==
  ASSUME IInv, Grows, clock' \in Nat, file' = file, registered' = registered
  PROVE  OneInstallation' /\ FileIsBacked' /\ ClockOK'
<1>1. TypeOK /\ OneInstallation /\ FileIsBacked /\ ClockOK BY DEF IInv
<1>2. OneInstallation' BY <1>1 DEF OneInstallation
<1>3. FileIsBacked'
  <2>1. CASE file = NoFile BY <2>1 DEF FileIsBacked
  <2>2. CASE file # NoFile
    <3>1. file.service \in Services BY <1>1, <2>2 DEF TypeOK, States
    <3> QED BY <1>1, <2>2, <3>1 DEF FileIsBacked, Grows
  <2> QED BY <2>1, <2>2
<1>4. file.session.issued \in Nat
  BY <1>1 DEF TypeOK, States, Sessions, NoFile, NoSession, Times
<1>5. ClockOK' BY <1>1, <1>4 DEF ClockOK, Grows, TypeOK, Times
<1> QED BY <1>2, <1>3, <1>5

\* A call that fails in the critical section has nothing left to know.
LEMMA FailMove ==
  ASSUME IInv, WorldOK', Grows, NEW p \in Processes, NEW x \in Failed,
         call[p].step \in InLock, Fail(p, x),
         OneInstallation', FileIsBacked', ClockOK'
  PROVE  IInv'
<1>1. TypeOK /\ holder = p BY DEF IInv, LockOK
<1>2. call'[p].step = x /\ (\A q \in Processes \ {p} : call'[q] = call[q])
  BY <1>1, FailFacts DEF Fail
<1>3. CallOK(p)'
  BY <1>2 DEF CallOK, HeldOK, TokenOK, PublisherOK, At, Failed
<1>4. file' = file \/ holder = p BY <1>1
<1>5. TypeOK' BY <1>1, FailFacts DEF TypeOK, WorldOK, Fail
<1> QED BY <1>1, <1>2, <1>3, <1>4, <1>5, Move DEF Fail, Failed, InLock

\* A call that goes on in the critical section.
LEMMA GotoMove ==
  ASSUME IInv, WorldOK', Grows, NEW p \in Processes, NEW x \in InLock,
         NEW st \in States \cup {NoFile},
         call[p].step \in InLock, Goto(p, x, st),
         CallOK(p)', OneInstallation', FileIsBacked', ClockOK'
  PROVE  IInv'
<1>1. TypeOK /\ holder = p BY DEF IInv, LockOK
<1>2. x \in Steps /\ call[p].step \notin Ended BY DEF Steps, InLock, Ended, Failed
<1>3. /\ call' \in [Processes -> Calls \cup NoCalls] /\ call'[p].step = x
      /\ \A q \in Processes \ {p} : call'[q] = call[q]
      /\ holder' = holder
  BY <1>1, <1>2, GotoFacts
<1>4. TypeOK' BY <1>1, <1>3 DEF TypeOK, WorldOK
<1> QED BY <1>1, <1>3, <1>4, Move

\* The file is replaced by a state with the same identity, backed by what
\* the service has done.
LEMMA Replaced ==
  ASSUME IInv, TypeOK', registered' = registered, opened' = opened,
         clock' = clock, NEW st \in States, file' = st,
         file # NoFile => st.service = file.service /\ st.key = file.key,
         st.attested => st.key \in registered[st.service],
         st.session # NoSession =>
           /\ st.attested
           /\ [key |-> st.key, session |-> st.session] \in opened[st.service],
         st.session.issued <= clock
  PROVE  OneInstallation' /\ FileIsBacked' /\ ClockOK'
<1>1. OneInstallation BY DEF IInv
<1>2. st # NoFile BY NoneAssumption DEF States, NoFile
<1> QED BY <1>1, <1>2 DEF OneInstallation, FileIsBacked, ClockOK

-----------------------------------------------------------------------------
(* One lemma per group of steps.                                            *)

LEMMA OutsideStep ==
  ASSUME IInv, NEW p \in Processes,
         \/ \E s \in Services, t \in Terms : Begin(p, s, t) \/ BeginPublisher(p, s, t)
         \/ Inspect(p) \/ Kill(p) \/ Tick
  PROVE  IInv'
<1> USE DEF At
<1>1. TypeOK /\ LockOK BY DEF IInv
<1>2. UNCHANGED <<file, registered, opened>>
  BY DEF Begin, BeginPublisher, Inspect, Kill, Tick
<1>3. CASE Tick
  <2>1. clock \in Nat /\ clock' = clock + 1 /\ UNCHANGED <<holder, call>>
    BY <1>1, <1>3, TimesAreNat DEF Tick, TypeOK
  <2>2. clock' \in Times /\ clock' \in Nat /\ Grows
    BY <1>2, <1>3, <2>1, TimesAssumption DEF Tick, Times, Grows
  <2>3. TypeOK' BY <1>1, <1>2, <2>1, <2>2 DEF TypeOK
  <2>4. CallOK(p)' BY <1>1, <1>2, <2>1, <2>2, <2>3, Stays DEF IInv
  <2>5. call'[p].step \in InLock <=> holder' = p BY <1>1, <2>1 DEF LockOK
  <2> QED BY <1>1, <1>2, <2>1, <2>2, <2>3, <2>4, <2>5, Backed, Move
<1>4. CASE ~Tick
  <2>1. UNCHANGED clock /\ Grows /\ clock' \in Nat
    BY <1>1, <1>2, <1>4, SameGrows DEF Begin, BeginPublisher, Inspect, Kill
  <2>2. /\ call' \in [Processes -> Calls \cup NoCalls]
        /\ \A q \in Processes \ {p} : call'[q] = call[q]
        /\ call'[p].step \in {"inspect", "lock", "idle"} \cup Failed
    <3>1. CASE \E s \in Services, t \in Terms : Begin(p, s, t) \/ BeginPublisher(p, s, t)
      <4>1. PICK c \in Calls : /\ call' = [call EXCEPT ![p] = c]
                               /\ c.step \in {"inspect", "lock"}
        BY <1>1, <3>1, TimesAreNat DEF Begin, BeginPublisher, TypeOK, Calls, Steps
      <4> QED BY <1>1, <4>1 DEF TypeOK
    <3>2. CASE Inspect(p)
      <4>1. CASE Goto(p, "lock", NoFile)
        <5>1. "lock" \in Steps /\ call[p].step \notin Ended
          BY <3>2 DEF Inspect, Ended, Failed, Steps
        <5> QED BY <1>1, <4>1, <5>1, GotoFacts
      <4>2. CASE \E x \in Failed : call' = [call EXCEPT ![p] = [NoCall EXCEPT !.step = x]]
        BY <1>1, <4>2, FailFacts
      <4> QED BY <3>2, <4>1, <4>2 DEF Inspect
    <3>3. CASE Kill(p)
      <4>1. NoCall = [NoCall EXCEPT !.step = "idle"] BY DEF NoCall
      <4> QED BY <1>1, <3>3, <4>1, FailFacts DEF Kill
    <3> QED BY <1>4, <3>1, <3>2, <3>3
  <2>3. holder' = IF holder = p THEN None ELSE holder
    BY <1>1, <1>4 DEF Begin, BeginPublisher, Inspect, Kill, Goto, LockOK, InLock, Ended, Failed
  <2>4. TypeOK' BY <1>1, <1>2, <2>1, <2>2, <2>3 DEF TypeOK
  <2>5. CallOK(p)' BY <2>2 DEF CallOK, HeldOK, TokenOK, PublisherOK, Failed
  <2>6. call'[p].step \notin InLock BY <2>2 DEF InLock, Failed
  <2> QED BY <1>1, <1>2, <2>1, <2>2, <2>3, <2>4, <2>5, <2>6, Backed, Move
<1> QED BY <1>3, <1>4

LEMMA AcquireStep ==
  ASSUME IInv, NEW p \in Processes, Acquire(p)
  PROVE  IInv'
<1> USE DEF At
<1>1. TypeOK /\ LockOK BY DEF IInv
<1>2. UNCHANGED <<clock, file, registered, opened>> /\ Grows /\ clock' \in Nat
  BY <1>1, SameGrows DEF Acquire
<1>3. PICK x \in {"authority", "read"} : call' = [call EXCEPT ![p].step = x]
  BY DEF Acquire
<1>4. call[p] \in Calls BY <1>1, Running DEF Acquire, Ended, Failed
<1>5. [call[p] EXCEPT !.step = x] \in Calls BY <1>4 DEF Calls, Steps, InLock
<1>6. /\ call' \in [Processes -> Calls \cup NoCalls] /\ call'[p].step = x
      /\ \A q \in Processes \ {p} : call'[q] = call[q]
  BY <1>1, <1>3, <1>4, <1>5 DEF TypeOK, Calls
<1>7. holder' = p /\ holder = None BY DEF Acquire, Free
<1>8. TypeOK' BY <1>1, <1>2, <1>6, <1>7 DEF TypeOK
<1>9. CallOK(p)' BY <1>6 DEF CallOK, HeldOK, TokenOK, PublisherOK
<1> QED BY <1>1, <1>2, <1>6, <1>7, <1>8, <1>9, Backed, Move DEF InLock

LEMMA ReadStateStep ==
  ASSUME IInv, NEW p \in Processes, ReadState(p)
  PROVE  IInv'
<1> USE DEF At
<1>1. TypeOK /\ LockOK /\ ClockOK /\ FileIsBacked /\ CallOK(p) BY DEF IInv
<1>2. UNCHANGED <<clock, file, registered, opened>> /\ Grows /\ clock' \in Nat
  <2>1. UNCHANGED <<clock, file, registered, opened>> BY DEF ReadState
  <2> QED BY <1>1, <2>1, SameGrows
<1>3. call[p].step = "read" /\ holder = p /\ call[p] \in Calls
      /\ call[p].step \notin Ended
  BY <1>1, Running DEF ReadState, LockOK, InLock, Ended, Failed
<1>4. call[p].service \in Services BY <1>3 DEF Calls
<1>5. CASE file = NoFile
  <2>1. PICK k \in Keys : Goto(p, "persist-key", PendingState(call[p].service, k))
    BY <1>5 DEF ReadState
  <2> DEFINE st == PendingState(call[p].service, k)
  <2>2. st \in States /\ st.service = call[p].service /\ st.attested = FALSE
        /\ st.session = NoSession
    BY <1>4 DEF States, NoFile, PendingState
  <2> HIDE DEF st
  <2>3. Goto(p, "persist-key", st) BY <2>1 DEF st
  <2>4. /\ call' \in [Processes -> Calls \cup NoCalls]
        /\ call'[p].step = "persist-key" /\ call'[p].state = st
        /\ call'[p].service = call[p].service
        /\ \A q \in Processes \ {p} : call'[q] = call[q]
    <3>1. "persist-key" \in Steps BY DEF Steps, InLock
    <3> QED BY <1>1, <1>3, <2>2, <2>3, <3>1, GotoFacts
  <2>5. TypeOK' BY <1>1, <1>2, <2>3, <2>4 DEF TypeOK, Goto
  <2>6. CallOK(p)'
    BY <1>2, <1>5, <2>2, <2>4 DEF CallOK, HeldOK, TokenOK, PublisherOK
  <2> QED BY <1>2, <1>3, <2>3, <2>4, <2>5, <2>6, Backed, Move DEF InLock, Goto
<1>6. CASE file # NoFile /\ file.service = call[p].service
  <2>1. Goto(p, NextStep(file), file) BY <1>6 DEF ReadState
  <2>2. file \in States /\ NextStep(file) \in {"token", "register"}
        /\ (NextStep(file) = "token" <=> file.attested)
    BY <1>1, <1>6 DEF TypeOK, States, NextStep
  <2>3. /\ call' \in [Processes -> Calls \cup NoCalls]
        /\ call'[p].step = NextStep(file) /\ call'[p].state = file
        /\ call'[p].service = call[p].service
        /\ \A q \in Processes \ {p} : call'[q] = call[q]
    <3>1. NextStep(file) \in Steps BY <2>2 DEF Steps, InLock
    <3> QED BY <1>1, <1>3, <2>1, <2>2, <3>1, GotoFacts
  <2>4. TypeOK' BY <1>1, <1>2, <2>1, <2>3 DEF TypeOK, Goto
  <2>5. CallOK(p)'
    BY <1>2, <1>6, <2>2, <2>3 DEF CallOK, HeldOK, TokenOK, PublisherOK
  <2> QED BY <1>2, <1>3, <2>1, <2>2, <2>3, <2>4, <2>5, Backed, Move DEF InLock, Goto
<1>7. CASE Fail(p, "unverified")
  <2>1. WorldOK' BY <1>1, <1>2 DEF TypeOK, WorldOK
  <2> QED BY <1>2, <1>3, <1>7, <2>1, Backed, FailMove DEF InLock, Failed
<1> QED BY <1>5, <1>6, <1>7 DEF ReadState

\* The facts a step in the critical section starts from.
LEMMA InSection ==
  ASSUME IInv, NEW p \in Processes, call[p].step \in InLock
  PROVE  /\ TypeOK /\ WorldOK /\ ClockOK /\ OneInstallation /\ FileIsBacked
         /\ CallOK(p) /\ holder = p
         /\ call[p] \in Calls /\ call[p].step \notin Ended
  BY Running DEF IInv, LockOK, InLock, Ended, Failed, TypeOK, WorldOK

LEMMA PersistKeyStep ==
  ASSUME IInv, NEW p \in Processes, PersistKey(p)
  PROVE  IInv'
<1> USE DEF At
<1> DEFINE st == call[p].state
<1>1. call[p].step \in InLock BY DEF PersistKey, InLock
<1>2. /\ TypeOK /\ WorldOK /\ ClockOK /\ OneInstallation /\ FileIsBacked
      /\ CallOK(p) /\ call[p] \in Calls /\ call[p].step \notin Ended
  BY <1>1, InSection
<1>3. UNCHANGED <<clock, registered, opened>> BY DEF PersistKey
<1>4. Grows /\ clock' \in Nat BY <1>2, <1>3, SameGrows
<1>5. /\ file = NoFile /\ st \in States /\ st.service = call[p].service
      /\ ~st.attested /\ st.session = NoSession
  BY <1>2 DEF CallOK, HeldOK, PersistKey
<1>6. st.session.issued <= clock /\ st # NoFile
  BY <1>2, <1>5, TimesAreNat, NoneAssumption DEF NoSession, WorldOK, States, NoFile
<1> HIDE DEF st
<1>7. CASE file' = st /\ Goto(p, "register", st)
  <2>1. OneInstallation' /\ FileIsBacked' /\ ClockOK'
    BY <1>2, <1>3, <1>5, <1>6, <1>7 DEF OneInstallation, FileIsBacked, ClockOK
  <2>2. WorldOK' BY <1>2, <1>3, <1>5, <1>7 DEF WorldOK
  <2>3. "register" \in InLock /\ "register" \in Steps BY DEF InLock, Steps
  <2>4. /\ call'[p].step = "register" /\ call'[p].state = st
        /\ call'[p].service = call[p].service
    BY <1>2, <1>5, <1>7, <2>3, GotoFacts
  <2>5. CallOK(p)'
    BY <1>5, <1>6, <1>7, <2>4 DEF CallOK, HeldOK, TokenOK, PublisherOK
  <2> QED BY <1>1, <1>4, <1>5, <1>7, <2>1, <2>2, <2>3, <2>5, GotoMove
<1>8. CASE file' = st /\ Fail(p, "unverified")
  <2>1. OneInstallation' /\ FileIsBacked' /\ ClockOK'
    BY <1>2, <1>3, <1>5, <1>6, <1>8 DEF OneInstallation, FileIsBacked, ClockOK
  <2>2. WorldOK' BY <1>2, <1>3, <1>5, <1>8 DEF WorldOK
  <2> QED BY <1>1, <1>4, <1>8, <2>1, <2>2, FailMove DEF Failed
<1>9. CASE file' = file /\ Fail(p, "unverified")
  <2>1. WorldOK' BY <1>2, <1>3, <1>9 DEF WorldOK
  <2> QED BY <1>1, <1>3, <1>4, <1>9, <2>1, Backed, FailMove DEF Failed
<1> QED BY <1>7, <1>8, <1>9 DEF PersistKey, Replace, st

LEMMA RegisterStep ==
  ASSUME IInv, NEW p \in Processes, Register(p)
  PROVE  IInv'
<1> USE DEF At
<1>1. call[p].step \in InLock BY DEF Register, InLock
<1>2. /\ TypeOK /\ WorldOK /\ ClockOK /\ OneInstallation /\ FileIsBacked
      /\ CallOK(p) /\ call[p] \in Calls /\ call[p].step \notin Ended
  BY <1>1, InSection
<1>3. UNCHANGED <<clock, file, opened>> BY DEF Register
<1>4. /\ file # NoFile /\ call[p].state = file /\ file \in States
      /\ ~file.attested /\ file.service = call[p].service
      /\ file.service \in Services /\ file.key \in Keys
  BY <1>2 DEF CallOK, HeldOK, Register, WorldOK, States
<1>5. \/ registered' = [registered EXCEPT ![file.service] = @ \cup {file.key}]
      \/ registered' = registered
  BY <1>4 DEF Register
<1>6. WorldOK' BY <1>2, <1>3, <1>4, <1>5 DEF WorldOK
<1>7. Grows BY <1>2, <1>3, <1>4, <1>5, TimesAreNat DEF WorldOK, Grows
<1>8. OneInstallation'
  BY <1>2, <1>3, <1>4, <1>5 DEF OneInstallation, WorldOK
<1>9. FileIsBacked' /\ ClockOK'
  BY <1>2, <1>3, <1>4, <1>7 DEF FileIsBacked, ClockOK, Grows
<1>10. CASE /\ registered' = [registered EXCEPT ![file.service] = @ \cup {file.key}]
            /\ Goto(p, "persist-attestation",
                    [file EXCEPT !.attested = TRUE, !.session = NoSession])
  <2> DEFINE st == [file EXCEPT !.attested = TRUE, !.session = NoSession]
  <2>1. st \in States /\ st.key = file.key /\ st.service = file.service
    BY <1>4 DEF States
  <2>2. "persist-attestation" \in InLock /\ "persist-attestation" \in Steps
    BY DEF InLock, Steps
  <2>3. Goto(p, "persist-attestation", st) BY <1>10
  <2>4. st = [file EXCEPT !.attested = TRUE, !.session = NoSession] OBVIOUS
  <2> HIDE DEF st
  <2>5. /\ call'[p].step = "persist-attestation" /\ call'[p].state = st
        /\ call'[p].service = call[p].service
    BY <1>2, <2>1, <2>2, <2>3, GotoFacts
  <2>6. st.key \in registered'[st.service] BY <1>2, <1>4, <1>10, <2>1 DEF WorldOK
  <2>7. CallOK(p)'
    BY <1>3, <1>4, <2>1, <2>4, <2>5, <2>6 DEF CallOK, HeldOK, TokenOK, PublisherOK
  <2> QED BY <1>1, <1>6, <1>7, <1>8, <1>9, <2>1, <2>2, <2>3, <2>7, GotoMove
<1>11. CASE \E x \in Failed : Fail(p, x)
  BY <1>1, <1>6, <1>7, <1>8, <1>9, <1>11, FailMove
<1> QED BY <1>4, <1>10, <1>11 DEF Register, Failed

LEMMA PersistAttestationStep ==
  ASSUME IInv, NEW p \in Processes, PersistAttestation(p)
  PROVE  IInv'
<1> USE DEF At
<1> DEFINE st == call[p].state
<1>1. call[p].step \in InLock BY DEF PersistAttestation, InLock
<1>2. /\ TypeOK /\ WorldOK /\ ClockOK /\ OneInstallation /\ FileIsBacked
      /\ CallOK(p) /\ call[p] \in Calls /\ call[p].step \notin Ended
  BY <1>1, InSection
<1>3. UNCHANGED <<clock, registered, opened>> BY DEF PersistAttestation
<1>4. Grows /\ clock' \in Nat BY <1>2, <1>3, SameGrows
<1>5. /\ file # NoFile /\ file \in States
      /\ st = [file EXCEPT !.attested = TRUE, !.session = NoSession]
      /\ st.key \in registered[st.service] /\ st.service = call[p].service
  BY <1>2 DEF CallOK, HeldOK, PersistAttestation, WorldOK
<1>6. /\ st \in States /\ st.service = file.service /\ st.key = file.key
      /\ st.attested /\ st.session = NoSession
  BY <1>5 DEF States
<1>7. st.session.issued <= clock /\ st # NoFile
  BY <1>2, <1>6, TimesAreNat, NoneAssumption DEF NoSession, WorldOK, States, NoFile
<1> HIDE DEF st
<1>8. CASE file' = st
  <2>1. OneInstallation' /\ FileIsBacked' /\ ClockOK'
    BY <1>2, <1>3, <1>5, <1>6, <1>7, <1>8 DEF OneInstallation, FileIsBacked, ClockOK
  <2>2. WorldOK' BY <1>2, <1>3, <1>6, <1>8 DEF WorldOK
  <2>3. CASE Fail(p, "unverified")
    BY <1>1, <1>4, <2>1, <2>2, <2>3, FailMove DEF Failed
  <2>4. CASE Goto(p, "token", st)
    <3>1. "token" \in InLock /\ "token" \in Steps BY DEF InLock, Steps
    <3>2. /\ call'[p].step = "token" /\ call'[p].state = st
          /\ call'[p].service = call[p].service
      BY <1>2, <1>6, <2>4, <3>1, GotoFacts
    <3>3. CallOK(p)'
      BY <1>5, <1>6, <1>7, <1>8, <3>2 DEF CallOK, HeldOK, TokenOK, PublisherOK
    <3> QED BY <1>1, <1>4, <1>6, <2>1, <2>2, <2>4, <3>1, <3>3, GotoMove
  <2> QED BY <1>8, <2>3, <2>4, <1>7, <1>5 DEF PersistAttestation, Replace, st
<1>9. CASE file' = file /\ Fail(p, "unverified")
  <2>1. WorldOK' BY <1>2, <1>3, <1>9 DEF WorldOK
  <2> QED BY <1>1, <1>3, <1>4, <1>9, <2>1, Backed, FailMove DEF Failed
<1> QED BY <1>8, <1>9 DEF PersistAttestation, Replace, st

\* A call that returns a result leaves the critical section.
LEMMA ReturnFacts ==
  ASSUME IInv, NEW p \in Processes, call[p].step \in InLock,
         NEW x \in {"connected", "publisher"}, NEW st \in States, Return(p, x, st)
  PROVE  /\ call' \in [Processes -> Calls \cup NoCalls]
         /\ call'[p].step = x /\ call'[p].state = st
         /\ call'[p].service = call[p].service /\ call'[p].terms = call[p].terms
         /\ call'[p].at = call[p].at
         /\ \A q \in Processes \ {p} : call'[q] = call[q]
<1>1. TypeOK /\ call[p] \in Calls BY InSection
<1>2. call \in [Processes -> Calls \cup NoCalls] BY <1>1 DEF TypeOK
<1>3. call' = [call EXCEPT ![p] = [call[p] EXCEPT !.step = x, !.state = st]]
  BY <1>1, <1>2 DEF Calls, Return
<1>4. [call[p] EXCEPT !.step = x, !.state = st] \in Calls
  BY <1>1 DEF Calls, Steps, Ended
<1>5. call'[p] = [call[p] EXCEPT !.step = x, !.state = st] BY <1>2, <1>3
<1> QED BY <1>1, <1>2, <1>3, <1>4, <1>5 DEF Calls

LEMMA ReturnMove ==
  ASSUME IInv, NEW p \in Processes, call[p].step \in InLock,
         NEW x \in {"connected", "publisher"}, NEW st \in States, Return(p, x, st),
         WorldOK', Grows, CallOK(p)', OneInstallation', FileIsBacked', ClockOK'
  PROVE  IInv'
<1>1. TypeOK /\ holder = p BY InSection
<1>2. /\ call' \in [Processes -> Calls \cup NoCalls] /\ call'[p].step = x
      /\ \A q \in Processes \ {p} : call'[q] = call[q]
  BY ReturnFacts
<1>3. holder' = None BY DEF Return
<1>4. TypeOK' BY <1>1, <1>2, <1>3 DEF TypeOK, WorldOK
<1>5. x \notin InLock BY DEF InLock
<1> QED BY <1>1, <1>2, <1>3, <1>4, <1>5, Move

LEMMA ReuseTokenStep ==
  ASSUME IInv, NEW p \in Processes, ReuseToken(p)
  PROVE  IInv'
<1> USE DEF At
<1>1. call[p].step \in InLock BY DEF ReuseToken, InLock
<1>2. /\ TypeOK /\ WorldOK /\ ClockOK /\ OneInstallation /\ FileIsBacked
      /\ CallOK(p) /\ call[p] \in Calls /\ call[p].step \notin Ended
  BY <1>1, InSection
<1>3. UNCHANGED <<clock, file, registered, opened>> BY DEF ReuseToken
<1>4. Grows /\ clock' \in Nat BY <1>2, <1>3, SameGrows
<1>5. WorldOK' BY <1>2, <1>3 DEF WorldOK
<1>6. OneInstallation' /\ FileIsBacked' /\ ClockOK' BY <1>3, <1>4, Backed
<1>7. /\ file # NoFile /\ file \in States /\ call[p].state = file
      /\ file.attested /\ file.service = call[p].service
  BY <1>2 DEF CallOK, HeldOK, ReuseToken, WorldOK
<1>8. CASE /\ file.session # NoSession
           /\ Reusable(file.session, call[p].terms, call[p].at)
           /\ Return(p, "connected", file)
  <2>1. /\ call'[p].step = "connected" /\ call'[p].state = file
        /\ call'[p].service = call[p].service /\ call'[p].terms = call[p].terms
        /\ call'[p].at = call[p].at
    BY <1>1, <1>7, <1>8, ReturnFacts
  <2>2. file.session.terms = call[p].terms /\ call[p].at < file.session.expires
    <3>1. call[p].at \in Nat /\ Margin \in Nat
      BY <1>2, TimesAreNat, TimesAssumption DEF Calls
    <3>2. file.session \in Sessions BY <1>7, <1>8 DEF States
    <3>3. file.session.expires \in Nat BY <3>2 DEF Sessions
    <3>4. file.session.expires > call[p].at + Margin BY <1>8 DEF Reusable
    <3> QED BY <1>8, <3>1, <3>3, <3>4 DEF Reusable
  <2>3. [key |-> file.key, session |-> file.session] \in opened'[file.service]
    BY <1>2, <1>3, <1>7, <1>8 DEF FileIsBacked
  <2>4. CallOK(p)'
    BY <1>7, <2>1, <2>2, <2>3 DEF CallOK, HeldOK, TokenOK, PublisherOK
  <2> QED BY <1>1, <1>4, <1>5, <1>6, <1>7, <1>8, <2>4, ReturnMove
<1>9. CASE Goto(p, "open", file)
  <2>1. "open" \in InLock /\ "open" \in Steps BY DEF InLock, Steps
  <2>2. /\ call'[p].step = "open" /\ call'[p].state = file
        /\ call'[p].service = call[p].service
    BY <1>2, <1>7, <1>9, <2>1, GotoFacts
  <2>3. CallOK(p)'
    BY <1>3, <1>7, <2>2 DEF CallOK, HeldOK, TokenOK, PublisherOK
  <2> QED BY <1>1, <1>4, <1>5, <1>6, <1>7, <1>9, <2>1, <2>3, GotoMove
<1> QED BY <1>7, <1>8, <1>9 DEF ReuseToken

LEMMA OpenSessionStep ==
  ASSUME IInv, NEW p \in Processes, OpenSession(p)
  PROVE  IInv'
<1> USE DEF At
<1>1. call[p].step \in InLock BY DEF OpenSession, InLock
<1>2. /\ TypeOK /\ WorldOK /\ ClockOK /\ OneInstallation /\ FileIsBacked
      /\ CallOK(p) /\ call[p] \in Calls /\ call[p].step \notin Ended
  BY <1>1, InSection
<1>3. UNCHANGED <<clock, file, registered>> BY DEF OpenSession
<1>4. /\ file # NoFile /\ file \in States /\ call[p].state = file
      /\ file.attested /\ file.service = call[p].service
      /\ file.service \in Services /\ file.key \in Keys
      /\ call[p].terms \in Terms /\ clock \in Nat
  BY <1>2, TimesAreNat DEF CallOK, HeldOK, OpenSession, WorldOK, States, Calls
<1> DEFINE session == [terms |-> call[p].terms, issued |-> clock,
                       expires |-> clock + Ttl]
           entry == [key |-> file.key, session |-> session]
           st == [file EXCEPT !.session = session]
<1>5. /\ session \in Sessions /\ session.terms = call[p].terms
      /\ session.issued = clock
  BY <1>2, <1>4, TimesAssumption DEF Sessions, WorldOK
<1>6. /\ st \in States /\ st.key = file.key /\ st.service = file.service
      /\ st.session = session /\ st.attested
      /\ st = [file EXCEPT !.session = st.session]
  BY <1>4, <1>5 DEF States
<1>7. entry \in [key : Keys, session : Sessions] BY <1>4, <1>5
<1>8. \/ opened' = [opened EXCEPT ![file.service] = @ \cup {entry}]
      \/ opened' = opened
  BY <1>4 DEF OpenSession
<1>9. \/ /\ opened' = [opened EXCEPT ![file.service] = @ \cup {entry}]
         /\ Current(session, call[p].at)
         /\ Goto(p, "persist-session", st)
      \/ \E x \in Failed : Fail(p, x)
  BY <1>4 DEF OpenSession, Failed
<1> HIDE DEF session, entry, st
<1>10. WorldOK' BY <1>2, <1>3, <1>4, <1>7, <1>8 DEF WorldOK
<1>11. Grows /\ clock' \in Nat BY <1>2, <1>3, <1>4, <1>8 DEF WorldOK, Grows
<1>12. OneInstallation' /\ FileIsBacked' /\ ClockOK' BY <1>3, <1>11, Backed
<1>13. CASE /\ opened' = [opened EXCEPT ![file.service] = @ \cup {entry}]
            /\ Current(session, call[p].at)
            /\ Goto(p, "persist-session", st)
  <2>1. "persist-session" \in InLock /\ "persist-session" \in Steps
    BY DEF InLock, Steps
  <2>2. /\ call'[p].step = "persist-session" /\ call'[p].state = st
        /\ call'[p].service = call[p].service /\ call'[p].terms = call[p].terms
        /\ call'[p].at = call[p].at
    BY <1>2, <1>6, <1>13, <2>1, GotoFacts
  <2>3. [key |-> st.key, session |-> st.session] \in opened'[st.service]
    BY <1>2, <1>4, <1>6, <1>13 DEF entry, WorldOK
  <2>4. call[p].at < st.session.expires BY <1>6, <1>13 DEF Current
  <2>5. st.session.issued <= clock' /\ file.session.issued <= st.session.issued
    BY <1>2, <1>3, <1>4, <1>5, <1>6 DEF ClockOK
  <2>6. CallOK(p)'
    BY <1>3, <1>4, <1>5, <1>6, <2>2, <2>3, <2>4, <2>5
    DEF CallOK, HeldOK, TokenOK, PublisherOK
  <2> QED BY <1>1, <1>6, <1>10, <1>11, <1>12, <1>13, <2>1, <2>6, GotoMove
<1>14. CASE \E x \in Failed : Fail(p, x)
  BY <1>1, <1>10, <1>11, <1>12, <1>14, FailMove
<1> QED BY <1>9, <1>13, <1>14

LEMMA PersistSessionStep ==
  ASSUME IInv, NEW p \in Processes, PersistSession(p)
  PROVE  IInv'
<1> USE DEF At
<1> DEFINE st == call[p].state
<1>1. call[p].step \in InLock BY DEF PersistSession, InLock
<1>2. /\ TypeOK /\ WorldOK /\ ClockOK /\ OneInstallation /\ FileIsBacked
      /\ CallOK(p) /\ call[p] \in Calls /\ call[p].step \notin Ended
  BY <1>1, InSection
<1>3. UNCHANGED <<clock, registered, opened>> BY DEF PersistSession
<1>4. Grows /\ clock' \in Nat BY <1>2, <1>3, SameGrows
<1>5. /\ file # NoFile /\ file \in States /\ file.attested
      /\ st = [file EXCEPT !.session = st.session] /\ st.session \in Sessions
      /\ st.service = call[p].service /\ st.session.terms = call[p].terms
      /\ call[p].at < st.session.expires /\ st.session.issued <= clock
      /\ [key |-> st.key, session |-> st.session] \in opened[st.service]
  BY <1>2 DEF CallOK, HeldOK, PersistSession, WorldOK
<1>6. /\ st \in States /\ st.service = file.service /\ st.key = file.key
      /\ st.attested /\ st # NoFile
  BY <1>5, NoneAssumption DEF States, NoFile
<1> HIDE DEF st
<1>7. CASE file' = st
  <2>1. OneInstallation' /\ FileIsBacked' /\ ClockOK'
    BY <1>2, <1>3, <1>5, <1>6, <1>7 DEF OneInstallation, FileIsBacked, ClockOK
  <2>2. WorldOK' BY <1>2, <1>3, <1>6, <1>7 DEF WorldOK
  <2>3. CASE Fail(p, "unverified")
    BY <1>1, <1>4, <2>1, <2>2, <2>3, FailMove DEF Failed
  <2>4. CASE Return(p, "connected", st)
    <3>1. /\ call'[p].step = "connected" /\ call'[p].state = st
          /\ call'[p].service = call[p].service /\ call'[p].terms = call[p].terms
          /\ call'[p].at = call[p].at
      BY <1>1, <1>6, <2>4, ReturnFacts
    <3>2. CallOK(p)'
      BY <1>3, <1>5, <3>1 DEF CallOK, HeldOK, TokenOK, PublisherOK
    <3> QED BY <1>1, <1>4, <1>6, <2>1, <2>2, <2>4, <3>2, ReturnMove
  <2> QED BY <1>7, <2>3, <2>4 DEF PersistSession, st
<1>8. CASE file' = file /\ Fail(p, "unverified")
  <2>1. WorldOK' BY <1>2, <1>3, <1>8 DEF WorldOK
  <2> QED BY <1>1, <1>3, <1>4, <1>8, <2>1, Backed, FailMove DEF Failed
<1> QED BY <1>7, <1>8 DEF PersistSession, st

LEMMA ReadAuthorityStep ==
  ASSUME IInv, NEW p \in Processes, ReadAuthority(p)
  PROVE  IInv'
<1> USE DEF At
<1>1. call[p].step \in InLock BY DEF ReadAuthority, InLock
<1>2. /\ TypeOK /\ WorldOK /\ ClockOK /\ OneInstallation /\ FileIsBacked
  BY <1>1, InSection
<1>3. UNCHANGED <<clock, file, registered, opened>> BY DEF ReadAuthority
<1>4. Grows /\ clock' \in Nat BY <1>2, <1>3, SameGrows
<1>5. WorldOK' BY <1>2, <1>3 DEF WorldOK
<1>6. OneInstallation' /\ FileIsBacked' /\ ClockOK' BY <1>3, <1>4, Backed
<1>7. CASE Authority(call[p].service) /\ Return(p, "publisher", file)
  <2>1. /\ file # NoFile /\ file \in States /\ file.service = call[p].service
        /\ file.key \in registered[file.service]
    BY <1>2, <1>7 DEF Authority, FileIsBacked, WorldOK
  <2>2. /\ call'[p].step = "publisher" /\ call'[p].state = file
        /\ call'[p].service = call[p].service
    BY <1>1, <1>7, <2>1, ReturnFacts
  <2>3. CallOK(p)'
    BY <1>3, <2>1, <2>2 DEF CallOK, HeldOK, TokenOK, PublisherOK
  <2> QED BY <1>1, <1>4, <1>5, <1>6, <1>7, <2>1, <2>3, ReturnMove
<1>8. CASE Fail(p, "unverified")
  BY <1>1, <1>4, <1>5, <1>6, <1>8, FailMove DEF Failed
<1> QED BY <1>7, <1>8 DEF ReadAuthority

-----------------------------------------------------------------------------
(* The invariant, and what follows from it.                                 *)

LEMMA Initially == Init => IInv
<1> SUFFICES ASSUME Init PROVE IInv OBVIOUS
<1>1. \A p \in Processes : call[p] = NoCall BY DEF Init
<1>2. NoCall = [NoCall EXCEPT !.step = "idle"] BY DEF NoCall
<1>3. TypeOK BY <1>2, TimesAreNat DEF Init, TypeOK, NoCalls
<1>4. LockOK BY <1>1, NoneAssumption DEF Init, LockOK, InLock, NoCall
<1>5. OneInstallation /\ FileIsBacked /\ ClockOK
  BY DEF Init, OneInstallation, FileIsBacked, ClockOK, NoFile, NoSession
<1>6. \A p \in Processes : CallOK(p)
  <2>1. NoCall.step = "idle" BY DEF NoCall
  <2>2. \A p \in Processes : call[p].step = "idle" BY <1>1, <2>1
  <2> QED BY <2>2 DEF CallOK, HeldOK, TokenOK, PublisherOK, At
<1> QED BY <1>3, <1>4, <1>5, <1>6 DEF IInv

LEMMA Inductive == IInv /\ [Next]_vars => IInv'
<1> SUFFICES ASSUME IInv, [Next]_vars PROVE IInv' OBVIOUS
<1>1. CASE UNCHANGED vars
  <2>1. TypeOK' /\ LockOK' /\ ClockOK'
    BY <1>1 DEF vars, IInv, TypeOK, LockOK, ClockOK
  <2>2. OneInstallation' /\ FileIsBacked'
    BY <1>1 DEF vars, IInv, OneInstallation, FileIsBacked
  <2>3. ASSUME NEW p \in Processes PROVE CallOK(p)'
    <3>1. HeldOK(p) /\ TokenOK(p) /\ PublisherOK(p)
      BY DEF IInv, CallOK
    <3>2. HeldOK(p)'
      BY <1>1, <3>1 DEF vars, HeldOK, At
    <3>3. TokenOK(p)' /\ PublisherOK(p)'
      BY <1>1, <3>1 DEF vars, TokenOK, PublisherOK, At
    <3> QED BY <3>2, <3>3 DEF CallOK
  <2> QED BY <2>1, <2>2, <2>3 DEF IInv
<1>2. CASE Tick
  <2>1. CASE Processes = {}
    <3>1. TypeOK /\ ClockOK /\ OneInstallation /\ FileIsBacked BY DEF IInv
    <3>2. clock \in Nat /\ clock' = clock + 1 /\ clock' \in Times /\ clock' \in Nat
          /\ UNCHANGED <<file, holder, call, registered, opened>>
      BY <1>2, <3>1, TimesAreNat, TimesAssumption DEF Tick, TypeOK, Times
    <3>3. Grows BY <3>2 DEF Grows
    <3>4. OneInstallation' /\ FileIsBacked' /\ ClockOK' BY <3>2, <3>3, Backed
    <3>5. TypeOK' BY <3>1, <3>2 DEF TypeOK
    <3> QED BY <2>1, <3>4, <3>5 DEF IInv, LockOK
  <2>2. CASE Processes # {}
    <3>1. PICK p \in Processes : TRUE BY <2>2
    <3> QED BY <1>2, OutsideStep
  <2> QED BY <2>1, <2>2
<1>3. ASSUME NEW p \in Processes,
             \/ \E s \in Services, t \in Terms :
                  Begin(p, s, t) \/ BeginPublisher(p, s, t)
             \/ Kill(p)
      PROVE  IInv'
  BY <1>3, OutsideStep
<1>4. ASSUME NEW p \in Processes, Advance(p) PROVE IInv'
  BY <1>4, OutsideStep, AcquireStep, ReadStateStep, PersistKeyStep, RegisterStep,
     PersistAttestationStep, ReuseTokenStep, OpenSessionStep, PersistSessionStep,
     ReadAuthorityStep DEF Advance
<1> QED BY <1>1, <1>2, <1>3, <1>4 DEF Next

LEMMA Invariant == Spec => []IInv
  BY Initially, Inductive, PTL DEF Spec

\* The types of the variables, for any constants.
THEOREM TypeCorrect == Spec => []TypeOK
<1>1. IInv => TypeOK BY DEF IInv
<1> QED BY <1>1, Invariant, PTL

\* A service only ever sees the one key that the state file holds, whatever
\* is killed, lost or retried (OneInstallation).
THEOREM OneKeyIsRegistered == Spec => []OneInstallation
<1>1. IInv => OneInstallation BY DEF IInv
<1> QED BY <1>1, Invariant, PTL

\* The service has agreed to what the file claims (FileIsBacked).
THEOREM FileTellsTheTruth == Spec => []FileIsBacked
<1>1. IInv => FileIsBacked BY DEF IInv
<1> QED BY <1>1, Invariant, PTL

\* The bearer a caller gets is its service's, under its terms, and had not
\* expired when the call began (TokenFitsCaller).
THEOREM TokensFit == Spec => []TokenFitsCaller
<1>1. IInv => TokenFitsCaller BY DEF IInv, CallOK, TokenOK, TokenFitsCaller
<1> QED BY <1>1, Invariant, PTL

\* A publisher's key is registered (PublisherIsRegistered).
THEOREM PublishersAreRegistered == Spec => []PublisherIsRegistered
<1>1. IInv => PublisherIsRegistered
  BY DEF IInv, CallOK, PublisherOK, PublisherIsRegistered
<1> QED BY <1>1, Invariant, PTL

\* How a step changes the file.
LEMMA FileSteps ==
  ASSUME IInv, Next
  PROVE  \/ file' = file
         \/ file = NoFile
         \/ /\ file' = [file EXCEPT !.attested = TRUE, !.session = NoSession]
            /\ file \in States /\ ~file.attested
         \/ \E session \in Sessions :
              /\ file' = [file EXCEPT !.session = session]
              /\ file \in States /\ file.session.issued <= session.issued
<1>1. TypeOK /\ \A p \in Processes : CallOK(p) BY DEF IInv
<1>2. CASE Tick BY <1>2 DEF Tick
<1>3. ASSUME NEW p \in Processes, NEW s \in Services, NEW t \in Terms,
             Begin(p, s, t) \/ BeginPublisher(p, s, t)
      PROVE  file' = file
  BY <1>3 DEF Begin, BeginPublisher
<1>4. ASSUME NEW p \in Processes, Kill(p) PROVE file' = file BY <1>4 DEF Kill
<1>5. ASSUME NEW p \in Processes,
             \/ Inspect(p) \/ Acquire(p) \/ ReadState(p) \/ Register(p)
             \/ ReuseToken(p) \/ OpenSession(p) \/ ReadAuthority(p)
      PROVE  file' = file
  <2>1. CASE Inspect(p) \/ Acquire(p) \/ ReadState(p) BY <2>1 DEF Inspect, Acquire, ReadState
  <2>2. CASE Register(p) \/ ReuseToken(p) BY <2>2 DEF Register, ReuseToken
  <2>3. CASE OpenSession(p) \/ ReadAuthority(p) BY <2>3 DEF OpenSession, ReadAuthority
  <2> QED BY <1>5, <2>1, <2>2, <2>3
<1>6. ASSUME NEW p \in Processes, PersistKey(p) PROVE file = NoFile
  BY <1>1, <1>6 DEF PersistKey, CallOK, HeldOK, At
<1>7. ASSUME NEW p \in Processes, PersistAttestation(p), file' # file
      PROVE  /\ file' = [file EXCEPT !.attested = TRUE, !.session = NoSession]
             /\ file \in States /\ ~file.attested
  <2>1. file' = call[p].state BY <1>7 DEF PersistAttestation, Replace
  <2> QED BY <1>1, <1>7, <2>1 DEF PersistAttestation, CallOK, HeldOK, At, TypeOK
<1>8. ASSUME NEW p \in Processes, PersistSession(p), file' # file
      PROVE  \E session \in Sessions :
               /\ file' = [file EXCEPT !.session = session]
               /\ file \in States /\ file.session.issued <= session.issued
  <2>1. file' = call[p].state BY <1>8 DEF PersistSession
  <2>2. /\ file # NoFile /\ call[p].state.session \in Sessions
        /\ call[p].state = [file EXCEPT !.session = call[p].state.session]
        /\ file.session.issued <= call[p].state.session.issued
    BY <1>1, <1>8 DEF PersistSession, CallOK, HeldOK, At
  <2>3. file \in States BY <1>1, <2>2 DEF TypeOK
  <2> QED BY <2>1, <2>2, <2>3
<1> QED BY <1>2, <1>3, <1>4, <1>5, <1>6, <1>7, <1>8 DEF Next, Advance

\* The identity is never replaced and an attestation is never lost
\* (IdentityIsKept).
THEOREM IdentitiesAreKept == Spec => IdentityIsKept
<1>1. IInv /\ [Next]_vars =>
        [file # NoFile => /\ file'.service = file.service
                          /\ file'.key = file.key
                          /\ file.attested => file'.attested]_vars
  <2> SUFFICES ASSUME IInv, Next, file # NoFile
               PROVE  /\ file'.service = file.service
                      /\ file'.key = file.key
                      /\ file.attested => file'.attested
    BY DEF vars
  <2> QED BY FileSteps DEF States
<1> QED BY <1>1, Invariant, PTL DEF Spec, IdentityIsKept

\* An old bearer never replaces a later one (SessionsAdvance).
THEOREM SessionsOnlyAdvance == Spec => SessionsAdvance
<1>1. IInv /\ [Next]_vars =>
        [file.session # NoSession =>
           /\ file'.session # NoSession
           /\ file.session.issued <= file'.session.issued]_vars
  <2> SUFFICES ASSUME IInv, Next, file.session # NoSession
               PROVE  /\ file'.session # NoSession
                      /\ file.session.issued <= file'.session.issued
    BY DEF vars
  <2>1. TypeOK /\ FileIsBacked BY DEF IInv
  <2>2. file # NoFile BY DEF NoFile
  <2>3. file \in States /\ file.attested /\ file.session \in Sessions
    BY <2>1, <2>2 DEF TypeOK, FileIsBacked, States
  <2>4. CASE file' = file
    <3>1. file.session.issued \in Nat BY <2>3, TimesAreNat DEF Sessions
    <3> QED BY <2>4, <3>1
  <2>5. ASSUME NEW session \in Sessions,
               file' = [file EXCEPT !.session = session],
               file.session.issued <= session.issued
        PROVE  /\ file'.session # NoSession
               /\ file.session.issued <= file'.session.issued
    <3>1. session # NoSession BY NoneAssumption DEF Sessions, NoSession
    <3> QED BY <2>3, <2>5, <3>1 DEF States
  <2> QED BY <2>2, <2>3, <2>4, <2>5, FileSteps
<1> QED BY <1>1, Invariant, PTL DEF Spec, SessionsAdvance
=============================================================================
