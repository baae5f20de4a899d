--------------------------- MODULE ServiceTrustProofs ---------------------------
(***************************************************************************)
(* Theorems about ServiceTrust, for any number of threads, keys, rotations *)
(* and documents and every lifetime.                                       *)
(*                                                                         *)
(* The service only grows: a rotation takes effect after it is published,  *)
(* and a document is dated when it is published.  So what a client read at *)
(* a time it has already passed stays right of that time, whatever the     *)
(* service publishes between its two requests or afterwards.  The lock     *)
(* gives each connector one inspection at a time, and the monotonic clock   *)
(* the cache is kept by never runs faster than the documents' clock.        *)
(***************************************************************************)
EXTENDS ServiceTrust, FiniteSetTheorems, SequenceTheorems, TLAPS

-----------------------------------------------------------------------------
(* The service.                                                             *)

Docs == [root : Nat, sequence : Nat, keys : SUBSET KeyPool, issued : Times, expires : Nat]

ServiceOK ==
  /\ clock \in Times /\ mono \in Nat /\ mono <= clock
  /\ chain \in Seq(Times) /\ Len(chain) <= MaxRotations
  /\ documents \in Seq(Docs) /\ Len(documents) \in 1..MaxDocuments

\* What a step may do to the service and its clock.
Grows ==
  /\ clock' \in Times /\ clock <= clock'
  /\ mono' \in Nat /\ mono' <= clock' /\ mono <= mono' /\ mono' + clock <= mono + clock'
  /\ chain' \in Seq(Times) /\ Len(chain') <= MaxRotations /\ Len(chain) <= Len(chain')
  /\ \A i \in 1..Len(chain) : chain'[i] = chain[i]
  /\ \A i \in (Len(chain) + 1)..Len(chain') : clock < chain'[i]
  /\ documents' \in Seq(Docs) /\ Len(documents') <= MaxDocuments
  /\ Len(documents) <= Len(documents')
  /\ \A i \in 1..Len(documents) : documents'[i] = documents[i]
  /\ \A i \in (Len(documents) + 1)..Len(documents') : clock <= documents'[i].issued

LEMMA RootIsNatural ==
  ASSUME NEW n \in Nat, NEW at PROVE RootAt(n, at) \in Nat
<1>1. IsFiniteSet(1..n) BY FS_Interval
<1>2. IsFiniteSet({i \in 1..n : chain[i] <= at}) BY <1>1, FS_Subset
<1> QED BY <1>2, FS_CardinalityType DEF RootAt

LEMMA QuietGrows ==
  ASSUME ServiceOK, UNCHANGED <<clocks, service>>
  PROVE  Grows
<1>1. clock' = clock /\ mono' = mono /\ chain' = chain /\ documents' = documents
  BY DEF service, clocks
<1>2. Len(chain) \in Nat /\ Len(documents) \in Nat /\ clock \in Nat /\ mono \in Nat
  BY LenProperties DEF ServiceOK, Times
<1> QED BY <1>1, <1>2 DEF ServiceOK, Grows

LEMMA RotationGrows ==
  ASSUME ServiceOK, NEW effective \in Times, PublishRotation(effective)
  PROVE  Grows
<1>1. /\ chain' = Append(chain, effective) /\ clock < effective
      /\ Len(chain) < MaxRotations /\ UNCHANGED <<clock, mono, documents>>
  BY DEF PublishRotation, clocks
<1>2. Len(chain) \in Nat /\ Len(documents) \in Nat /\ clock \in Nat /\ MaxRotations \in Nat
  BY LenProperties, SecondsAssumption DEF ServiceOK, Times
<1>3. /\ chain' \in Seq(Times) /\ Len(chain') = Len(chain) + 1
      /\ \A i \in 1..Len(chain) : chain'[i] = chain[i]
      /\ chain'[Len(chain) + 1] = effective
  BY <1>1, AppendProperties DEF ServiceOK
<1>4. \A i \in (Len(chain) + 1)..Len(chain') : clock < chain'[i] BY <1>1, <1>2, <1>3
<1> QED BY <1>1, <1>2, <1>3, <1>4 DEF ServiceOK, Grows

LEMMA DiscoveryGrows ==
  ASSUME ServiceOK, NEW o \in Offers, PublishDiscovery(o.keys, o.lifetime)
  PROVE  Grows
<1> DEFINE d == Document(o.keys, o.lifetime)
<1>1. /\ documents' = Append(documents, d) /\ Len(documents) < MaxDocuments
      /\ UNCHANGED <<clock, mono, chain>>
  BY DEF PublishDiscovery, clocks
<1>2. Len(chain) \in Nat /\ Len(documents) \in Nat /\ clock \in Nat /\ MaxDocuments \in Nat
  BY LenProperties, SecondsAssumption DEF ServiceOK, Times
<1>3. d \in Docs /\ d.issued = clock
  <2>1. clock \in Times BY DEF ServiceOK
  <2> QED BY <1>2, <2>1, RootIsNatural, SecondsAssumption DEF Document, Docs
<1> HIDE DEF d
<1>4. /\ documents' \in Seq(Docs) /\ Len(documents') = Len(documents) + 1
      /\ \A i \in 1..Len(documents) : documents'[i] = documents[i]
      /\ documents'[Len(documents) + 1] = d
  BY <1>1, <1>3, AppendProperties DEF ServiceOK
<1>5. \A i \in (Len(documents) + 1)..Len(documents') : clock <= documents'[i].issued
  BY <1>2, <1>3, <1>4
<1> QED BY <1>1, <1>2, <1>4, <1>5 DEF ServiceOK, Grows

LEMMA TimeGrows ==
  ASSUME ServiceOK, Tick \/ Suspend
  PROVE  Grows
<1>1. /\ clock' = clock + 1 /\ clock < MaxTime /\ mono' \in {mono, mono + 1}
      /\ UNCHANGED <<chain, documents>>
  BY DEF Tick, Suspend
<1>2. /\ Len(chain) \in Nat /\ Len(documents) \in Nat /\ clock \in Nat /\ MaxTime \in Nat
      /\ mono \in Nat /\ mono <= clock
  BY LenProperties, SecondsAssumption DEF ServiceOK, Times
<1>3. clock' \in Times /\ clock <= clock' BY <1>1, <1>2 DEF Times
<1>4. mono' \in Nat /\ mono' <= clock' /\ mono <= mono' /\ mono' + clock <= mono + clock'
  <2>1. CASE mono' = mono BY <1>1, <1>2, <2>1
  <2>2. CASE mono' = mono + 1 BY <1>1, <1>2, <2>2
  <2> QED BY <1>1, <2>1, <2>2
<1>5. /\ Len(chain') = Len(chain) /\ Len(documents') = Len(documents)
      /\ chain' = chain /\ documents' = documents
  BY <1>1
<1>6. /\ \A i \in (Len(chain) + 1)..Len(chain') : clock < chain'[i]
      /\ \A i \in (Len(documents) + 1)..Len(documents') : clock <= documents'[i].issued
  BY <1>2, <1>5
<1>7. /\ chain' \in Seq(Times) /\ Len(chain') <= MaxRotations
      /\ documents' \in Seq(Docs) /\ Len(documents') <= MaxDocuments
  BY <1>5, SecondsAssumption DEF ServiceOK
<1>8. /\ \A i \in 1..Len(chain) : chain'[i] = chain[i]
      /\ \A i \in 1..Len(documents) : documents'[i] = documents[i]
  BY <1>5
<1>9. Len(chain) <= Len(chain') /\ Len(documents) <= Len(documents') BY <1>2, <1>5
<1> QED BY <1>3, <1>4, <1>6, <1>7, <1>8, <1>9 DEF Grows

LEMMA GrownTypes ==
  ASSUME ServiceOK, Grows
  PROVE  /\ clock \in Nat /\ clock' \in Nat /\ clock <= clock'
         /\ mono \in Nat /\ mono' \in Nat /\ mono <= mono' /\ mono' + clock <= mono + clock'
         /\ Len(chain) \in Nat /\ Len(chain') \in Nat
         /\ Len(documents) \in Nat /\ Len(documents') \in Nat
         /\ \A i \in 1..Len(chain') : chain'[i] \in Nat
         /\ \A i \in 1..Len(documents') : documents'[i].issued \in Nat
<1>1. /\ chain \in Seq(Times) /\ documents \in Seq(Docs)
      /\ chain' \in Seq(Times) /\ documents' \in Seq(Docs)
  BY DEF ServiceOK, Grows
<1>2. /\ Len(chain) \in Nat /\ Len(chain') \in Nat
      /\ Len(documents) \in Nat /\ Len(documents') \in Nat
  BY <1>1, LenProperties
<1>3. ASSUME NEW i \in 1..Len(chain') PROVE chain'[i] \in Nat
  <2>1. chain'[i] \in Times BY <1>1, ElementOfSeq
  <2> QED BY <2>1 DEF Times
<1>4. ASSUME NEW i \in 1..Len(documents') PROVE documents'[i].issued \in Nat
  <2>1. documents'[i] \in Docs BY <1>1, ElementOfSeq
  <2> QED BY <2>1 DEF Docs, Times
<1>5. /\ clock \in Nat /\ clock' \in Nat /\ clock <= clock'
      /\ mono \in Nat /\ mono' \in Nat /\ mono <= mono' /\ mono' + clock <= mono + clock'
  <2>1. clock \in Nat /\ clock' \in Nat /\ clock <= clock' BY DEF ServiceOK, Grows, Times
  <2>2. mono \in Nat /\ mono' \in Nat /\ mono <= mono' BY DEF ServiceOK, Grows
  <2>3. mono' + clock <= mono + clock' BY DEF Grows
  <2> QED BY <2>1, <2>2, <2>3
<1> QED BY <1>2, <1>3, <1>4, <1>5

\* Two clocks go on from one reading to the next, and to a third.
LEMMA NoFaster ==
  ASSUME NEW m0 \in Nat, NEW m1 \in Nat, NEW m2 \in Nat,
         NEW w0 \in Nat, NEW w1 \in Nat, NEW w2 \in Nat,
         m1 + w0 <= m0 + w1, m2 + w1 <= m1 + w2
  PROVE  m2 + w0 <= m0 + w2
  OBVIOUS

\* What was in force at a time that has passed, was and remains so.
LEMMA RootStays ==
  ASSUME ServiceOK, Grows, NEW at \in Times, at <= clock
  PROVE  RootAt(Len(chain), at)' = RootAt(Len(chain), at)
<1>1. /\ Len(chain) \in Nat /\ Len(chain') \in Nat /\ clock \in Nat /\ at \in Nat
      /\ \A i \in 1..Len(chain') : chain'[i] \in Nat
  BY GrownTypes DEF Times
<1>2. \A i \in 1..Len(chain') : chain'[i] <= at => i \in 1..Len(chain)
  <2> SUFFICES ASSUME NEW i \in 1..Len(chain'), i \notin 1..Len(chain)
               PROVE  ~ (chain'[i] <= at)
    OBVIOUS
  <2>1. i \in (Len(chain) + 1)..Len(chain') BY <1>1
  <2>2. clock < chain'[i] BY <2>1 DEF Grows
  <2> QED BY <1>1, <2>2
<1>3. {i \in 1..Len(chain') : chain'[i] <= at} = {i \in 1..Len(chain) : chain[i] <= at}
  BY <1>1, <1>2 DEF Grows
<1> QED BY <1>3 DEF RootAt

-----------------------------------------------------------------------------
(* What a client believes.                                                  *)

\* A verified discovery is what it was verified as: of its document, at its
\* time, and later documents are dated no earlier.
Right(v) ==
  /\ v.document \in 1..Len(documents)
  /\ documents[v.document].root = RootAt(Len(chain), v.at)
  /\ v.keys = ActiveKeys(documents[v.document], v.at)
  /\ v.at <= v.kept /\ v.kept <= clock
  /\ v.keptMono <= mono /\ mono + v.kept <= v.keptMono + clock
  /\ v.at <= documents[v.document].expires
  /\ \A i \in (v.document + 1)..Len(documents) : v.at <= documents[i].issued

LEMMA RightStays ==
  ASSUME ServiceOK, Grows, NEW v \in Trusted, Right(v)
  PROVE  Right(v)'
<1>1. /\ v.at \in Times /\ v.kept \in Times /\ v.at \in Nat /\ v.kept \in Nat
      /\ v.keptMono \in Nat /\ v.document \in Nat
  BY DEF Trusted, Times
<1>2. clock \in Nat /\ clock' \in Nat /\ v.at <= clock /\ v.kept <= clock'
  BY <1>1 DEF ServiceOK, Grows, Right, Times
<1>3. /\ v.document \in 1..Len(documents') /\ documents'[v.document] = documents[v.document]
      /\ Len(documents) \in Nat /\ Len(documents') \in Nat
  BY LenProperties DEF ServiceOK, Grows, Right
<1>4. RootAt(Len(chain), v.at)' = RootAt(Len(chain), v.at) BY <1>1, <1>2, RootStays
<1>5. \A i \in 1..Len(documents') : documents'[i].issued \in Nat
  BY GrownTypes
<1>6. ASSUME NEW i \in (v.document + 1)..Len(documents') PROVE v.at <= documents'[i].issued
  <2>1. CASE i <= Len(documents)
    <3>1. i \in (v.document + 1)..Len(documents) /\ i \in 1..Len(documents)
      BY <1>1, <1>3, <2>1
    <3> QED BY <3>1 DEF Right, Grows
  <2>2. CASE ~ (i <= Len(documents))
    <3>1. i \in (Len(documents) + 1)..Len(documents') BY <1>1, <1>3, <2>2
    <3>2. clock <= documents'[i].issued /\ i \in 1..Len(documents')
      BY <1>3, <3>1 DEF Grows
    <3> QED BY <1>1, <1>2, <1>5, <3>2
  <2> QED BY <2>1, <2>2
<1>7. v.keys = ActiveKeys(documents'[v.document], v.at)
  BY <1>3 DEF Right, ActiveKeys
<1>8. v.at <= documents'[v.document].expires BY <1>3 DEF Right
<1>9. documents'[v.document].root = RootAt(Len(chain), v.at)' BY <1>3, <1>4 DEF Right
<1>10. v.at <= v.kept BY DEF Right
<1>11. v.keptMono <= mono' /\ mono' + v.kept <= v.keptMono + clock'
  <2>1. v.keptMono <= mono /\ mono + v.kept <= v.keptMono + clock BY DEF Right
  <2>2. /\ clock \in Nat /\ clock' \in Nat /\ mono \in Nat /\ mono' \in Nat
        /\ mono <= mono' /\ mono' + clock <= mono + clock'
    BY GrownTypes
  <2>3. v.keptMono <= mono' BY <1>1, <2>1, <2>2
  <2>4. mono' + v.kept <= v.keptMono + clock' BY <1>1, <2>1, <2>2, NoFaster
  <2> QED BY <2>3, <2>4
<1> QED BY <1>2, <1>3, <1>6, <1>7, <1>8, <1>9, <1>10, <1>11 DEF Right

EntryOK(e) ==
  /\ Right(e.verified)
  /\ e.until = e.verified.keptMono
       + Smaller(CacheSeconds, documents[e.verified.document].expires - e.verified.at)

CacheOK ==
  /\ cache \in [Connectors -> {None, NotMade} \cup CacheEntries]
  /\ \A c \in Connectors : cache[c] \notin {None, NotMade} => EntryOK(cache[c])

\* A thread that holds a discovery got it in time, by the clock that was asked,
\* and that clock ran no faster than the other.
InTime(c) ==
  /\ c.got <= clock /\ c.gotMono <= mono
  /\ c.gotMono + c.trusted.kept <= c.trusted.keptMono + c.got
  /\ c.gotMono <= c.trusted.keptMono + CacheSeconds
  /\ c.gotMono <= c.trusted.keptMono + documents[c.trusted.document].expires - c.trusted.at

Inspecting == {"roots", "discovery", "verify"}

RootsRead(c) ==
  /\ c.roots <= Len(chain)
  /\ \A i \in (c.roots + 1)..Len(chain) : c.at < chain[i]

DocumentRead(c) ==
  /\ c.document \in 1..Len(documents)
  /\ \A i \in (c.document + 1)..Len(documents) : c.at <= documents[i].issued
  /\ cache[c.connector] # None => cache[c.connector].verified.document <= c.document

CallOK(t, c) ==
  /\ c.step \in Inspecting \cup {"idle"} => c.trusted = None
  /\ c.step \in Inspecting =>
       cache[c.connector] # NotMade /\ lock[c.connector] = t /\ c.at <= clock
  /\ c.step \in {"discovery", "verify"} => RootsRead(c)
  /\ c.step = "verify" => DocumentRead(c)
  /\ c.step \in {"trusted", "sent", "fetched"} => c.trusted # None
  /\ c.trusted # None => Right(c.trusted) /\ InTime(c)
  /\ c.step = "fetched" => c.result.key \in c.trusted.keys

CallsOK ==
  /\ call \in [Threads -> Calls]
  /\ lock \in [Connectors -> Threads \cup {None}]
  /\ \A t \in Threads : CallOK(t, call[t])

TrustInv == ServiceOK /\ CacheOK /\ CallsOK

\* What the service does leaves every entry and every call as right as it was.
LEMMA EntryStays ==
  ASSUME ServiceOK, Grows, NEW e \in CacheEntries, EntryOK(e)
  PROVE  EntryOK(e)'
<1>1. e.verified \in Trusted BY DEF CacheEntries
<1>2. Right(e.verified)' BY <1>1, RightStays DEF EntryOK
<1>3. documents'[e.verified.document] = documents[e.verified.document]
  BY DEF EntryOK, Right, Grows
<1> QED BY <1>2, <1>3 DEF EntryOK

LEMMA RootsReadStays ==
  ASSUME ServiceOK, Grows, NEW c \in Calls, RootsRead(c), c.at <= clock
  PROVE  RootsRead(c)'
<1>1. /\ Len(chain) \in Nat /\ Len(chain') \in Nat /\ clock \in Nat
      /\ c.at \in Nat /\ c.roots \in Nat
  BY LenProperties DEF ServiceOK, Grows, Times, Calls
<1>2. \A i \in 1..Len(chain') : chain'[i] \in Nat BY GrownTypes
<1>3. ASSUME NEW i \in (c.roots + 1)..Len(chain') PROVE c.at < chain'[i]
  <2>1. CASE i <= Len(chain)
    <3>1. i \in (c.roots + 1)..Len(chain) /\ i \in 1..Len(chain) BY <1>1, <2>1
    <3> QED BY <3>1 DEF RootsRead, Grows
  <2>2. CASE ~ (i <= Len(chain))
    <3>1. i \in (Len(chain) + 1)..Len(chain') /\ i \in 1..Len(chain') BY <1>1, <2>2
    <3>2. clock < chain'[i] BY <3>1 DEF Grows
    <3> QED BY <1>1, <1>2, <3>1, <3>2
  <2> QED BY <2>1, <2>2
<1>4. c.roots <= Len(chain') BY <1>1 DEF RootsRead, Grows
<1> QED BY <1>3, <1>4 DEF RootsRead

LEMMA DocumentsDated ==
  ASSUME ServiceOK, Grows, NEW n \in 1..Len(documents), NEW at \in Nat, at <= clock,
         \A i \in (n + 1)..Len(documents) : at <= documents[i].issued
  PROVE  /\ n \in 1..Len(documents')
         /\ \A i \in (n + 1)..Len(documents') : at <= documents'[i].issued
<1>1. Len(documents) \in Nat /\ Len(documents') \in Nat /\ clock \in Nat
  BY LenProperties DEF ServiceOK, Grows, Times
<1>2. \A i \in 1..Len(documents') : documents'[i].issued \in Nat
  BY GrownTypes
<1>3. ASSUME NEW i \in (n + 1)..Len(documents') PROVE at <= documents'[i].issued
  <2>1. CASE i <= Len(documents)
    <3>1. i \in (n + 1)..Len(documents) /\ i \in 1..Len(documents) BY <1>1, <2>1
    <3> QED BY <3>1 DEF Grows
  <2>2. CASE ~ (i <= Len(documents))
    <3>1. i \in (Len(documents) + 1)..Len(documents') /\ i \in 1..Len(documents')
      BY <1>1, <2>2
    <3>2. clock <= documents'[i].issued BY <3>1 DEF Grows
    <3> QED BY <1>1, <1>2, <3>1, <3>2
  <2> QED BY <2>1, <2>2
<1> QED BY <1>1, <1>3 DEF Grows

LEMMA InTimeStays ==
  ASSUME ServiceOK, Grows, NEW c \in Calls, c.trusted \in Trusted,
         Right(c.trusted), InTime(c)
  PROVE  Right(c.trusted)' /\ InTime(c)'
<1>1. Right(c.trusted)' BY RightStays
<1>2. documents'[c.trusted.document] = documents[c.trusted.document] BY DEF Right, Grows
<1>3. /\ clock \in Nat /\ clock' \in Nat /\ c.got \in Nat
      /\ mono \in Nat /\ mono' \in Nat /\ c.gotMono \in Nat
  BY GrownTypes DEF Times, Calls
<1>4. c.got <= clock' /\ c.gotMono <= mono' BY <1>3 DEF InTime, Grows
<1> QED BY <1>1, <1>2, <1>4 DEF InTime

\* A call stays right when its thread does nothing, whatever the service and
\* the other threads do.
LEMMA CallStays ==
  ASSUME ServiceOK, Grows, NEW t \in Threads, NEW c \in Calls, CallOK(t, c),
         lock[c.connector] = t => lock'[c.connector] = t,
         cache[c.connector] # NotMade => cache'[c.connector] # NotMade,
         lock[c.connector] = t => cache'[c.connector] = cache[c.connector]
  PROVE  CallOK(t, c)'
<1>1. clock \in Nat /\ clock' \in Nat /\ c.at \in Nat
  BY DEF ServiceOK, Grows, Times, Calls
<1>2. c.step \in Inspecting => c.at <= clock /\ c.at <= clock' /\ lock[c.connector] = t
  BY <1>1 DEF CallOK, Grows
<1>3. c.step \in {"discovery", "verify"} => RootsRead(c)'
  BY <1>2, RootsReadStays DEF CallOK, Inspecting
<1>4. c.step = "verify" => DocumentRead(c)'
  <2> SUFFICES ASSUME c.step = "verify" PROVE DocumentRead(c)' OBVIOUS
  <2>1. DocumentRead(c) /\ c.at <= clock /\ cache'[c.connector] = cache[c.connector]
    BY <1>2 DEF CallOK, Inspecting
  <2>2. /\ c.document \in 1..Len(documents')
        /\ \A i \in (c.document + 1)..Len(documents') : c.at <= documents'[i].issued
    BY <1>1, <2>1, DocumentsDated DEF DocumentRead
  <2> QED BY <2>1, <2>2 DEF DocumentRead
<1>5. c.trusted # None => Right(c.trusted)' /\ InTime(c)'
  BY InTimeStays DEF CallOK, Calls
<1> QED BY <1>2, <1>3, <1>4, <1>5 DEF CallOK

-----------------------------------------------------------------------------
(* The steps.                                                               *)

LEMMA CacheStays ==
  ASSUME ServiceOK, Grows, CacheOK, UNCHANGED cache
  PROVE  CacheOK'
<1>1. ASSUME NEW c \in Connectors, cache[c] \notin {None, NotMade}
      PROVE  EntryOK(cache[c])'
  <2>1. cache[c] \in CacheEntries /\ EntryOK(cache[c]) BY <1>1 DEF CacheOK
  <2>2. PICK e \in CacheEntries : e = cache[c] /\ EntryOK(e) BY <2>1
  <2>3. EntryOK(e)' BY <2>2, EntryStays
  <2> QED BY <2>2, <2>3
<1> QED BY <1>1 DEF CacheOK

LEMMA ServiceGrown == ASSUME Grows, ServiceOK PROVE ServiceOK'
<1>1. Len(documents') \in 1..MaxDocuments BY GrownTypes DEF Grows, ServiceOK
<1> QED BY <1>1 DEF Grows, ServiceOK

\* The service publishes, or time passes.
LEMMA ServiceStep ==
  ASSUME TrustInv, Grows, UNCHANGED <<lock, cache, call>>
  PROVE  TrustInv'
<1>1. ServiceOK' /\ CacheOK' BY ServiceGrown, CacheStays DEF TrustInv
<1>2. ASSUME NEW t \in Threads PROVE CallOK(t, call[t])'
  <2>1. PICK c \in Calls : c = call[t] /\ CallOK(t, c) BY DEF TrustInv, CallsOK
  <2>2. CallOK(t, c)' BY <2>1, CallStays DEF TrustInv
  <2> QED BY <2>1, <2>2
<1>3. CallsOK' BY <1>2 DEF TrustInv, CallsOK
<1> QED BY <1>1, <1>3 DEF TrustInv

\* A thread takes a step: its own call is right afterwards, and it has changed
\* only the lock that it takes or leaves and the cache of a connector it holds.
LEMMA CallerStep ==
  ASSUME TrustInv, UNCHANGED <<clocks, service>>,
         NEW t \in Threads, NEW c \in Calls, call' = [call EXCEPT ![t] = c],
         CacheOK', lock' \in [Connectors -> Threads \cup {None}],
         \A x \in Connectors : \A u \in Threads \ {t} : lock[x] = u => lock'[x] = u,
         \A x \in Connectors :
           cache'[x] = cache[x] \/ (lock[x] = t /\ cache'[x] # NotMade),
         CallOK(t, c)'
  PROVE  TrustInv'
<1>1. Grows /\ ServiceOK' BY QuietGrows, ServiceGrown DEF TrustInv
<1>2. /\ call' \in [Threads -> Calls] /\ call'[t] = c
      /\ \A u \in Threads \ {t} : call'[u] = call[u]
  BY DEF TrustInv, CallsOK
<1>3. ASSUME NEW u \in Threads PROVE CallOK(u, call[u])'
  <2>1. CASE u = t
    <3>1. call'[u] = c BY <1>2, <2>1
    <3> QED BY <2>1, <3>1 DEF CallOK, Right, InTime, RootsRead, DocumentRead
  <2>2. CASE u # t
    <3>1. PICK d \in Calls : d = call[u] /\ d = call'[u] /\ CallOK(u, d)
      BY <1>2, <2>2 DEF TrustInv, CallsOK
    <3>2. d.connector \in Connectors BY DEF Calls
    <3>3. CallOK(u, d)' BY <1>1, <2>2, <3>1, <3>2, CallStays DEF TrustInv
    <3> QED BY <3>1, <3>3
  <2> QED BY <2>1, <2>2
<1>4. CallsOK' BY <1>2, <1>3 DEF CallsOK
<1> QED BY <1>1, <1>4 DEF TrustInv

\* A thread takes a step that changes only its call.
LEMMA QuietStep ==
  ASSUME TrustInv, UNCHANGED <<clocks, service, lock, cache>>,
         NEW t \in Threads, NEW c \in Calls, call' = [call EXCEPT ![t] = c],
         CallOK(t, c)
  PROVE  TrustInv'
<1>1. Grows BY QuietGrows DEF TrustInv
<1>2. CacheOK' BY <1>1, CacheStays DEF TrustInv
<1>3. CallOK(t, c)' BY <1>1, CallStays DEF TrustInv
<1>4. lock' \in [Connectors -> Threads \cup {None}] BY DEF TrustInv, CallsOK
<1> QED BY <1>2, <1>3, <1>4, CallerStep

LEMMA CallOf ==
  ASSUME TrustInv, NEW t \in Threads
  PROVE  /\ call[t] \in Calls /\ CallOK(t, call[t]) /\ call \in [Threads -> Calls]
         /\ call[t].connector \in Connectors
         /\ clock \in Times /\ clock \in Nat /\ mono \in Times /\ mono \in Nat
<1>1. clock \in Nat /\ mono \in Nat /\ clock \in Times /\ mono \in Times
  BY SecondsAssumption DEF TrustInv, ServiceOK, Times
<1> QED BY <1>1 DEF TrustInv, CallsOK, Calls

\* A call that has nothing is right.
LEMMA NewCallOK ==
  /\ NewCall \in Calls
  /\ \A t : CallOK(t, NewCall)
<1>1. 0 \in Times /\ 0 \in 0..MaxRotations /\ 0 \in 0..MaxDocuments
  BY SecondsAssumption DEF Times
<1>2. NewCall \in Calls BY <1>1 DEF NewCall, Calls, Connectors
<1>3. \A t : CallOK(t, NewCall) BY DEF CallOK, NewCall, Inspecting
<1> QED BY <1>2, <1>3

LEMMA InitTrustInv == Init => TrustInv
<1> SUFFICES ASSUME Init PROVE TrustInv OBVIOUS
<1>1. ServiceOK
  <2>1. PICK o \in Offers :
          documents = <<[root |-> 0, sequence |-> 0, keys |-> o.keys, issued |-> 0,
                         expires |-> o.lifetime]>>
    BY DEF Init
  <2> DEFINE d == [root |-> 0, sequence |-> 0, keys |-> o.keys, issued |-> 0,
                   expires |-> o.lifetime]
  <2>2. d \in Docs BY SecondsAssumption DEF Docs, Times
  <2> HIDE DEF d
  <2>3. <<d>> \in Seq(Docs) /\ Len(<<d>>) = 1 BY <2>2
  <2>4. documents \in Seq(Docs) /\ Len(documents) = 1 BY <2>1, <2>3 DEF d
  <2>5. chain \in Seq(Times) /\ Len(chain) = 0 BY EmptySeq DEF Init
  <2>6. clock \in Times /\ mono \in Nat /\ mono <= clock BY SecondsAssumption DEF Init, Times
  <2> QED BY <2>4, <2>5, <2>6, SecondsAssumption DEF ServiceOK
<1>2. CacheOK BY DEF Init, CacheOK
<1>3. CallsOK BY NewCallOK DEF Init, CallsOK
<1> QED BY <1>1, <1>2, <1>3 DEF TrustInv

LEMMA UseCacheStep ==
  ASSUME TrustInv, NEW t \in Threads, NEW k \in Connectors, UseCache(t, k)
  PROVE  TrustInv'
<1> DEFINE e == cache[k]
           c == [call[t] EXCEPT !.step = "trusted", !.trusted = e.verified,
                                !.got = clock, !.gotMono = mono]
<1>1. /\ cache[k] \notin {None, NotMade} /\ mono < cache[k].until
      /\ UNCHANGED <<clocks, service, lock, cache>>
      /\ call' = [call EXCEPT ![t] = c]
  BY CallOf DEF UseCache, Enters
<1>2. e \in CacheEntries /\ EntryOK(e) BY <1>1 DEF TrustInv, CacheOK
<1>3. e.verified \in Trusted /\ e.verified # None /\ Right(e.verified)
  BY <1>2, NamesAssumption DEF CacheEntries, EntryOK
<1>4. /\ e.verified.at \in Nat /\ e.verified.kept \in Nat /\ e.verified.keptMono \in Nat
      /\ CacheSeconds \in Nat /\ documents[e.verified.document].expires \in Nat
  <2>1. documents \in Seq(Docs) /\ e.verified.document \in 1..Len(documents)
    BY <1>3 DEF TrustInv, ServiceOK, Right
  <2>2. documents[e.verified.document] \in Docs BY <2>1, ElementOfSeq
  <2> QED BY <1>3, <2>2, SecondsAssumption DEF Trusted, Times, Docs
<1>5. /\ mono <= e.verified.keptMono + CacheSeconds
      /\ mono <= e.verified.keptMono + documents[e.verified.document].expires - e.verified.at
  <2>1. e.until = e.verified.keptMono
          + Smaller(CacheSeconds, documents[e.verified.document].expires - e.verified.at)
    BY <1>2 DEF EntryOK
  <2> QED BY <1>1, <1>4, <2>1, CallOf DEF Smaller
<1>6. /\ c \in Calls /\ c.step = "trusted" /\ c.trusted = e.verified
      /\ c.got = clock /\ c.gotMono = mono
  BY <1>3, CallOf DEF Calls
<1> HIDE DEF c, e
<1>7. mono + e.verified.kept <= e.verified.keptMono + clock BY <1>3 DEF Right
<1>8. InTime(c) BY <1>5, <1>6, <1>7, CallOf DEF InTime
<1>9. CallOK(t, c) BY <1>3, <1>6, <1>8 DEF CallOK, Inspecting
<1> QED BY <1>1, <1>6, <1>9, QuietStep

LEMMA ReadRootsStep ==
  ASSUME TrustInv, NEW t \in Threads, ReadRoots(t)
  PROVE  TrustInv'
<1> DEFINE c == [call[t] EXCEPT !.step = "discovery", !.roots = Len(chain)]
<1>1. /\ call[t].step = "roots" /\ UNCHANGED <<clocks, service, lock, cache>>
      /\ call' = [call EXCEPT ![t] = c]
  BY CallOf DEF ReadRoots
<1>2. Len(chain) \in 0..MaxRotations BY LenProperties, SecondsAssumption DEF TrustInv, ServiceOK
<1>3. /\ c \in Calls /\ c.step = "discovery" /\ c.roots = Len(chain)
      /\ c.connector = call[t].connector /\ c.at = call[t].at
      /\ c.trusted = call[t].trusted
  BY <1>2, CallOf DEF Calls
<1> HIDE DEF c
<1>4. RootsRead(c) BY <1>2, <1>3 DEF RootsRead
<1>5. CallOK(t, c) BY <1>1, <1>3, <1>4, CallOf DEF CallOK, Inspecting
<1> QED BY <1>1, <1>3, <1>5, QuietStep

LEMMA ReadDiscoveryStep ==
  ASSUME TrustInv, NEW t \in Threads, ReadDiscovery(t)
  PROVE  TrustInv'
<1> DEFINE c == [call[t] EXCEPT !.step = "verify", !.document = Len(documents)]
<1>1. /\ call[t].step = "discovery" /\ UNCHANGED <<clocks, service, lock, cache>>
      /\ call' = [call EXCEPT ![t] = c]
  BY CallOf DEF ReadDiscovery
<1>2. Len(documents) \in 1..MaxDocuments /\ Len(documents) \in 0..MaxDocuments
  BY SecondsAssumption DEF TrustInv, ServiceOK
<1>3. /\ c \in Calls /\ c.step = "verify" /\ c.document = Len(documents)
      /\ c.connector = call[t].connector /\ c.at = call[t].at /\ c.roots = call[t].roots
      /\ c.trusted = call[t].trusted
  BY <1>2, CallOf DEF Calls
<1> HIDE DEF c
<1>4. DocumentRead(c)
  <2>1. cache[c.connector] # NotMade /\ c.connector \in Connectors
    BY <1>1, <1>3, CallOf DEF CallOK, Inspecting
  <2>2. cache[c.connector] # None =>
          cache[c.connector].verified.document \in 1..Len(documents)
    BY <2>1 DEF TrustInv, CacheOK, EntryOK, Right
  <2> QED BY <1>2, <1>3, <2>2 DEF DocumentRead
<1>5. RootsRead(c) BY <1>1, <1>3, CallOf DEF CallOK, RootsRead
<1>6. CallOK(t, c) BY <1>1, <1>3, <1>4, <1>5, CallOf DEF CallOK, Inspecting
<1> QED BY <1>1, <1>3, <1>6, QuietStep

LEMMA EnterStep ==
  ASSUME TrustInv, NEW t \in Threads, NEW k \in Connectors, Enter(t, k)
  PROVE  TrustInv'
<1>1. PICK c \in Calls :
        c = [call[t] EXCEPT !.step = "roots", !.connector = k, !.at = clock]
  BY CallOf DEF Calls
<1>2. /\ call[t].step = "idle" /\ cache[k] # NotMade
      /\ lock[k] = None /\ lock' = [lock EXCEPT ![k] = t]
      /\ UNCHANGED <<clocks, service, cache>>
      /\ call' = [call EXCEPT ![t] = c]
  BY <1>1, CallOf DEF Enter, Enters, LockIsFree
<1>3. c.step = "roots" /\ c.at = clock /\ c.connector = k /\ c.trusted = call[t].trusted
  BY <1>1, CallOf DEF Calls
<1>4. /\ lock' \in [Connectors -> Threads \cup {None}] /\ lock'[k] = t
      /\ \A x \in Connectors : \A u \in Threads \ {t} : lock[x] = u => lock'[x] = u
  BY <1>2, NamesAssumption DEF TrustInv, CallsOK
<1>5. CacheOK' BY <1>2, QuietGrows, CacheStays DEF TrustInv
<1>6. CallOK(t, c)'
  <2>1. call[t].trusted = None BY <1>2, CallOf DEF CallOK
  <2>2. c.at <= clock' BY <1>2, <1>3, CallOf DEF clocks
  <2> QED BY <1>2, <1>3, <1>4, <2>1, <2>2 DEF CallOK, Inspecting
<1> QED BY <1>2, <1>4, <1>5, <1>6, CallerStep

\* The inspection ends: what was read is right of the time it is validated at.
LEMMA VerifyStep ==
  ASSUME TrustInv, NEW t \in Threads, Verify(t)
  PROVE  TrustInv'
<1>1. PICK k \in Connectors : k = call[t].connector BY CallOf
<1>2. PICK n \in 0..MaxDocuments : n = call[t].document BY CallOf DEF Calls
<1>3. PICK at \in Times : at = call[t].at BY CallOf DEF Calls
<1>4. /\ call[t].step = "verify" /\ DocumentRead(call[t]) /\ RootsRead(call[t])
      /\ lock[k] = t /\ at <= clock
      /\ UNCHANGED <<clocks, service>>
  BY <1>1, <1>3, CallOf DEF Verify, CallOK, Inspecting
<1>5. PICK d \in Docs : d = documents[n]
  <2>1. n \in 1..Len(documents) /\ documents \in Seq(Docs)
    BY <1>2, <1>4 DEF DocumentRead, TrustInv, ServiceOK
  <2> QED BY <2>1, ElementOfSeq
<1>6. ValidDiscovery(d, call[t].roots, at) BY <1>2, <1>3, <1>5 DEF Verify, Now
<1>7. PICK v \in Trusted :
        v = [document |-> n, keys |-> ActiveKeys(d, at), at |-> at, kept |-> clock,
             keptMono |-> mono]
  <2>1. ActiveKeys(d, at) \in (SUBSET {j.id : j \in KeyPool}) \ {{}}
    BY <1>6 DEF ValidDiscovery, ActiveKeys, Docs
  <2>2. n \in 1..MaxDocuments BY <1>2, <1>4 DEF DocumentRead
  <2> QED BY <2>1, <2>2, CallOf DEF Trusted
<1>8. PICK until \in Int : until = mono + Smaller(CacheSeconds, d.expires - at)
  BY CallOf, SecondsAssumption DEF Smaller, Docs, Times
<1>9. /\ v.document = n /\ v.keys = ActiveKeys(d, at) /\ v.at = at
      /\ v.kept = clock /\ v.keptMono = mono
  BY <1>7
<1>10. Right(v)
  <2>1. d.root = RootAt(call[t].roots, at) /\ at <= d.expires
    BY <1>6 DEF ValidDiscovery, IsCurrent
  <2>2. {i \in 1..call[t].roots : chain[i] <= at} = {i \in 1..Len(chain) : chain[i] <= at}
    <3>1. /\ Len(chain) \in Nat /\ call[t].roots \in Nat /\ at \in Nat
          /\ call[t].roots <= Len(chain)
      BY <1>4, CallOf, LenProperties DEF TrustInv, ServiceOK, RootsRead, Calls, Times
    <3>2. \A i \in 1..Len(chain) : chain[i] \in Times
      BY ElementOfSeq DEF TrustInv, ServiceOK
    <3>3. \A i \in 1..Len(chain) : chain[i] <= at => i \in 1..call[t].roots
      <4> SUFFICES ASSUME NEW i \in 1..Len(chain), i \notin 1..call[t].roots
                   PROVE  ~ (chain[i] <= at)
        OBVIOUS
      <4>1. i \in (call[t].roots + 1)..Len(chain) BY <3>1
      <4>2. at < chain[i] BY <1>3, <1>4, <4>1 DEF RootsRead
      <4> QED BY <3>1, <3>2, <4>2 DEF Times
    <3> QED BY <3>1, <3>3
  <2>3. d.root = RootAt(Len(chain), at) BY <2>1, <2>2 DEF RootAt
  <2>4. clock <= clock /\ mono <= mono /\ mono + clock <= mono + clock BY CallOf
  <2> QED BY <1>2, <1>3, <1>4, <1>5, <1>9, <2>1, <2>3, <2>4 DEF Right, DocumentRead
<1>11. PICK e \in CacheEntries : e = [verified |-> v, until |-> until]
  <2>1. at <= d.expires BY <1>6 DEF ValidDiscovery, IsCurrent
  <2>2. until \in Nat
    BY <1>3, <1>8, <2>1, CallOf, SecondsAssumption DEF Smaller, Docs, Times
  <2> QED BY <2>2 DEF CacheEntries
<1>12. EntryOK(e)
  BY <1>5, <1>8, <1>9, <1>10, <1>11 DEF EntryOK
<1>13. cache' = [cache EXCEPT ![k] = e]
  BY <1>1, <1>2, <1>3, <1>5, <1>7, <1>8, <1>11 DEF Verify, CachedUntil, Now
<1>14. lock' = [lock EXCEPT ![k] = None]
  BY <1>1 DEF Verify
<1>15. PICK c \in Calls :
         c = [call[t] EXCEPT !.step = "trusted", !.trusted = v, !.got = clock,
                             !.gotMono = mono, !.connector = Base, !.at = 0, !.roots = 0,
                             !.document = 0]
  <2>1. 0 \in Times /\ 0 \in 0..MaxRotations /\ 0 \in 0..MaxDocuments
    BY SecondsAssumption DEF Times
  <2> QED BY <2>1, CallOf DEF Calls, Connectors
<1>16. call' = [call EXCEPT ![t] = c]
  BY <1>2, <1>3, <1>5, <1>7, <1>15, CallOf DEF Verify, Now
<1>17. c.step = "trusted" /\ c.trusted = v /\ c.got = clock /\ c.gotMono = mono
  BY <1>4, <1>15, CallOf DEF Calls
<1>18. Grows BY <1>4, QuietGrows DEF TrustInv
<1>19. CacheOK'
  <2>1. EntryOK(e)' BY <1>12, <1>18, EntryStays DEF TrustInv
  <2>2. /\ cache' \in [Connectors -> {None, NotMade} \cup CacheEntries]
        /\ cache'[k] = e /\ \A x \in Connectors \ {k} : cache'[x] = cache[x]
    BY <1>13 DEF TrustInv, CacheOK
  <2>3. ASSUME NEW x \in Connectors, cache'[x] \notin {None, NotMade}
        PROVE  EntryOK(cache[x])'
    <3>1. CASE x = k
      <4>1. cache'[x] = e BY <2>2, <3>1
      <4> QED BY <2>1, <4>1 DEF EntryOK, Right
    <3>2. CASE x # k
      <4>1. cache'[x] = cache[x] BY <2>2, <3>2
      <4>2. cache[x] \in CacheEntries /\ EntryOK(cache[x])
        BY <2>3, <4>1 DEF TrustInv, CacheOK
      <4>3. PICK f \in CacheEntries : f = cache[x] /\ EntryOK(f) BY <4>2
      <4>4. EntryOK(f)' BY <1>18, <4>3, EntryStays DEF TrustInv
      <4> QED BY <4>1, <4>3, <4>4
    <3> QED BY <3>1, <3>2
  <2> QED BY <2>2, <2>3 DEF CacheOK
<1>20. InTime(c)
  <2>1. at <= d.expires BY <1>6 DEF ValidDiscovery, IsCurrent
  <2> QED BY <1>3, <1>4, <1>5, <1>9, <1>17, <2>1, CallOf, SecondsAssumption
          DEF InTime, Docs, Times
<1>21. CallOK(t, c)'
  <2>1. Right(c.trusted)' /\ InTime(c)' BY <1>10, <1>17, <1>18, <1>20, InTimeStays DEF TrustInv
  <2>2. v # None BY NamesAssumption
  <2> QED BY <1>17, <2>1, <2>2 DEF CallOK, Inspecting
<1>22. /\ lock' \in [Connectors -> Threads \cup {None}]
       /\ \A x \in Connectors : \A u \in Threads \ {t} : lock[x] = u => lock'[x] = u
  BY <1>4, <1>14 DEF TrustInv, CallsOK
<1>23. \A x \in Connectors : cache'[x] = cache[x] \/ (lock[x] = t /\ cache'[x] # NotMade)
  BY <1>4, <1>13, NamesAssumption DEF TrustInv, CacheOK
<1> QED BY <1>4, <1>16, <1>19, <1>21, <1>22, <1>23, CallerStep

LEMMA FailStep ==
  ASSUME TrustInv, NEW t \in Threads, Fail(t)
  PROVE  TrustInv'
<1>1. /\ call' = [call EXCEPT ![t] = NewCall] /\ lock' = LocksAfter(t)
      /\ UNCHANGED <<clocks, service, cache>>
  BY DEF Fail
<1>2. Grows /\ CacheOK' BY <1>1, QuietGrows, CacheStays DEF TrustInv
<1>3. /\ lock' \in [Connectors -> Threads \cup {None}]
      /\ \A x \in Connectors : \A u \in Threads \ {t} : lock[x] = u => lock'[x] = u
  BY <1>1 DEF LocksAfter, TrustInv, CallsOK
<1>4. NewCall \in Calls /\ CallOK(t, NewCall)'
  BY NewCallOK DEF CallOK, NewCall, Inspecting
<1> QED BY <1>1, <1>2, <1>3, <1>4, CallerStep

LEMMA InspectedStep ==
  ASSUME TrustInv, NEW t \in Threads, Inspected(t)
  PROVE  TrustInv'
  BY NewCallOK, QuietStep DEF Inspected

LEMMA BuildQueryStep ==
  ASSUME TrustInv, NEW t \in Threads, BuildQuery(t)
  PROVE  TrustInv'
<1> DEFINE c == [NewCall EXCEPT !.purpose = "query", !.asked = clock]
<1>1. call' = [call EXCEPT ![t] = c] /\ UNCHANGED <<clocks, service, lock, cache>>
  BY DEF BuildQuery
<1>2. c \in Calls BY NewCallOK, CallOf DEF Calls
<1>3. c.step = "idle" /\ c.trusted = None BY DEF NewCall
<1> HIDE DEF c
<1>4. CallOK(t, c) BY <1>3 DEF CallOK, Inspecting
<1> QED BY <1>1, <1>2, <1>4, QuietStep

LEMMA SendStep ==
  ASSUME TrustInv, NEW t \in Threads, Send(t)
  PROVE  TrustInv'
<1> DEFINE c == [call[t] EXCEPT !.step = "sent", !.now = clock]
<1>1. /\ call[t].step = "trusted" /\ call' = [call EXCEPT ![t] = c]
      /\ UNCHANGED <<clocks, service, lock, cache>>
  BY CallOf DEF Send, Ready
<1>2. /\ c \in Calls /\ c.step = "sent" /\ c.trusted = call[t].trusted
      /\ c.got = call[t].got /\ c.gotMono = call[t].gotMono
  BY CallOf DEF Calls
<1> HIDE DEF c
<1>3. CallOK(t, c) BY <1>1, <1>2, CallOf DEF CallOK, Inspecting, InTime
<1> QED BY <1>1, <1>2, <1>3, QuietStep

LEMMA AnswerStep ==
  ASSUME TrustInv, NEW t \in Threads, NEW k \in KeyPool,
         Answer(t, [key |-> k.id, issued |-> clock, expires |-> clock + ResultLifetime])
  PROVE  TrustInv'
<1> DEFINE r == [key |-> k.id, issued |-> clock, expires |-> clock + ResultLifetime]
           c == [NewCall EXCEPT !.purpose = "fetch", !.asked = call[t].asked, !.result = r]
<1>1. call' = [call EXCEPT ![t] = c] /\ UNCHANGED <<clocks, service, lock, cache>>
  BY DEF Answer
<1>2. r \in Results
  <2>1. clock \in 0..MaxTime /\ ResultLifetime \in Nat /\ MaxTime \in Nat
    BY CallOf, SecondsAssumption DEF Times
  <2>2. clock + ResultLifetime \in 0..(MaxTime + ResultLifetime) BY <2>1
  <2> QED BY <2>2, CallOf DEF Results
<1>3. call[t].asked \in Times BY CallOf DEF Calls
<1> HIDE DEF r
<1>4. c \in Calls BY <1>2, <1>3, NewCallOK DEF Calls
<1>5. c.step = "idle" /\ c.trusted = None BY DEF NewCall
<1> HIDE DEF c
<1>6. CallOK(t, c) BY <1>5 DEF CallOK, Inspecting
<1> QED BY <1>1, <1>4, <1>6, QuietStep

LEMMA FetchStep ==
  ASSUME TrustInv, NEW t \in Threads, Fetch(t)
  PROVE  TrustInv'
<1> DEFINE c == [call[t] EXCEPT !.step = "fetched"]
<1>1. /\ call[t].step = "trusted" /\ call' = [call EXCEPT ![t] = c]
      /\ call[t].result.key \in call[t].trusted.keys
      /\ UNCHANGED <<clocks, service, lock, cache>>
  BY DEF Fetch, Ready, FetchAuthorized, ValidResult
<1>2. /\ c \in Calls /\ c.step = "fetched" /\ c.trusted = call[t].trusted
      /\ c.got = call[t].got /\ c.gotMono = call[t].gotMono /\ c.result = call[t].result
  BY CallOf DEF Calls
<1> HIDE DEF c
<1>3. CallOK(t, c) BY <1>1, <1>2, CallOf DEF CallOK, Inspecting, InTime
<1> QED BY <1>1, <1>2, <1>3, QuietStep

\* The authorized connector starts from what Base believes.
LEMMA AccessTokenStep ==
  ASSUME TrustInv, WithAccessToken
  PROVE  TrustInv'
<1>1. /\ cache[Authorized] = NotMade
      /\ cache' = [cache EXCEPT ![Authorized] = cache[Base]]
      /\ UNCHANGED <<clocks, service, lock, call>>
  BY DEF WithAccessToken
<1>2. Grows /\ ServiceOK' BY <1>1, QuietGrows, ServiceGrown DEF TrustInv
<1>3. /\ cache' \in [Connectors -> {None, NotMade} \cup CacheEntries]
      /\ cache'[Authorized] = cache[Base]
      /\ \A x \in Connectors \ {Authorized} : cache'[x] = cache[x]
  BY <1>1 DEF TrustInv, CacheOK, Connectors
<1>4. CacheOK'
  <2>1. ASSUME NEW x \in Connectors, cache'[x] \notin {None, NotMade}
        PROVE  EntryOK(cache[x])'
    <3>1. PICK y \in Connectors : cache'[x] = cache[y] BY <1>3 DEF Connectors
    <3>2. PICK e \in CacheEntries : e = cache[y] /\ EntryOK(e)
      BY <2>1, <3>1 DEF TrustInv, CacheOK
    <3>3. EntryOK(e)' BY <1>2, <3>2, EntryStays DEF TrustInv
    <3> QED BY <3>1, <3>2, <3>3
  <2> QED BY <1>3, <2>1 DEF CacheOK
<1>5. ASSUME NEW t \in Threads PROVE CallOK(t, call[t])'
  <2>1. PICK c \in Calls : c = call[t] /\ CallOK(t, c) BY CallOf
  <2>2. c.connector \in Connectors BY DEF Calls
  <2>3. CASE c.connector # Authorized
    <3>1. CallOK(t, c)' BY <1>1, <1>2, <1>3, <2>1, <2>2, <2>3, CallStays DEF TrustInv
    <3> QED BY <1>1, <2>1, <3>1
  <2>4. CASE c.connector = Authorized
    <3>1. c.step \notin Inspecting BY <1>1, <2>1, <2>4 DEF CallOK
    <3>2. c.trusted # None => Right(c.trusted)' /\ InTime(c)'
      BY <1>2, <2>1, InTimeStays DEF CallOK, Calls, TrustInv
    <3>3. CallOK(t, c)' BY <2>1, <3>1, <3>2 DEF CallOK, Inspecting
    <3> QED BY <1>1, <2>1, <3>3
  <2> QED BY <2>3, <2>4
<1>6. CallsOK' BY <1>1, <1>5 DEF TrustInv, CallsOK
<1> QED BY <1>2, <1>4, <1>6 DEF TrustInv

LEMMA NextTrustInv == TrustInv /\ [Next]_vars => TrustInv'
<1> SUFFICES ASSUME TrustInv, [Next]_vars PROVE TrustInv' OBVIOUS
<1>0. ServiceOK BY DEF TrustInv
<1>1. ASSUME NEW effective \in Times, PublishRotation(effective) PROVE TrustInv'
  <2>1. UNCHANGED <<lock, cache, call>> BY <1>1 DEF PublishRotation
  <2> QED BY <1>0, <1>1, <2>1, RotationGrows, ServiceStep
<1>2. ASSUME NEW o \in Offers, PublishDiscovery(o.keys, o.lifetime) PROVE TrustInv'
  <2>1. UNCHANGED <<lock, cache, call>> BY <1>2 DEF PublishDiscovery
  <2> QED BY <1>0, <1>2, <2>1, DiscoveryGrows, ServiceStep
<1>3. CASE Tick \/ Suspend
  <2>1. UNCHANGED <<lock, cache, call>> BY <1>3 DEF Tick, Suspend
  <2> QED BY <1>0, <1>3, <2>1, TimeGrows, ServiceStep
<1>4. CASE WithAccessToken BY <1>4, AccessTokenStep
<1>5. ASSUME NEW t \in Threads, Step(t) PROVE TrustInv'
  BY <1>5, UseCacheStep, EnterStep, ReadRootsStep, ReadDiscoveryStep,
     VerifyStep, FailStep, InspectedStep, BuildQueryStep, SendStep, AnswerStep,
     FetchStep DEF Step
<1>6. CASE UNCHANGED vars
  <2>1. UNCHANGED <<clocks, service>> /\ UNCHANGED <<lock, cache, call>>
    BY <1>6 DEF vars, service, clocks
  <2> QED BY <1>0, <2>1, QuietGrows, ServiceStep
<1> QED BY <1>1, <1>2, <1>3, <1>4, <1>5, <1>6 DEF Next

LEMMA AlwaysTrustInv == Spec => []TrustInv
  BY InitTrustInv, NextTrustInv, PTL DEF Spec

-----------------------------------------------------------------------------
(* What holds of every run.                                                 *)

\* The service's documents, the locks, the caches and the calls keep their types.
THEOREM ServiceTrustTypes == Spec => []TypeOK
<1>1. TrustInv => TypeOK
  <2> SUFFICES ASSUME TrustInv PROVE TypeOK OBVIOUS
  <2>1. \A i \in DOMAIN documents : documents[i].issued \in Times
    <3>1. documents \in Seq(Docs) /\ DOMAIN documents = 1..Len(documents)
      BY LenProperties DEF TrustInv, ServiceOK
    <3>2. \A i \in DOMAIN documents : documents[i] \in Docs BY <3>1, ElementOfSeq
    <3> QED BY <3>2 DEF Docs
  <2> QED BY <2>1 DEF TypeOK, TrustInv, ServiceOK, CacheOK, CallsOK
<1> QED BY <1>1, AlwaysTrustInv, PTL

\* Discovery is only ever believed under the root that was in force when it
\* was validated (inspect reads the chain and the document in two requests).
THEOREM RootWasAlwaysInForce == Spec => []RootWasInForce
<1>1. TrustInv => RootWasInForce
  BY CallOf DEF RootWasInForce, Holds, TrustedDocument, CallOK, Right
<1> QED BY <1>1, AlwaysTrustInv, PTL

\* inspect returns a discovery no longer than cache_seconds after the inspection
\* that read it, and past its expiry no longer than that inspection took, but for
\* the time the host slept since.
THEOREM DiscoveryUseIsAlwaysBounded == Spec => []DiscoveryUseIsBounded
<1>1. TrustInv => DiscoveryUseIsBounded
  <2> SUFFICES ASSUME TrustInv, NEW t \in Threads, Holds(t)
               PROVE  /\ call[t].got <= call[t].trusted.kept + CacheSeconds + Slept(t)
                      /\ call[t].got <= TrustedDocument(t).expires
                           + (call[t].trusted.kept - call[t].trusted.at) + Slept(t)
    BY DEF DiscoveryUseIsBounded
  <2>1. PICK v \in Trusted : v = call[t].trusted /\ Right(v) /\ InTime(call[t])
    BY CallOf DEF CallOK, Calls, Holds
  <2>2. documents[v.document] \in Docs
    BY <2>1, ElementOfSeq DEF Right, TrustInv, ServiceOK
  <2>3. /\ v.at \in Nat /\ v.kept \in Nat /\ v.keptMono \in Nat
        /\ call[t].got \in Nat /\ call[t].gotMono \in Nat
        /\ CacheSeconds \in Nat /\ documents[v.document].expires \in Nat
    BY <2>2, CallOf, SecondsAssumption DEF Trusted, Times, Calls, Docs
  <2> QED BY <2>1, <2>3 DEF InTime, Slept, TrustedDocument
<1> QED BY <1>1, AlwaysTrustInv, PTL

\* A withdrawn key authorizes no fetch once its discovery has left the caches.
THEOREM WithdrawnKeysAlwaysFade == Spec => []WithdrawnKeysFade
<1>1. TrustInv => WithdrawnKeysFade
  <2> SUFFICES ASSUME TrustInv, NEW t \in Threads, call[t].step = "fetched"
               PROVE  \E i \in 1..Len(documents) :
                        /\ \E k \in documents[i].keys : k.id = call[t].result.key
                        /\ call[t].got <= WithdrawnUntil(i) + CacheSeconds
                             + (call[t].trusted.kept - call[t].trusted.at) + Slept(t)
    BY DEF WithdrawnKeysFade
  <2>1. PICK v \in Trusted : v = call[t].trusted /\ Right(v)
    BY CallOf DEF CallOK, Calls
  <2>2. InTime(call[t]) /\ call[t].result.key \in v.keys
    BY <2>1, CallOf DEF CallOK
  <2>3. \E k \in documents[v.document].keys : k.id = call[t].result.key
    BY <2>1, <2>2 DEF Right, ActiveKeys
  <2>4. /\ v.at \in Nat /\ v.kept \in Nat /\ v.keptMono \in Nat /\ clock \in Nat
        /\ call[t].got \in Nat /\ call[t].gotMono \in Nat
        /\ CacheSeconds \in Nat /\ v.at <= v.kept
    <3>1. v.at <= v.kept BY <2>1 DEF Right
    <3> QED BY <2>1, <3>1, CallOf, SecondsAssumption DEF Trusted, Times, Calls
  <2> DEFINE slept == (call[t].got - v.kept) - (call[t].gotMono - v.keptMono)
  <2>0. Slept(t) = slept /\ slept \in Nat /\ call[t].got <= v.kept + CacheSeconds + slept
    BY <2>1, <2>2, <2>4 DEF Slept, InTime
  <2> HIDE DEF slept
  <2>5. CASE v.document = Len(documents)
    <3>1. WithdrawnUntil(v.document) = clock BY <2>5 DEF WithdrawnUntil
    <3>2. call[t].got <= clock BY <2>2 DEF InTime
    <3>3. call[t].got <= WithdrawnUntil(v.document) + CacheSeconds + (v.kept - v.at) + Slept(t)
      BY <2>0, <2>4, <3>1, <3>2
    <3> QED BY <2>1, <2>3, <3>3 DEF Right
  <2>6. CASE v.document # Len(documents)
    <3>1. /\ v.document + 1 \in (v.document + 1)..Len(documents)
          /\ v.document + 1 \in 1..Len(documents)
      BY <2>1, <2>6, LenProperties DEF Right, TrustInv, ServiceOK
    <3>2. documents[v.document + 1] \in Docs
      BY <3>1, ElementOfSeq DEF TrustInv, ServiceOK
    <3>3. /\ WithdrawnUntil(v.document) = documents[v.document + 1].issued
          /\ v.at <= documents[v.document + 1].issued
          /\ documents[v.document + 1].issued \in Nat
      <4>1. WithdrawnUntil(v.document) = documents[v.document + 1].issued
        BY <2>6 DEF WithdrawnUntil
      <4>2. v.at <= documents[v.document + 1].issued BY <2>1, <3>1 DEF Right
      <4>3. documents[v.document + 1].issued \in Nat BY <3>2 DEF Docs, Times
      <4> QED BY <4>1, <4>2, <4>3
    <3>4. call[t].got <= WithdrawnUntil(v.document) + CacheSeconds + (v.kept - v.at) + Slept(t)
      BY <2>0, <2>4, <3>3
    <3> QED BY <2>1, <2>3, <3>4 DEF Right
  <2> QED BY <2>5, <2>6
<1> QED BY <1>1, AlwaysTrustInv, PTL

LEMMA CacheStep ==
  ASSUME TrustInv, [Next]_vars, NEW c \in Connectors, cache[c] \notin {None, NotMade}
  PROVE  cache'[c].verified.document >= cache[c].verified.document
<1>0. cache[c].verified.document \in Nat
  BY DEF TrustInv, CacheOK, CacheEntries, Trusted
<1>1. CASE cache'[c] = cache[c] BY <1>0, <1>1
<1>2. CASE WithAccessToken
  BY <1>0, <1>2 DEF WithAccessToken, TrustInv, CacheOK
<1>3. ASSUME NEW t \in Threads, Verify(t)
      PROVE  cache'[c].verified.document >= cache[c].verified.document
  <2>1. CASE call[t].connector = c
    <3>1. cache'[c].verified.document = call[t].document
      BY <1>3, <2>1 DEF Verify, TrustInv, CacheOK
    <3>2. cache[c].verified.document <= call[t].document
      BY <1>3, <2>1, CallOf DEF Verify, CallOK, DocumentRead
    <3>3. call[t].document \in Nat BY CallOf DEF Calls
    <3> QED BY <1>0, <3>1, <3>2, <3>3
  <2>2. CASE call[t].connector # c
    <3>1. cache'[c] = cache[c] BY <1>3, <2>2 DEF Verify, TrustInv, CacheOK
    <3> QED BY <1>0, <3>1
  <2> QED BY <2>1, <2>2
<1>4. UNCHANGED cache \/ WithAccessToken \/ \E t \in Threads : Verify(t)
  BY DEF Next, PublishRotation, PublishDiscovery, Tick, Suspend, Step, UseCache, Enter,
         ReadRoots, ReadDiscovery, Fail, Inspected, BuildQuery, Send, Answer, Fetch, vars
<1> QED BY <1>1, <1>2, <1>3, <1>4

\* Threads that inspect at the same time never put an earlier discovery back
\* over a later one: the lock covers the reading and the keeping.
THEOREM CacheAlwaysMovesForward == Spec => CacheMovesForward
<1>1. TrustInv /\ [Next]_vars =>
        [\A c \in Connectors :
           cache[c] \notin {None, NotMade} =>
             cache'[c].verified.document >= cache[c].verified.document]_vars
  BY CacheStep
<1> QED BY <1>1, AlwaysTrustInv, PTL DEF Spec, CacheMovesForward
================================================================================
