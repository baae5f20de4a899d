---------------------------- MODULE ServiceTrust ----------------------------
(***************************************************************************)
(* ServiceConnector: what a client of the managed service trusts, and for  *)
(* how long.  Threads share a connector and its cached discovery, and each *)
(* builds a query, sends it and fetches the artifact the result selects;   *)
(* every one of these calls inspects the service first.                    *)
(*                                                                         *)
(* The service (external) schedules root rotations and publishes discovery *)
(* documents; the connector reads the two with separate requests.  A root  *)
(* is the number of rotations before it, RootChain checks how it is handed *)
(* over.  Documents are dated by the wall clock, which is right and so the *)
(* service's too; the cache is kept by the host's monotonic clock, which   *)
(* stands still while the host is suspended.  Both count whole seconds.    *)
(***************************************************************************)
EXTENDS Integers, FiniteSets, Sequences

CONSTANTS
  Threads,
  Inspectors,        \* those of Threads that only ever call inspect
  Base, Authorized,  \* a connector, and the one with_access_token makes of it
  KeyPool,           \* result keys: records with id, from and until
  CacheSeconds,      \* cache_seconds
  Offers,            \* what a discovery document may give: records with keys and lifetime
  QueryLifetime, ResultLifetime,
  None,
  NotMade,           \* the cache of a connector that does not exist yet
  MaxTime,           \* bound: last second of the clock
  MaxSuspended,      \* bound: seconds the host is suspended
  MaxRotations,      \* bound: root rotations
  MaxDocuments       \* bound: discovery documents ever published

ASSUME SecondsAssumption ==
  /\ {CacheSeconds, QueryLifetime, ResultLifetime, MaxTime, MaxSuspended} \subseteq Nat
  /\ \A o \in Offers : o.keys # {} /\ o.keys \subseteq KeyPool /\ o.lifetime \in Nat \ {0}
  /\ MaxRotations \in Nat /\ MaxDocuments \in Nat \ {0}

Connectors == {Base, Authorized}
Times == 0..MaxTime

VARIABLES
  clock,     \* the wall clock
  mono,      \* the monotonic clock of the client's host
  chain,     \* when each published root rotation takes effect
  documents, \* discovery documents in the order published; the last is served
  lock,      \* of each connector: the thread inside inspect, or None
  cache,     \* of each connector: the verified discovery it keeps, None, or NotMade
  call       \* of each thread

vars == <<clock, mono, chain, documents, lock, cache, call>>
service == <<chain, documents>>
clocks == <<clock, mono>>

Smaller(a, b) == IF a < b THEN a ELSE b

-----------------------------------------------------------------------------
\* The service.

RootAt(n, at) == Cardinality({i \in 1..n : chain[i] <= at})

Served == documents[Len(documents)]

Document(keys, lifetime) ==
  [root |-> RootAt(Len(chain), clock), sequence |-> Len(chain),
   keys |-> keys, issued |-> clock, expires |-> clock + lifetime]

\* A rotation is published before it takes effect, the discovery that names
\* it only afterwards: the two documents are not replaced together.
PublishRotation(effective) ==
  /\ Len(chain) < MaxRotations
  /\ effective > clock
  /\ chain # <<>> => effective > chain[Len(chain)]
  /\ chain' = Append(chain, effective)
  /\ UNCHANGED <<clocks, documents, lock, cache, call>>

PublishDiscovery(keys, lifetime) ==
  /\ Len(documents) < MaxDocuments
  /\ documents' = Append(documents, Document(keys, lifetime))
  /\ UNCHANGED <<clocks, chain, lock, cache, call>>

Tick ==
  /\ clock < MaxTime
  /\ clock' = clock + 1 /\ mono' = mono + 1
  /\ UNCHANGED <<chain, documents, lock, cache, call>>

\* The host sleeps for a second, or its wall clock is set forward to the time.
Suspend ==
  /\ clock < MaxTime /\ clock - mono < MaxSuspended
  /\ clock' = clock + 1
  /\ UNCHANGED <<mono, chain, documents, lock, cache, call>>

-----------------------------------------------------------------------------
\* Validation at a moment: _at, active_result_keys, the parts of discovery
\* that depend on anything but the document itself.

IsCurrent(d, at) == d.issued <= at /\ at <= d.expires

ActiveKeys(d, at) == {k.id : k \in {k \in d.keys : k.from <= at /\ at <= k.until}}

ValidDiscovery(d, n, at) ==
  /\ d.root = RootAt(n, at)
  /\ IsCurrent(d, at)
  /\ ActiveKeys(d, at) # {}
  /\ d.sequence = n

-----------------------------------------------------------------------------
\* inspect

NewCall ==
  [step |-> "idle", purpose |-> "build",
   connector |-> Base,                            \* the one it is inspecting through
   at |-> 0, roots |-> 0, document |-> 0,         \* what its inspection has read
   trusted |-> None, got |-> 0, gotMono |-> 0,    \* what inspect returned, and when
   asked |-> 0, now |-> 0, result |-> None]

Init ==
  /\ clock = 0 /\ mono = 0
  /\ chain = <<>>
  /\ \E o \in Offers :
       documents = <<[root |-> 0, sequence |-> 0, keys |-> o.keys, issued |-> 0,
                      expires |-> o.lifetime]>>
  /\ lock = [c \in Connectors |-> None]
  /\ cache = [c \in Connectors |-> IF c = Base THEN None ELSE NotMade]
  /\ call = [t \in Threads |-> NewCall]

\* A mutated form: inspect without the connector's lock.
Unguarded(c) == TRUE

LockIsFree(c) == lock[c] = None

\* The thread has chosen a connector that is made, and gets its lock.
Enters(t, c) == call[t].step = "idle" /\ cache[c] # NotMade /\ LockIsFree(c)

UseCache(t, c) ==
  /\ Enters(t, c)
  /\ cache[c] # None
  /\ mono < cache[c].until
  /\ call' = [call EXCEPT ![t].step = "trusted", ![t].trusted = cache[c].verified,
                         ![t].got = clock, ![t].gotMono = mono]
  /\ UNCHANGED <<clocks, service, lock, cache>>

CacheIsOver(c) == cache[c] # None => mono >= cache[c].until

\* A mere inspect may be with refresh=True; the operations ask for no refresh.
Refreshes(t) == t \in Inspectors

Enter(t, c) ==
  /\ Enters(t, c)
  /\ Refreshes(t) \/ CacheIsOver(c)
  /\ lock' = [lock EXCEPT ![c] = t]
  /\ call' = [call EXCEPT ![t].step = "roots", ![t].connector = c, ![t].at = clock]
  /\ UNCHANGED <<clocks, service, cache>>

ReadRoots(t) ==
  /\ call[t].step = "roots"
  /\ call' = [call EXCEPT ![t].step = "discovery", ![t].roots = Len(chain)]
  /\ UNCHANGED <<clocks, service, lock, cache>>

ReadDiscovery(t) ==
  /\ call[t].step = "discovery"
  /\ call' = [call EXCEPT ![t].step = "verify", ![t].document = Len(documents)]
  /\ UNCHANGED <<clocks, service, lock, cache>>

\* A mutated form: looks at the clock once everything is read.
NowAfterReading(t) == clock

\* The time everything is validated at, from before the first request.
Now(t) == call[t].at

\* A mutated form: keeps a discovery until it expires.
KeptUntil(t, d) == mono + (d.expires - Now(t))

CachedUntil(t, d) == mono + Smaller(CacheSeconds, d.expires - Now(t))

Verify(t) ==
  LET c == call[t].connector
      d == documents[call[t].document]
      verified == [document |-> call[t].document, keys |-> ActiveKeys(d, Now(t)),
                   at |-> Now(t), kept |-> clock, keptMono |-> mono] IN
  /\ call[t].step = "verify"
  /\ ValidDiscovery(d, call[t].roots, Now(t))
  /\ cache' = [cache EXCEPT ![c] = [verified |-> verified, until |-> CachedUntil(t, d)]]
  /\ lock' = [lock EXCEPT ![c] = None]
  /\ call' = [call EXCEPT ![t].step = "trusted", ![t].trusted = verified,
                         ![t].got = clock, ![t].gotMono = mono,
                         ![t].connector = Base, ![t].at = 0, ![t].roots = 0, ![t].document = 0]
  /\ UNCHANGED <<clocks, service>>

LocksAfter(t) ==
  [c \in Connectors |-> IF lock[c] = t THEN None ELSE lock[c]]

\* An outage, or an answer that is not valid: the error reaches the caller.
Fail(t) ==
  /\ call[t].step \in {"roots", "discovery", "verify", "sent", "trusted"}
  /\ lock' = LocksAfter(t)
  /\ call' = [call EXCEPT ![t] = NewCall]
  /\ UNCHANGED <<clocks, service, cache>>

\* with_access_token: the authorized connector starts from Base's cache.
WithAccessToken ==
  /\ lock[Base] = None
  /\ cache[Authorized] = NotMade
  /\ cache' = [cache EXCEPT ![Authorized] = cache[Base]]
  /\ UNCHANGED <<clocks, service, lock, call>>

-----------------------------------------------------------------------------
\* build_query, query and fetch_selected_artifact, each after its inspect.

Ready(t, purpose) ==
  t \notin Inspectors /\ call[t].step = "trusted" /\ call[t].purpose = purpose

\* A call of inspect alone ends here.
Inspected(t) ==
  /\ t \in Inspectors /\ call[t].step = "trusted"
  /\ call' = [call EXCEPT ![t] = NewCall]
  /\ UNCHANGED <<clocks, service, lock, cache>>

BuildQuery(t) ==
  /\ Ready(t, "build")
  /\ call' = [call EXCEPT ![t] = [NewCall EXCEPT !.purpose = "query", !.asked = clock]]
  /\ UNCHANGED <<clocks, service, lock, cache>>

Query(asked) == [issued |-> asked, expires |-> asked + QueryLifetime]

ValidQuery(asked, at) == IsCurrent(Query(asked), at)

Send(t) ==
  /\ Ready(t, "query")
  /\ ValidQuery(call[t].asked, clock)
  /\ call' = [call EXCEPT ![t].step = "sent", ![t].now = clock]
  /\ UNCHANGED <<clocks, service, lock, cache>>

ValidResult(result, trusted, at) ==
  /\ result.key \in trusted.keys
  /\ IsCurrent(result, at)

\* The service signs with an active key of the discovery it serves.
Answer(t, result) ==
  /\ call[t].step = "sent"
  /\ result.key \in ActiveKeys(Served, clock)
  /\ result.issued = clock /\ result.expires = clock + ResultLifetime
  /\ ValidResult(result, call[t].trusted, call[t].now)
  /\ call' = [call EXCEPT ![t] = [NewCall EXCEPT !.purpose = "fetch", !.asked = call[t].asked,
                                        !.result = result]]
  /\ UNCHANGED <<clocks, service, lock, cache>>

\* A mutated form: trusts the result as it was when it was answered.
AuthorizedOnce(t, at) == ValidQuery(call[t].asked, at)

FetchAuthorized(t, at) ==
  /\ ValidQuery(call[t].asked, at)
  /\ ValidResult(call[t].result, call[t].trusted, at)

Fetch(t) ==
  /\ Ready(t, "fetch")
  /\ FetchAuthorized(t, clock)
  /\ call' = [call EXCEPT ![t].step = "fetched"]
  /\ UNCHANGED <<clocks, service, lock, cache>>

-----------------------------------------------------------------------------
Results ==
  [key : {k.id : k \in KeyPool}, issued : Times, expires : 0..(MaxTime + ResultLifetime)]

Step(t) ==
  \/ \E c \in Connectors : UseCache(t, c) \/ Enter(t, c)
  \/ ReadRoots(t)
  \/ ReadDiscovery(t)
  \/ Verify(t)
  \/ Fail(t)
  \/ Inspected(t)
  \/ BuildQuery(t)
  \/ Send(t)
  \/ \E k \in KeyPool :
       Answer(t, [key |-> k.id, issued |-> clock, expires |-> clock + ResultLifetime])
  \/ Fetch(t)

Next ==
  \/ \E effective \in Times : PublishRotation(effective)
  \/ \E o \in Offers : PublishDiscovery(o.keys, o.lifetime)
  \/ Tick
  \/ Suspend
  \/ WithAccessToken
  \/ \E t \in Threads : Step(t)

Spec == Init /\ [][Next]_vars

-----------------------------------------------------------------------------
(* Properties.                                                              *)

Trusted ==
  [document : 1..MaxDocuments, keys : (SUBSET {k.id : k \in KeyPool}) \ {{}},
   at : Times, kept : Times, keptMono : Times]

Calls ==
  [step : {"idle", "roots", "discovery", "verify", "trusted", "sent",
           "fetched"},
   purpose : {"build", "query", "fetch"}, connector : Connectors,
   at : Times, roots : 0..MaxRotations, document : 0..MaxDocuments,
   trusted : Trusted \cup {None}, got : Times, gotMono : Times, asked : Times, now : Times,
   result : Results \cup {None}]

CacheEntries == [verified : Trusted, until : Nat]

ASSUME NamesAssumption ==
  /\ Base # Authorized
  /\ None \notin Threads \cup Trusted
  /\ NotMade \notin CacheEntries

TypeOK ==
  /\ clock \in Times /\ mono \in 0..clock
  /\ chain \in Seq(Times) /\ Len(chain) <= MaxRotations
  /\ \A i \in DOMAIN documents : documents[i].issued \in Times
  /\ lock \in [Connectors -> Threads \cup {None}]
  /\ \A c \in Connectors :
       cache[c] \in {None, NotMade} \cup CacheEntries
  /\ call \in [Threads -> Calls]

Holds(t) == call[t].trusted # None

TrustedDocument(t) == documents[call[t].trusted.document]

\* Discovery is only ever believed under the root that was in force at the
\* moment the client validated it, although the chain and the document come
\* from two requests and the service replaces them one after the other.
RootWasInForce ==
  \A t \in Threads :
    Holds(t) => TrustedDocument(t).root = RootAt(Len(chain), call[t].trusted.at)

\* How long the host slept after the inspection whose discovery t's call got.
Slept(t) ==
  LET c == call[t] IN (c.got - c.trusted.kept) - (c.gotMono - c.trusted.keptMono)

\* How long inspect goes on returning a discovery, by the clock its documents
\* are dated with: for cache_seconds after the inspection that read it, and past
\* its expiry for no longer than that inspection took, the time the host slept
\* since then added to both.
DiscoveryUseIsBounded ==
  \A t \in Threads :
    Holds(t) =>
      LET c == call[t]
          inspection == c.trusted.kept - c.trusted.at IN
      /\ c.got <= c.trusted.kept + CacheSeconds + Slept(t)
      /\ c.got <= TrustedDocument(t).expires + inspection + Slept(t)

\* docs/TRUST-MODEL.md: an expired discovery fails closed.  The cache never
\* returns one that is over.
ExpiredDiscoveryIsRefused ==
  \A t \in Threads :
    Holds(t) /\ call[t].got > call[t].trusted.kept =>
      call[t].got <= TrustedDocument(t).expires

\* A result key the service withdrew authorizes no fetch once the discovery
\* that listed it has left the caches.
WithdrawnUntil(i) == IF i = Len(documents) THEN clock ELSE documents[i + 1].issued

WithdrawnKeysFade ==
  \A t \in Threads : call[t].step = "fetched" =>
    \E i \in 1..Len(documents) :
      /\ \E k \in documents[i].keys : k.id = call[t].result.key
      /\ call[t].got <=
           WithdrawnUntil(i) + CacheSeconds + (call[t].trusted.kept - call[t].trusted.at)
             + Slept(t)

\* Threads that inspect at the same time never put an earlier discovery back
\* over a later one.
CacheMovesForward ==
  [][\A c \in Connectors :
       cache[c] \notin {None, NotMade} =>
         cache'[c].verified.document >= cache[c].verified.document]_vars

=============================================================================
