----------------------------- MODULE RootChain -----------------------------
(***************************************************************************)
(* Rotation of a service's root key: service_contracts' transition, its    *)
(* chain ("transition set") and advance_service_root_trust, with           *)
(* ServiceConnector._current_roots, which reads the same chain.            *)
(*                                                                         *)
(* Two clients follow one published chain.  The connector pins the first   *)
(* root for ever and derives the current one from the whole chain each     *)
(* time; the stepping client stores its root, sequence and digest and      *)
(* advances over one transition at a time.  A key's id stands for its name *)
(* and its material, a digest for the exact content it binds.              *)
(***************************************************************************)
EXTENDS Integers, Sequences

CONSTANTS
  Pool,           \* transitions somebody may offer, well formed or not
  FirstRoot,      \* id of the root key pinned in the profile
  NoDigest,       \* previousTransitionDigest of the first transition
  MaxRootLifetime, MaxLead,
  MaxTransitions, \* MAX_ROOT_KEY_TRANSITIONS
  MaxTime         \* bound: the last instant of the clock

ASSUME LimitsAssumption ==
  {MaxRootLifetime, MaxLead, MaxTransitions, MaxTime} \subseteq Nat

\* The dates a transition carries are instants.
ASSUME InstantsAssumption ==
  \A t \in Pool : {t.issued, t.effective, t.nextKey.until} \subseteq Int

Times == 0..MaxTime

VARIABLES
  clock,
  chain,  \* the transitions the service publishes beside its discovery
  pin     \* the stepping client's root, sequence and transition digest

vars == <<clock, chain, pin>>

FirstPin == [root |-> FirstRoot, sequence |-> 0, digest |-> NoDigest]

-----------------------------------------------------------------------------
\* One transition: validate_service_root_key_transition.

ValidKey(key) == key.from < key.until /\ key.until <= key.from + MaxRootLifetime

ValidTimes(t) ==
  /\ t.previousKey.from <= t.issued
  /\ t.issued < t.effective
  /\ t.effective <= t.previousKey.until
  /\ t.effective - t.issued <= MaxLead
  /\ t.nextKey.from = t.effective

\* What a transition says of itself, whoever is trusted.
WellFormed(t) ==
  /\ t.sequence = 1 <=> t.previous = NoDigest
  /\ ValidKey(t.previousKey) /\ ValidKey(t.nextKey)
  /\ t.previousKey.id # t.nextKey.id
  /\ ValidTimes(t)
  /\ t.authorizedBy = t.previousKey.id
  /\ t.acceptedBy = t.nextKey.id

\* t is the one step after the pin `trusted`.
Follows(t, trusted) ==
  /\ t.previousKey.id = trusted.root
  /\ t.sequence = trusted.sequence + 1
  /\ t.previous = trusted.digest

ValidTransition(t, trusted) == WellFormed(t) /\ Follows(t, trusted)

PinAfter(t) == [root |-> t.nextKey.id, sequence |-> t.sequence, digest |-> t.digest]

\* The chain: validate_service_root_key_transition_set trusts, at each place,
\* what the transition before it named.
TrustedAt(c, i) == IF i = 1 THEN FirstPin ELSE PinAfter(c[i - 1])

ValidChain(c) ==
  /\ Len(c) <= MaxTransitions
  /\ \A i \in 1..Len(c) : ValidTransition(c[i], TrustedAt(c, i))

-----------------------------------------------------------------------------
\* A mutated form: counts transitions that are issued and not yet effective.
InEffectWhenIssued(c, at) ==
  CHOOSE n \in 0..Len(c) :
    /\ \A i \in 1..n : c[i].issued <= at
    /\ n < Len(c) => at < c[n + 1].issued

\* A mutated form: falls back to the last root that has not expired.
InEffectUnexpired(c, at) ==
  CHOOSE n \in 0..Len(c) :
    /\ \A i \in 1..n : c[i].effective <= at /\ at <= c[i].nextKey.until
    /\ n < Len(c) => at < c[n + 1].effective \/ at > c[n + 1].nextKey.until

\* ServiceConnector._current_roots: the successor named by the last of the
\* leading transitions in effect; an error once that key has expired.
InEffect(c, at) ==
  CHOOSE n \in 0..Len(c) :
    /\ \A i \in 1..n : c[i].effective <= at
    /\ n < Len(c) => at < c[n + 1].effective

CurrentRoot(c, at) == TrustedAt(c, InEffect(c, at) + 1).root

Expired(c, at) ==
  LET n == InEffect(c, at) IN n > 0 /\ at > c[n].nextKey.until

\* advance_service_root_trust, for a client that holds `trusted`; before it,
\* a mutated form that does not wait for the transition to take effect.
MayAdvanceEarly(t, trusted, at) ==
  ValidTransition(t, trusted) /\ at <= t.nextKey.until

MayAdvance(t, trusted, at) ==
  /\ ValidTransition(t, trusted)
  /\ t.effective <= at
  /\ at <= t.nextKey.until

-----------------------------------------------------------------------------
Init ==
  /\ clock = 0
  /\ chain = <<>>
  /\ pin = FirstPin

\* build_service_root_key_transition_set: the chain grows at its end, and is
\* validated before it is published.
Publish(t) ==
  /\ t.issued <= clock
  /\ ValidChain(Append(chain, t))
  /\ chain' = Append(chain, t)
  /\ UNCHANGED <<clock, pin>>

\* The stepping client is given a transition of the chain.
Advance(t) ==
  /\ MayAdvance(t, pin, clock)
  /\ pin' = PinAfter(t)
  /\ UNCHANGED <<clock, chain>>

Tick ==
  /\ clock < MaxTime
  /\ clock' = clock + 1
  /\ UNCHANGED <<chain, pin>>

Next ==
  \/ \E t \in Pool : Publish(t)
  \/ \E t \in {chain[i] : i \in 1..Len(chain)} : Advance(t)
  \/ Tick

Spec == Init /\ [][Next]_vars

-----------------------------------------------------------------------------
(* Properties.                                                              *)

TypeOK ==
  /\ clock \in Times
  /\ chain \in Seq(Pool) /\ Len(chain) <= MaxTransitions
  /\ pin \in [root : {FirstRoot} \cup {t.nextKey.id : t \in Pool},
              sequence : 0..MaxTransitions,
              digest : {NoDigest} \cup {t.digest : t \in Pool}]

\* The two clients never disagree: the stepping client is never ahead of the
\* connector, and one that has taken every step in effect holds the root the
\* connector derives.
ClientsAgree ==
  /\ pin.sequence <= InEffect(chain, clock)
  /\ pin.sequence = InEffect(chain, clock) => pin.root = CurrentRoot(chain, clock)

\* A client that has stepped so far is never stranded by the chain: its next
\* step is allowed as soon as it is in effect, until that successor expires.
NextStepIsOpen ==
  pin.sequence < InEffect(chain, clock) =>
    LET t == chain[pin.sequence + 1] IN
    clock <= t.nextKey.until => MayAdvance(t, pin, clock)

\* What the connector accepts only moves forward: neither time nor a longer
\* chain brings a retired root back or changes a step already in effect.
RootsMoveOn ==
  [][/\ InEffect(chain, clock) <= InEffect(chain', clock')
     /\ \A i \in 1..InEffect(chain, clock) : chain'[i] = chain[i]]_vars
=============================================================================
