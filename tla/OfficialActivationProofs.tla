------------------------ MODULE OfficialActivationProofs ------------------------
(***************************************************************************)
(* Theorems about RootChain and OfficialActivation, for every pool of      *)
(* transitions, any number of processes and releases and every bound.      *)
(*                                                                         *)
(* The chain: every transition stands at the place its sequence number     *)
(* names, so the stepping client's pin is what the chain says at its       *)
(* place, and every step it took was in effect.  An activation: a call     *)
(* that has seen a stored state still finds that state, until the owner    *)
(* removes it, because nothing replaces one.                               *)
(***************************************************************************)
EXTENDS OfficialActivation, SequenceTheorems, WellFoundedInduction, TLAPS

-----------------------------------------------------------------------------
(* The chain of root transitions.                                           *)

\* Every nonempty set of naturals has a least element.
LEMMA LeastNatural ==
  ASSUME NEW T \in SUBSET Nat, T # {}
  PROVE  \E n \in T : \A m \in T : n <= m
<1> DEFINE Below == {ss \in Nat \X Nat : ss[1] < ss[2]}
<1>1. IsWellFoundedOn(Below, Nat) BY NatLessThanWellFounded DEF OpToRel
<1> HIDE DEF Below
<1>2. PICK n \in T : \A m \in T : ~ (<<m, n>> \in Below) BY <1>1, WFMin
<1>3. ASSUME NEW m \in T PROVE n <= m
  <2>1. m \in Nat /\ n \in Nat OBVIOUS
  <2>2. ~ (<<m, n>> \in Below) BY <1>2
  <2>3. ~ (m < n) BY <2>1, <2>2 DEF Below
  <2> QED BY <2>1, <2>3
<1> QED BY <1>3

\* What InEffect counts: the transitions in effect up to the first that is not.
LEMMA InEffectIs ==
  ASSUME NEW c \in Seq(Pool), NEW at \in Int
  PROVE  /\ InEffect(c, at) \in 0..Len(c)
         /\ \A i \in 1..InEffect(c, at) : c[i].effective <= at
         /\ InEffect(c, at) < Len(c) => at < c[InEffect(c, at) + 1].effective
<1> DEFINE Stops(n) == n < Len(c) => at < c[n + 1].effective
           Leads(n) == \A i \in 1..n : c[i].effective <= at
<1>1. Len(c) \in Nat /\ \A i \in 1..Len(c) : c[i].effective \in Int
  BY InstantsAssumption, ElementOfSeq, LenProperties
<1>2. PICK n \in {k \in 0..Len(c) : Stops(k)} :
         \A m \in {k \in 0..Len(c) : Stops(k)} : n <= m
  <2>1. Len(c) \in {k \in 0..Len(c) : Stops(k)} BY <1>1
  <2>2. {k \in 0..Len(c) : Stops(k)} \in SUBSET Nat BY <1>1
  <2> QED BY <2>1, <2>2, LeastNatural
<1>3. Leads(n)
  <2> SUFFICES ASSUME NEW i \in 1..n PROVE c[i].effective <= at OBVIOUS
  <2>0. n \in 0..Len(c) BY <1>2
  <2>1. i - 1 \in 0..Len(c) /\ ~ (n <= i - 1) /\ i \in 1..Len(c) BY <1>1, <2>0
  <2>2. ~ Stops(i - 1)
    <3> HIDE DEF Stops
    <3> QED BY <1>2, <2>1
  <2> QED BY <1>1, <2>1, <2>2
<1>4. \E k \in 0..Len(c) : Leads(k) /\ Stops(k) BY <1>2, <1>3
<1> HIDE DEF Leads, Stops
<1>5. InEffect(c, at) = CHOOSE k \in 0..Len(c) : Leads(k) /\ Stops(k)
  BY DEF InEffect, Leads, Stops
<1>6. InEffect(c, at) \in 0..Len(c) /\ Leads(InEffect(c, at)) /\ Stops(InEffect(c, at))
  BY <1>4, <1>5
<1> QED BY <1>6 DEF Leads, Stops

\* A prefix of transitions in effect is counted.
LEMMA InEffectAtLeast ==
  ASSUME NEW c \in Seq(Pool), NEW at \in Int, NEW n \in 0..Len(c),
         \A i \in 1..n : c[i].effective <= at
  PROVE  n <= InEffect(c, at)
<1>1. Len(c) \in Nat /\ \A i \in 1..Len(c) : c[i].effective \in Int
  BY InstantsAssumption, ElementOfSeq, LenProperties
<1>2. /\ InEffect(c, at) \in 0..Len(c)
      /\ InEffect(c, at) < Len(c) => at < c[InEffect(c, at) + 1].effective
  BY InEffectIs
<1>3. SUFFICES ASSUME InEffect(c, at) < n PROVE FALSE BY <1>1, <1>2
<1>4. InEffect(c, at) + 1 \in 1..n /\ InEffect(c, at) < Len(c) BY <1>1, <1>2, <1>3
<1> QED BY <1>1, <1>2, <1>4

\* The chain is valid, each transition at its own place.
ChainOK ==
  /\ chain \in Seq(Pool)
  /\ ValidChain(chain)
  /\ \A i \in 1..Len(chain) : chain[i].sequence = i

\* The pin is what the chain names after the steps taken, all in effect.
PinOK ==
  /\ pin.sequence \in 0..Len(chain)
  /\ pin = TrustedAt(chain, pin.sequence + 1)
  /\ \A i \in 1..pin.sequence : chain[i].effective <= clock

ChainInv == clock \in Times /\ ChainOK /\ PinOK

LEMMA InitChainInv == Init => ChainInv
<1> SUFFICES ASSUME Init PROVE ChainInv OBVIOUS
<1>1. Len(<<>>) = 0 /\ <<>> \in Seq(Pool) BY EmptySeq
<1>2. clock \in Times BY LimitsAssumption DEF Init, Times
<1>3. ChainOK BY <1>1, LimitsAssumption DEF Init, ChainOK, ValidChain
<1>4. PinOK BY <1>1 DEF Init, PinOK, FirstPin, TrustedAt
<1> QED BY <1>2, <1>3, <1>4 DEF ChainInv

\* A chain grows at its end: what it said before, it still says.
LEMMA PublishKeeps ==
  ASSUME ChainOK, NEW t \in Pool, Publish(t)
  PROVE  /\ chain' \in Seq(Pool) /\ Len(chain') = Len(chain) + 1
         /\ \A i \in 1..Len(chain) : chain'[i] = chain[i]
         /\ chain'[Len(chain) + 1] = t
         /\ \A i \in 1..(Len(chain) + 1) : TrustedAt(chain', i) = TrustedAt(chain, i)
<1>1. chain' = Append(chain, t) /\ chain \in Seq(Pool) BY DEF Publish, ChainOK
<1>2. /\ chain' \in Seq(Pool) /\ Len(chain') = Len(chain) + 1 /\ Len(chain) \in Nat
      /\ \A i \in 1..Len(chain) : chain'[i] = chain[i]
      /\ chain'[Len(chain) + 1] = t
  BY <1>1, AppendProperties, LenProperties
<1>3. \A i \in 1..(Len(chain) + 1) : TrustedAt(chain', i) = TrustedAt(chain, i)
  BY <1>2 DEF TrustedAt
<1> QED BY <1>2, <1>3

LEMMA PublishStep ==
  ASSUME ChainInv, NEW t \in Pool, Publish(t)
  PROVE  ChainInv'
<1>1. ChainOK /\ PinOK BY DEF ChainInv
<1>2. clock' = clock /\ pin' = pin BY DEF Publish
<1>3. Len(chain) \in Nat BY <1>1, LenProperties DEF ChainOK
<1>4. ValidChain(chain)' BY DEF Publish
<1>5. t.sequence = Len(chain) + 1
  <2>1. ValidTransition(t, TrustedAt(chain, Len(chain) + 1))
    BY <1>1, <1>3, <1>4, PublishKeeps DEF ValidChain
  <2>2. TrustedAt(chain, Len(chain) + 1).sequence = Len(chain)
    BY <1>1, <1>3 DEF TrustedAt, FirstPin, PinAfter, ChainOK
  <2> QED BY <2>1, <2>2 DEF ValidTransition, Follows
<1>6. ChainOK' BY <1>1, <1>3, <1>4, <1>5, PublishKeeps DEF ChainOK
<1>7. PinOK' BY <1>1, <1>2, <1>3, PublishKeeps DEF PinOK
<1> QED BY <1>2, <1>6, <1>7 DEF ChainInv

LEMMA AdvanceStep ==
  ASSUME ChainInv, NEW j \in 1..Len(chain), Advance(chain[j])
  PROVE  ChainInv'
<1>1. ChainOK /\ PinOK /\ Len(chain) \in Nat BY LenProperties DEF ChainInv, ChainOK
<1>2. UNCHANGED <<clock, chain>> /\ pin' = PinAfter(chain[j]) BY DEF Advance
<1>3. chain[j].effective <= clock /\ j = pin.sequence + 1
  BY <1>1 DEF Advance, MayAdvance, ValidTransition, Follows, ChainOK
<1>4. pin'.sequence = j /\ pin' = TrustedAt(chain, j + 1)
  BY <1>1, <1>2 DEF PinAfter, TrustedAt, ChainOK
<1>5. PinOK' BY <1>1, <1>2, <1>3, <1>4 DEF PinOK, TrustedAt
<1> QED BY <1>1, <1>2, <1>5 DEF ChainInv, ChainOK, ValidChain, TrustedAt

LEMMA NextChainInv == ChainInv /\ [Next]_vars => ChainInv'
<1> SUFFICES ASSUME ChainInv, [Next]_vars PROVE ChainInv' OBVIOUS
<1>1. CASE \E t \in Pool : Publish(t) BY <1>1, PublishStep
<1>2. CASE \E t \in {chain[i] : i \in 1..Len(chain)} : Advance(t)
  BY <1>2, AdvanceStep
<1>3. CASE Tick
  <2>1. clock' = clock + 1 /\ UNCHANGED <<chain, pin>> /\ clock' \in Times
    BY <1>3, LimitsAssumption DEF Tick, ChainInv, Times
  <2>2. \A i \in 1..Len(chain) : chain[i].effective \in Int
    BY InstantsAssumption, ElementOfSeq DEF ChainInv, ChainOK
  <2>3. PinOK' BY <2>1, <2>2, LenProperties
                  DEF ChainInv, ChainOK, PinOK, TrustedAt, Times
  <2> QED BY <2>1, <2>3 DEF ChainInv, ChainOK, ValidChain, TrustedAt
<1>4. CASE UNCHANGED vars
  BY <1>4 DEF vars, ChainInv, ChainOK, PinOK, ValidChain, TrustedAt
<1> QED BY <1>1, <1>2, <1>3, <1>4 DEF Next

LEMMA AlwaysChainInv == Spec => []ChainInv
  BY InitChainInv, NextChainInv, PTL DEF Spec

\* The chain, the clock and the stepping client's pin keep their types.
THEOREM RootChainTypes == Spec => []TypeOK
<1>1. ChainInv => TypeOK
  <2> SUFFICES ASSUME ChainInv PROVE TypeOK OBVIOUS
  <2>1. chain \in Seq(Pool) /\ Len(chain) \in Nat /\ pin.sequence \in 0..Len(chain)
    BY LenProperties DEF ChainInv, ChainOK, PinOK
  <2>2. Len(chain) <= MaxTransitions BY DEF ChainInv, ChainOK, ValidChain
  <2>3. CASE pin.sequence = 0
    <3>1. pin = FirstPin BY <2>3 DEF ChainInv, PinOK, TrustedAt
    <3> QED BY <2>1, <2>2, <3>1, LimitsAssumption DEF TypeOK, FirstPin, ChainInv
  <2>4. CASE pin.sequence # 0
    <3>1. pin = PinAfter(chain[pin.sequence])
      BY <2>1, <2>4 DEF ChainInv, PinOK, TrustedAt
    <3>2. PICK t \in Pool : t = chain[pin.sequence] BY <2>1, <2>4, ElementOfSeq
    <3>3. pin = [root |-> t.nextKey.id, sequence |-> t.sequence, digest |-> t.digest]
      BY <3>1, <3>2 DEF PinAfter
    <3>4. pin.sequence \in 0..MaxTransitions BY <2>1, <2>2, LimitsAssumption
    <3> QED BY <2>1, <2>2, <3>3, <3>4 DEF TypeOK, ChainInv
  <2> QED BY <2>3, <2>4
<1> QED BY <1>1, AlwaysChainInv, PTL

\* The two clients never disagree about the root: the stepping client
\* (advance_service_root_trust) is never ahead of the connector
\* (_current_roots), and level with it holds the root it derives.
THEOREM ClientsAlwaysAgree == Spec => []ClientsAgree
<1>1. ChainInv => ClientsAgree
  <2> SUFFICES ASSUME ChainInv PROVE ClientsAgree OBVIOUS
  <2>1. chain \in Seq(Pool) /\ clock \in Int BY DEF ChainInv, ChainOK, Times
  <2>2. pin.sequence <= InEffect(chain, clock)
    BY <2>1, InEffectAtLeast DEF ChainInv, PinOK
  <2>3. pin.sequence = InEffect(chain, clock) => pin.root = CurrentRoot(chain, clock)
    BY DEF ChainInv, PinOK, CurrentRoot
  <2> QED BY <2>2, <2>3 DEF ClientsAgree
<1> QED BY <1>1, AlwaysChainInv, PTL

\* A client that has stepped so far is never stranded by the chain: the next
\* transition in effect passes every check of advance_service_root_trust.
THEOREM NextStepStaysOpen == Spec => []NextStepIsOpen
<1>1. ChainInv => NextStepIsOpen
  <2> SUFFICES ASSUME ChainInv, pin.sequence < InEffect(chain, clock),
                      clock <= chain[pin.sequence + 1].nextKey.until
               PROVE  MayAdvance(chain[pin.sequence + 1], pin, clock)
    BY DEF NextStepIsOpen
  <2>1. chain \in Seq(Pool) /\ clock \in Int /\ Len(chain) \in Nat
    BY LenProperties DEF ChainInv, ChainOK, Times
  <2>2. /\ InEffect(chain, clock) \in 0..Len(chain)
        /\ \A i \in 1..InEffect(chain, clock) : chain[i].effective <= clock
    BY <2>1, InEffectIs
  <2>3. pin.sequence \in Nat /\ pin = TrustedAt(chain, pin.sequence + 1)
    BY <2>1 DEF ChainInv, PinOK
  <2>4. pin.sequence + 1 \in 1..InEffect(chain, clock) /\ pin.sequence + 1 \in 1..Len(chain)
    BY <2>1, <2>2, <2>3
  <2>5. ValidTransition(chain[pin.sequence + 1], pin)
    BY <2>3, <2>4 DEF ChainInv, ChainOK, ValidChain
  <2> QED BY <2>2, <2>4, <2>5 DEF MayAdvance
<1> QED BY <1>1, AlwaysChainInv, PTL

\* What the connector accepts only moves forward.
LEMMA RootsStep ==
  ASSUME ChainInv, [Next]_vars
  PROVE  /\ InEffect(chain, clock) <= InEffect(chain', clock')
         /\ \A i \in 1..InEffect(chain, clock) : chain'[i] = chain[i]
<1>1. /\ chain \in Seq(Pool) /\ clock \in Int /\ Len(chain) \in Nat
      /\ \A i \in 1..Len(chain) : chain[i].effective \in Int
  BY LenProperties, InstantsAssumption, ElementOfSeq DEF ChainInv, ChainOK, Times
<1>2. /\ InEffect(chain, clock) \in 0..Len(chain)
      /\ \A i \in 1..InEffect(chain, clock) : chain[i].effective <= clock
  BY <1>1, InEffectIs
<1>3. ASSUME NEW t \in Pool, Publish(t)
      PROVE  /\ InEffect(chain, clock) <= InEffect(chain', clock')
             /\ \A i \in 1..InEffect(chain, clock) : chain'[i] = chain[i]
  <2>1. /\ chain' \in Seq(Pool) /\ Len(chain') = Len(chain) + 1 /\ clock' = clock
        /\ \A i \in 1..Len(chain) : chain'[i] = chain[i]
    BY <1>3, PublishKeeps DEF ChainInv, Publish
  <2>2. /\ InEffect(chain, clock) \in 0..Len(chain')
        /\ \A i \in 1..InEffect(chain, clock) : chain'[i].effective <= clock
    BY <1>1, <1>2, <2>1
  <2> QED BY <1>1, <1>2, <2>1, <2>2, InEffectAtLeast
<1>4. CASE Tick
  <2>1. clock' = clock + 1 /\ chain' = chain BY <1>4 DEF Tick
  <2>2. \A i \in 1..InEffect(chain, clock) : chain[i].effective <= clock + 1
    BY <1>1, <1>2
  <2>3. InEffect(chain, clock) <= InEffect(chain, clock + 1)
    BY <1>1, <1>2, <2>2, InEffectAtLeast
  <2> QED BY <2>1, <2>3
<1>5. CASE UNCHANGED <<clock, chain>> BY <1>1, <1>2, <1>5
<1> QED BY <1>3, <1>4, <1>5 DEF Next, Advance, vars

\* Neither time nor a longer chain brings a retired root back, or changes a
\* step that is already in effect.
THEOREM RootsAlwaysMoveOn == Spec => RootsMoveOn
<1>1. ChainInv /\ [Next]_vars =>
        [/\ InEffect(chain, clock) <= InEffect(chain', clock')
         /\ \A i \in 1..InEffect(chain, clock) : chain'[i] = chain[i]]_vars
  BY RootsStep
<1> QED BY <1>1, AlwaysChainInv, PTL DEF Spec, RootsMoveOn

-----------------------------------------------------------------------------
(* Activation over the chain.                                               *)

\* An activation never disturbs the chain it reads: what holds of the chain
\* holds of the two together.
THEOREM ActivationKeepsRootChain == ActivationSpec => Spec
<1>1. ActivationInit => Init BY DEF ActivationInit
<1>2. [ActivationNext]_activationVars => [Next]_vars
  BY DEF ActivationNext, Step, Activate, Connect, Inspect, Enroll, Store,
         StoreFails, Replay, Stop, Upgrade, Remove, activationVars
<1> QED BY <1>1, <1>2, PTL DEF ActivationSpec, Spec

\* A call that has seen a stored state still finds it, until a removal.
SeenIsStored ==
  \A p \in Processes :
    /\ call[p].removals <= removals
    /\ call[p].step = "returned" => call[p].existing # None
    /\ call[p].existing # None /\ call[p].removals = removals =>
         state = call[p].existing /\ state.locator = call[p].locator

\* The session is opened before the state is stored.
StoresEnrolled ==
  /\ state # None => enrolled
  /\ \A p \in Processes : call[p].step \in {"store", "replay"} => enrolled

ActivationInv ==
  clock \in Times /\ ActivationTypeOK /\ SeenIsStored /\ StoresEnrolled

Calls == [step : Steps, locator : Locators, at : Times,
          existing : State \cup {None}, removals : 0..MaxRemovals]

LEMMA InitActivationInv == ActivationInit => ActivationInv
<1> SUFFICES ASSUME ActivationInit PROVE ActivationInv OBVIOUS
<1>1. NewCall \in Calls
  BY ActivationAssumption, LimitsAssumption DEF NewCall, Calls, Steps, Ended, Times
<1>2. clock \in Times BY LimitsAssumption DEF ActivationInit, Init, Times
<1>3. ActivationTypeOK
  <2>1. call \in [Processes -> Calls] BY <1>1 DEF ActivationInit
  <2>2. calls \in 0..MaxCalls /\ removals \in 0..MaxRemovals /\ bundled \in Locators
    BY ActivationAssumption DEF ActivationInit
  <2>3. state \in State \cup {None} /\ enrolled \in BOOLEAN BY DEF ActivationInit
  <2> QED BY <2>1, <2>2, <2>3 DEF ActivationTypeOK, Calls
<1>4. SeenIsStored /\ StoresEnrolled
  BY DEF ActivationInit, SeenIsStored, StoresEnrolled, NewCall
<1> QED BY <1>2, <1>3, <1>4 DEF ActivationInv

\* A step of one process: what its own call becomes, the others' unchanged.
LEMMA CallStep ==
  ASSUME ActivationInv, clock' \in Times,
         UNCHANGED <<removals, bundled>>, calls' \in 0..MaxCalls,
         NEW p \in Processes, NEW r \in Calls, call' = [call EXCEPT ![p] = r],
         r.removals <= removals,
         r.step = "returned" => r.existing # None,
         r.existing # None /\ r.removals = removals =>
           state' = r.existing /\ state'.locator = r.locator,
         state' \in State \cup {None}, state' = state \/ state = None,
         state' # None => enrolled',
         enrolled' \in BOOLEAN, enrolled => enrolled',
         r.step \in {"store", "replay"} => enrolled'
  PROVE  ActivationInv'
<1>1. call'[p] = r /\ \A q \in Processes \ {p} : call'[q] = call[q]
  BY DEF ActivationInv, ActivationTypeOK
<1>2. SeenIsStored' BY <1>1 DEF SeenIsStored, ActivationInv
<1>3. StoresEnrolled' BY <1>1 DEF StoresEnrolled, ActivationInv
<1>4. call' \in [Processes -> Calls] BY DEF ActivationInv, ActivationTypeOK, Calls
<1>5. ActivationTypeOK' BY <1>4 DEF ActivationInv, ActivationTypeOK, Calls
<1> QED BY <1>2, <1>3, <1>5 DEF ActivationInv

\* What a step does to a call.
Moved(c, step) == [step |-> step, locator |-> c.locator, at |-> c.at,
                   existing |-> c.existing, removals |-> c.removals]
Returned(c, result) == [c EXCEPT !.step = "returned", !.existing = result, !.at = 0]

LEMMA CallOf ==
  ASSUME ActivationTypeOK, NEW p \in Processes
  PROVE  /\ call[p] \in Calls
         /\ \A s : Goes(p, s) => call' = [call EXCEPT ![p] = Moved(call[p], s)]
         /\ \A r : Returns(p, r) => call' = [call EXCEPT ![p] = Returned(call[p], r)]
         /\ Raises(p) => call' = [call EXCEPT ![p] = [NewCall EXCEPT !.step = "raised"]]
<1>1. call[p] \in Calls /\ call \in [Processes -> Calls] BY DEF ActivationTypeOK, Calls
<1>2. ASSUME NEW s, Goes(p, s)
      PROVE  call' = [call EXCEPT ![p] = Moved(call[p], s)]
  <2>1. [call[p] EXCEPT !.step = s] = Moved(call[p], s) BY <1>1 DEF Calls, Moved
  <2> QED BY <1>1, <1>2, <2>1 DEF Goes
<1>3. ASSUME NEW r, Returns(p, r)
      PROVE  call' = [call EXCEPT ![p] = Returned(call[p], r)]
  <2> QED BY <1>1, <1>3 DEF Returns, Returned
<1> QED BY <1>1, <1>2, <1>3 DEF Raises

\* A call that raises has seen nothing.
LEMMA RaisesStep ==
  ASSUME ActivationInv, UNCHANGED <<clock, removals, bundled, state>>,
         calls' \in 0..MaxCalls,
         enrolled' \in BOOLEAN, enrolled => enrolled',
         NEW p \in Processes, Raises(p)
  PROVE  ActivationInv'
<1> DEFINE r == [NewCall EXCEPT !.step = "raised"]
<1>1. call' = [call EXCEPT ![p] = r] BY DEF Raises
<1>2. /\ r \in Calls /\ r.removals = 0 /\ r.step = "raised" /\ r.existing = None
  BY ActivationAssumption, LimitsAssumption DEF NewCall, Calls, Steps, Ended, Times
<1>3. removals \in Nat /\ clock' \in Times
  BY DEF ActivationInv, ActivationTypeOK
<1> HIDE DEF r
<1>4. /\ state' \in State \cup {None} /\ state' = state
      /\ state # None => enrolled
  BY DEF ActivationInv, ActivationTypeOK, StoresEnrolled
<1>5. r.removals <= removals BY <1>2, <1>3
<1>6. ~ (r.step \in {"store", "replay"}) /\ r.step # "returned" BY <1>2
<1> QED BY <1>1, <1>2, <1>3, <1>4, <1>5, <1>6, CallStep

\* A call that moves on, in the same state, with its own memory.
LEMMA GoesStep ==
  ASSUME ActivationInv,
         UNCHANGED <<clock, removals, bundled, calls>>,
         enrolled' \in BOOLEAN, enrolled => enrolled',
         state' \in State \cup {None}, state' = state \/ state = None,
         state' # None => enrolled',
         NEW p \in Processes, NEW s \in Steps \ {"returned"}, Goes(p, s),
         s \in {"store", "replay"} => enrolled'
  PROVE  ActivationInv'
<1> DEFINE r == Moved(call[p], s)
<1>1. call' = [call EXCEPT ![p] = r] /\ call[p] \in Calls BY CallOf DEF ActivationInv
<1>2. /\ r \in Calls /\ r.removals = call[p].removals /\ r.step = s
      /\ r.existing = call[p].existing /\ r.locator = call[p].locator
  BY <1>1 DEF Moved, Calls
<1>3. call[p].removals <= removals BY DEF ActivationInv, SeenIsStored
<1>4. call[p].existing # None /\ call[p].removals = removals =>
        state' = call[p].existing /\ state'.locator = call[p].locator
  <2>1. call[p].existing # None /\ call[p].removals = removals =>
          state = call[p].existing /\ state.locator = call[p].locator
    BY DEF ActivationInv, SeenIsStored
  <2> QED BY <2>1
<1>5. clock' \in Times /\ calls' \in 0..MaxCalls BY DEF ActivationInv, ActivationTypeOK
<1> HIDE DEF r
<1> QED BY <1>1, <1>2, <1>3, <1>4, <1>5, CallStep

\* A call that returns what is stored for its locator, or what it had seen.
LEMMA ReturnsStep ==
  ASSUME ActivationInv,
         UNCHANGED <<clock, removals, bundled, calls>>,
         enrolled' \in BOOLEAN, enrolled => enrolled',
         state' = state \/ state = None, state' # None => enrolled',
         state' \in State \cup {None},
         NEW p \in Processes, NEW v \in State, Returns(p, v),
         \/ v = call[p].existing
         \/ v = state' /\ v.locator = call[p].locator
  PROVE  ActivationInv'
<1> DEFINE r == Returned(call[p], v)
<1>1. call' = [call EXCEPT ![p] = r] /\ call[p] \in Calls BY CallOf DEF ActivationInv
<1>2. /\ r \in Calls /\ r.removals = call[p].removals /\ r.step = "returned"
      /\ r.existing = v /\ r.locator = call[p].locator
  <2>1. "returned" \in Steps /\ 0 \in Times
    BY LimitsAssumption DEF Steps, Ended, Times
  <2>2. r \in Calls BY <1>1, <2>1 DEF Returned, Calls
  <2> QED BY <1>1, <2>2 DEF Returned, Calls
<1>3. call[p].removals <= removals /\ v # None
  BY NoneAssumption DEF ActivationInv, SeenIsStored
<1>4. call[p].removals = removals => state' = v /\ state'.locator = call[p].locator
  <2>1. call[p].existing # None /\ call[p].removals = removals =>
          state = call[p].existing /\ state.locator = call[p].locator
    BY DEF ActivationInv, SeenIsStored
  <2> QED BY <1>3, <2>1
<1>5. clock' \in Times /\ calls' \in 0..MaxCalls BY DEF ActivationInv, ActivationTypeOK
<1> HIDE DEF r
<1> QED BY <1>1, <1>2, <1>3, <1>4, <1>5, CallStep

\* A call begins with what it saw.
LEMMA BeginsStep ==
  ASSUME ActivationInv, UNCHANGED <<clock, removals, bundled, state, enrolled>>,
         calls < MaxCalls, calls' = calls + 1,
         NEW p \in Processes,
         NEW step \in {"inspect", "enroll", "returned"},
         NEW locator \in Locators, NEW at \in Times,
         step = "returned" => state # None,
         state # None => state.locator = locator,
         call' = [call EXCEPT ![p] =
           [step |-> step, locator |-> locator, at |-> at,
            existing |-> state, removals |-> removals]]
  PROVE  ActivationInv'
<1> DEFINE r == [step |-> step, locator |-> locator, at |-> at,
                 existing |-> state, removals |-> removals]
<1>1. /\ state \in State \cup {None} /\ removals \in 0..MaxRemovals /\ calls \in 0..MaxCalls
      /\ enrolled \in BOOLEAN
      /\ state # None => enrolled
  BY DEF ActivationInv, ActivationTypeOK, StoresEnrolled
<1>2. /\ r \in Calls /\ r.removals = removals /\ r.step = step
      /\ r.existing = state /\ r.locator = locator
  BY <1>1 DEF Calls, Steps, Ended
<1>3. calls' \in 0..MaxCalls /\ clock' \in Times
  BY <1>1, ActivationAssumption DEF ActivationInv
<1>4. call' = [call EXCEPT ![p] = r] OBVIOUS
<1> HIDE DEF r
<1>5. r.removals <= removals BY <1>1, <1>2, ActivationAssumption
<1>6. state' = state /\ enrolled' = enrolled OBVIOUS
<1>7. /\ enrolled' \in BOOLEAN
      /\ enrolled => enrolled'
      /\ state' # None => enrolled'
      /\ state' \in State \cup {None}
  <2>1. enrolled' = enrolled BY <1>6
  <2>2. enrolled' \in BOOLEAN BY <1>1, <2>1
  <2>3. enrolled => enrolled' BY <1>1, <2>1
  <2>4. state' # None => enrolled' BY <1>1, <1>6, <2>3
  <2>5. state' \in State \cup {None} BY <1>1, <1>6
  <2> QED BY <2>2, <2>3, <2>4, <2>5
<1>8. r.step = "returned" => r.existing # None BY <1>2
<1>9. r.step \in {"store", "replay"} => enrolled' BY <1>2
<1>10. r.existing # None /\ r.removals = removals =>
         state' = r.existing /\ state'.locator = r.locator
  BY <1>2, <1>6
<1> QED BY <1>2, <1>3, <1>4, <1>5, <1>6, <1>7, <1>8, <1>9, <1>10, CallStep

LEMMA UnchangedStep ==
  ASSUME ActivationInv, clock' \in Times, UNCHANGED <<bundled, files, call, calls, removals>>
  PROVE  ActivationInv'
  BY DEF ActivationInv, ActivationTypeOK, SeenIsStored, StoresEnrolled, files

LEMMA ChainStep ==
  ASSUME ActivationInv, Next \/ UNCHANGED vars,
         UNCHANGED <<bundled, files, call, calls, removals>>
  PROVE  ActivationInv'
<1>1. clock' \in Times
  BY LimitsAssumption DEF ActivationInv, Next, Publish, Advance, Tick, vars, Times
<1> QED BY <1>1, UnchangedStep

LEMMA ActivateStep ==
  ASSUME ActivationInv, NEW p \in Processes, Activate(p)
  PROVE  ActivationInv'
<1>1. /\ calls < MaxCalls /\ calls' = calls + 1
      /\ UNCHANGED <<clock, bundled, state, enrolled, removals>>
  BY DEF Activate, vars, files
<1>2. bundled \in Locators /\ clock \in Times /\ calls \in 0..MaxCalls /\ enrolled \in BOOLEAN
  BY DEF ActivationInv, ActivationTypeOK
<1>3. CASE SameAuthority(state, bundled)
  <2>1. call' = [call EXCEPT ![p] = [step |-> "inspect", locator |-> bundled, at |-> clock,
                                     existing |-> state, removals |-> removals]]
    BY <1>3 DEF Activate
  <2>2. state # None => state.locator = bundled BY <1>3 DEF SameAuthority
  <2> QED BY <1>1, <1>2, <2>1, <2>2, BeginsStep
<1>4. CASE ~ SameAuthority(state, bundled)
  <2>1. Raises(p) BY <1>4 DEF Activate
  <2>2. calls' \in 0..MaxCalls BY <1>1, <1>2, ActivationAssumption
  <2>3. enrolled' \in BOOLEAN BY <1>1, <1>2
  <2>4. enrolled => enrolled' BY <1>1, <1>2
  <2> QED BY <1>1, <2>1, <2>2, <2>3, <2>4, RaisesStep
<1> QED BY <1>3, <1>4

LEMMA ConnectStep ==
  ASSUME ActivationInv, NEW p \in Processes, Connect(p)
  PROVE  ActivationInv'
<1>1. /\ calls < MaxCalls /\ calls' = calls + 1
      /\ UNCHANGED <<clock, bundled, state, enrolled, removals>>
  BY DEF Connect, vars, files
<1>2. calls \in 0..MaxCalls /\ enrolled \in BOOLEAN /\ state \in State \cup {None}
  BY DEF ActivationInv, ActivationTypeOK
<1>3. CASE state # None
  <2>1. PICK step \in {"enroll", "returned"} :
          call' = [call EXCEPT ![p] = [step |-> step, locator |-> state.locator, at |-> 0,
                                       existing |-> state, removals |-> removals]]
    BY <1>3 DEF Connect
  <2>2. state.locator \in Locators BY <1>2, <1>3 DEF State
  <2>3. 0 \in Times BY LimitsAssumption DEF Times
  <2> QED BY <1>1, <1>3, <2>1, <2>2, <2>3, BeginsStep
<1>4. CASE state = None
  <2>1. Raises(p) BY <1>4 DEF Connect
  <2>2. calls' \in 0..MaxCalls BY <1>1, <1>2, ActivationAssumption
  <2>3. enrolled' \in BOOLEAN BY <1>1, <1>2
  <2>4. enrolled => enrolled' BY <1>1, <1>2
  <2> QED BY <1>1, <2>1, <2>2, <2>3, <2>4, RaisesStep
<1> QED BY <1>3, <1>4

\* The steps of a call that change nothing outside it.
LEMMA QuietFacts ==
  ASSUME ActivationInv, UNCHANGED <<vars, bundled, files, calls, removals>>
  PROVE  /\ UNCHANGED <<clock, removals, bundled, calls, state>>
         /\ enrolled' \in BOOLEAN
         /\ enrolled' = enrolled
         /\ enrolled => enrolled'
         /\ state' # None => enrolled'
         /\ state' \in State \cup {None}
         /\ calls' \in 0..MaxCalls
<1>1. UNCHANGED <<clock, removals, bundled, calls, state, enrolled>> BY DEF vars, files
<1>2. /\ enrolled \in BOOLEAN
      /\ state # None => enrolled
      /\ state \in State \cup {None}
      /\ calls \in 0..MaxCalls
  BY DEF ActivationInv, ActivationTypeOK, StoresEnrolled
<1> QED BY <1>1, <1>2

LEMMA InspectStep ==
  ASSUME ActivationInv, NEW p \in Processes, Inspect(p)
  PROVE  ActivationInv'
<1>1. UNCHANGED <<vars, bundled, files, calls, removals>> BY DEF Inspect
<1>2. CASE Raises(p) BY <1>1, <1>2, QuietFacts, RaisesStep
<1>3. CASE Goes(p, "enroll")
  <2>1. "enroll" \in Steps \ {"returned"} BY DEF Steps
  <2> QED BY <1>1, <1>3, <2>1, QuietFacts, GoesStep
<1> QED BY <1>2, <1>3 DEF Inspect

LEMMA EnrollStep ==
  ASSUME ActivationInv, NEW p \in Processes, Enroll(p)
  PROVE  ActivationInv'
<1>1. /\ UNCHANGED <<clock, removals, bundled, calls, state>>
      /\ enrolled' = TRUE
  BY DEF Enroll, vars
<1>2. enrolled' \in BOOLEAN /\ enrolled' BY <1>1
<1>3. state' \in State \cup {None} /\ calls' \in 0..MaxCalls
  BY <1>1 DEF ActivationInv, ActivationTypeOK
<1>4. CASE Raises(p) BY <1>1, <1>2, <1>3, <1>4, RaisesStep
<1>5. CASE call[p].existing # None /\ Returns(p, call[p].existing)
  <2>1. call[p].existing \in State BY <1>5 DEF ActivationInv, ActivationTypeOK
  <2> QED BY <1>1, <1>2, <1>3, <1>5, <2>1, ReturnsStep
<1>6. CASE Goes(p, "store")
  <2>1. "store" \in Steps \ {"returned"} BY DEF Steps
  <2> QED BY <1>1, <1>2, <1>3, <1>6, <2>1, GoesStep
<1> QED BY <1>4, <1>5, <1>6 DEF Enroll, AfterEnroll

\* A state is stored by a call whose session is open.
LEMMA StoringFacts ==
  ASSUME ActivationInv, NEW p \in Processes, call[p].step \in {"store", "replay"},
         UNCHANGED <<vars, bundled, enrolled, calls, removals>>,
         state' = state \/ state' = NewState(p)
  PROVE  /\ UNCHANGED <<clock, removals, bundled, calls>>
         /\ enrolled' \in BOOLEAN
         /\ enrolled'
         /\ state' \in State \cup {None}
         /\ NewState(p) \in State /\ NewState(p).locator = call[p].locator
<1>1. UNCHANGED <<clock, removals, bundled, calls, enrolled>> BY DEF vars
<1>2. /\ enrolled \in BOOLEAN
      /\ enrolled
      /\ state \in State \cup {None}
      /\ call[p].locator \in Locators /\ call[p].at \in Times
  BY DEF ActivationInv, ActivationTypeOK, StoresEnrolled
<1>3. NewState(p) \in State /\ NewState(p).locator = call[p].locator
  BY <1>2 DEF NewState, State
<1>4. state' \in State \cup {None} BY <1>2, <1>3
<1> QED BY <1>1, <1>2, <1>3, <1>4

LEMMA StoreStep ==
  ASSUME ActivationInv, NEW p \in Processes, Store(p) \/ StoreFails(p)
  PROVE  ActivationInv'
<1>1. /\ call[p].step \in {"store", "replay"}
      /\ UNCHANGED <<vars, bundled, enrolled, calls, removals>>
      /\ state' = state \/ (state = None /\ state' = NewState(p))
  BY DEF Store, StoreFails
<1>2. CASE state' = NewState(p) /\ state = None /\ Returns(p, NewState(p))
  BY <1>1, <1>2, StoringFacts, ReturnsStep
<1>3. CASE Goes(p, "replay")
  <2>1. "replay" \in Steps \ {"returned"} BY DEF Steps
  <2> QED BY <1>1, <1>3, <2>1, StoringFacts, GoesStep
<1> QED BY <1>2, <1>3 DEF Store, StoreFails

LEMMA ReplayStep ==
  ASSUME ActivationInv, NEW p \in Processes, Replay(p)
  PROVE  ActivationInv'
<1>1. call[p].step = "replay" /\ UNCHANGED <<vars, bundled, files, calls, removals>>
  BY DEF Replay
<1>2. CASE Raises(p) BY <1>1, <1>2, QuietFacts, RaisesStep
<1>3. CASE state = NewState(p) /\ Returns(p, state)
  <2>1. UNCHANGED <<vars, bundled, enrolled, calls, removals>> /\ state' = state
    BY <1>1 DEF files
  <2> QED BY <1>1, <1>3, <2>1, StoringFacts, ReturnsStep
<1> QED BY <1>2, <1>3 DEF Replay

LEMMA StopStep ==
  ASSUME ActivationInv, NEW p \in Processes, Stop(p)
  PROVE  ActivationInv'
<1>1. Raises(p) /\ UNCHANGED <<vars, bundled, files, calls, removals>> BY DEF Stop
<1> QED BY <1>1, QuietFacts, RaisesStep

\* Another release of the client changes what later calls ask for.
LEMMA UpgradeStep == ASSUME ActivationInv, Upgrade PROVE ActivationInv'
<1>1. /\ bundled' \in Locators /\ clock' \in Times
      /\ UNCHANGED <<state, enrolled, call, calls, removals>>
  BY DEF Upgrade, vars, files, ActivationInv
<1> QED BY <1>1 DEF ActivationInv, ActivationTypeOK, SeenIsStored, StoresEnrolled

\* After a removal, no call in flight is owed what it saw.
LEMMA RemoveStep == ASSUME ActivationInv, Remove PROVE ActivationInv'
<1>1. /\ removals < MaxRemovals /\ removals' = removals + 1 /\ state' = None
      /\ UNCHANGED <<clock, bundled, enrolled, call, calls>>
  BY DEF Remove, vars
<1>2. removals \in 0..MaxRemovals /\ removals' \in 0..MaxRemovals /\ MaxRemovals \in Nat
  BY <1>1, ActivationAssumption DEF ActivationInv, ActivationTypeOK
<1>3. ActivationTypeOK' BY <1>1, <1>2 DEF ActivationInv, ActivationTypeOK
<1>4. \A p \in Processes : call[p].removals \in 0..MaxRemovals /\ call[p].removals <= removals
  BY DEF ActivationInv, ActivationTypeOK, SeenIsStored
<1>5. SeenIsStored' BY <1>1, <1>2, <1>4 DEF ActivationInv, SeenIsStored
<1>6. StoresEnrolled' BY <1>1 DEF ActivationInv, StoresEnrolled
<1> QED BY <1>1, <1>3, <1>5, <1>6 DEF ActivationInv

LEMMA NextActivationInv == ActivationInv /\ [ActivationNext]_activationVars => ActivationInv'
<1> SUFFICES ASSUME ActivationInv, [ActivationNext]_activationVars PROVE ActivationInv'
  OBVIOUS
<1>1. CASE Next /\ UNCHANGED <<bundled, files, call, calls, removals>> BY <1>1, ChainStep
<1>2. ASSUME NEW p \in Processes, Step(p) PROVE ActivationInv'
  BY <1>2, ActivateStep, ConnectStep, InspectStep, EnrollStep, StoreStep, ReplayStep,
     StopStep DEF Step
<1>3. CASE Upgrade BY <1>3, UpgradeStep
<1>4. CASE Remove BY <1>4, RemoveStep
<1>5. CASE UNCHANGED activationVars
  <2>1. UNCHANGED vars /\ UNCHANGED <<bundled, files, call, calls, removals>>
    BY <1>5 DEF activationVars
  <2> QED BY <2>1, ChainStep
<1> QED BY <1>1, <1>2, <1>3, <1>4, <1>5 DEF ActivationNext

LEMMA AlwaysActivationInv == ActivationSpec => []ActivationInv
  BY InitActivationInv, NextActivationInv, PTL DEF ActivationSpec

\* The files, the counters and every call keep their types.
THEOREM ActivationTypes == ActivationSpec => []ActivationTypeOK
<1>1. ActivationInv => ActivationTypeOK BY DEF ActivationInv
<1> QED BY <1>1, AlwaysActivationInv, PTL

\* What activate_service_from_locator and activated_service_connector return
\* is what is stored, for the locator the process was given, unless the owner
\* has removed it since the call began.
THEOREM ReturnedIsAlwaysStored == ActivationSpec => []ReturnedIsStored
<1>1. ActivationInv => ReturnedIsStored
  BY DEF ActivationInv, SeenIsStored, ReturnedIsStored
<1> QED BY <1>1, AlwaysActivationInv, PTL

\* The service is never enabled without a registered identity.
THEOREM EnabledIsAlwaysEnrolled == ActivationSpec => []EnabledIsEnrolled
<1>1. ActivationInv => EnabledIsEnrolled
  BY DEF ActivationInv, StoresEnrolled, EnabledIsEnrolled
<1> QED BY <1>1, AlwaysActivationInv, PTL

\* While processes activate, connect and remove, the two clients of the chain
\* still agree, and what the connector accepts still only moves forward.
THEOREM ActivationClientsAgree == ActivationSpec => [](ClientsAgree /\ NextStepIsOpen)
  BY ActivationKeepsRootChain, ClientsAlwaysAgree, NextStepStaysOpen, PTL

THEOREM ActivationRootsMoveOn == ActivationSpec => RootsMoveOn
  BY ActivationKeepsRootChain, RootsAlwaysMoveOn
================================================================================
